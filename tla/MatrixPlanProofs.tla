-------------------------- MODULE MatrixPlanProofs --------------------------
(***************************************************************************)
(* Proofs about a run of the matrix, for every catalog: the lists of the   *)
(* plan, the jobs that work them off, and the page made of the results.    *)
(***************************************************************************)
EXTENDS MatrixPlan, MatrixCellsProofs

-----------------------------------------------------------------------------
(* Lists *)

LEMMA ItemsAre ==
    \A seq : /\ \A i \in DOMAIN seq : seq[i] \in Items(seq)
             /\ \A x \in Items(seq) : \E i \in DOMAIN seq : x = seq[i]
  BY DEF Items

LEMMA ListFacts ==
  ASSUME NEW S, NEW seq \in Seq(S)
  PROVE  /\ Len(seq) \in Nat /\ DOMAIN seq = 1..Len(seq)
         /\ \A i \in DOMAIN seq : seq[i] \in S
         /\ Items(seq) \subseteq S
         /\ seq # <<>> <=> 1 \in DOMAIN seq
         /\ seq \in Seq(Items(seq))
  <1>1. Len(seq) \in Nat /\ DOMAIN seq = 1..Len(seq) /\ \A i \in DOMAIN seq : seq[i] \in S
    OBVIOUS
  <1>2. Items(seq) \subseteq S
    BY <1>1 DEF Items
  <1>3. seq # <<>> <=> 1 \in DOMAIN seq
    OBVIOUS
  <1>4. seq \in [1..Len(seq) -> Items(seq)]
    BY <1>1 DEF Items
  <1>. HIDE DEF Items
  <1>5. seq \in Seq(Items(seq))
    BY <1>1, <1>4
  <1>. QED
    BY <1>1, <1>2, <1>3, <1>5

\* Places are counted through, one after the other.
LEMMA PlaceFacts ==
  ASSUME NEW S \in SUBSET Nat, IsFiniteSet(S)
  PROVE  /\ Cardinality(S) \in Nat
         /\ \A i \in S : Place(S, i) \in 1..Cardinality(S)
         /\ \A i, j \in S : Place(S, i) = Place(S, j) => i = j
         /\ \A n \in 1..Cardinality(S) : \E i \in S : Place(S, i) = n
  <1>. DEFINE Upto(i) == {j \in S : j <= i}
              f == [i \in S |-> Cardinality(Upto(i))]
  <1>0. Cardinality(S) \in Nat
    BY FS_CardinalityType
  <1>1. ASSUME NEW i \in S
        PROVE  IsFiniteSet(Upto(i)) /\ Cardinality(Upto(i)) \in 1..Cardinality(S)
    <2>1. Upto(i) \in SUBSET S /\ i \in Upto(i)
      OBVIOUS
    <2>2. IsFiniteSet(Upto(i)) /\ Cardinality(Upto(i)) <= Cardinality(S)
      BY <2>1, FS_Subset
    <2>3. Cardinality(Upto(i)) \in Nat /\ Cardinality(Upto(i)) # 0
      BY <2>1, <2>2, FS_CardinalityType, FS_EmptySet
    <2>. QED
      BY <2>2, <2>3, <1>0
  <1>2. ASSUME NEW i \in S, NEW j \in S, i < j
        PROVE  Cardinality(Upto(i)) # Cardinality(Upto(j))
    <2>1. i \in Nat /\ j \in Nat /\ j \in Upto(j) /\ j \notin Upto(i)
      BY <1>2
    <2>2. Upto(i) \in SUBSET Upto(j)
      <3>1. \A k \in S : k \in Nat /\ (k <= i => k <= j)
        BY <2>1, <1>2
      <3>. QED
        BY <3>1
    <2>3. Upto(i) # Upto(j)
      BY <2>1
    <2>. QED
      BY <2>2, <2>3, <1>1, FS_Subset
  <1>3. \A i, j \in S : f[i] = f[j] => i = j
    <2>1. \A i, j \in S : i = j \/ i < j \/ j < i
      OBVIOUS
    <2>. QED
      BY <2>1, <1>2
  <1>4. f \in [S -> 1..Cardinality(S)]
    BY <1>1
  <1>5. f \in Injection(S, 1..Cardinality(S))
    BY <1>3, <1>4 DEF Injection, IsInjective
  <1>6. IsFiniteSet(1..Cardinality(S)) /\ Cardinality(1..Cardinality(S)) = Cardinality(S)
    BY <1>0, FS_Interval
  <1>7. f \in Surjection(S, 1..Cardinality(S))
    BY <1>5, <1>6, FS_Injection
  <1>. QED
    BY <1>0, <1>1, <1>3, <1>7 DEF Place, Surjection

\* A picked list is the list read at the places, each of them once.
ReadsAt(got, seq, places, at) ==
    /\ \A k \in DOMAIN got : at[k] \in places /\ got[k] = seq[at[k]]
    /\ \A k, l \in DOMAIN got : at[k] = at[l] => k = l
    /\ \A i \in places : \E k \in DOMAIN got : at[k] = i

LEMMA PickedAt ==
  ASSUME NEW S, NEW seq \in Seq(S), NEW places \in SUBSET DOMAIN seq
  PROVE  /\ Picked(seq, places) \in Seq(S)
         /\ \E at : ReadsAt(Picked(seq, places), seq, places, at)
  <1>1. DOMAIN seq = 1..Len(seq) /\ Len(seq) \in Nat
    OBVIOUS
  <1>2. places \in SUBSET Nat /\ IsFiniteSet(places)
    <2>1. IsFiniteSet(1..Len(seq)) /\ places \in SUBSET (1..Len(seq))
      BY <1>1, FS_Interval
    <2>. QED
      BY <2>1, FS_Subset
  <1>. DEFINE n  == Cardinality(places)
              at == [k \in 1..n |-> CHOOSE i \in places : Place(places, i) = k]
  <1>3. /\ n \in Nat
        /\ \A i \in places : Place(places, i) \in 1..n
        /\ \A i, j \in places : Place(places, i) = Place(places, j) => i = j
        /\ \A k \in 1..n : \E i \in places : Place(places, i) = k
    BY <1>2, PlaceFacts
  <1>4. \A k \in 1..n : at[k] \in places /\ Place(places, at[k]) = k
    BY <1>3
  <1>5. Picked(seq, places) = [k \in 1..n |-> seq[at[k]]]
    BY DEF Picked
  <1>6. DOMAIN Picked(seq, places) = 1..n
    BY <1>5
  <1>7. at \in [1..n -> places]
    BY <1>4
  <1>8. \A k, l \in 1..n : at[k] = at[l] => k = l
    BY <1>4
  <1>9. \A i \in places : at[Place(places, i)] = i
    BY <1>3, <1>4
  <1>10. \A i \in DOMAIN seq : seq[i] \in S
    OBVIOUS
  <1>11. Picked(seq, places) \in [1..n -> S]
    BY <1>5, <1>4, <1>10
  <1>. HIDE DEF at, n
  <1>12. Picked(seq, places) \in Seq(S)
    BY <1>11, <1>3, ListOf
  <1>13. ReadsAt(Picked(seq, places), seq, places, at)
    BY <1>3, <1>5, <1>6, <1>7, <1>8, <1>9 DEF ReadsAt
  <1>. QED
    BY <1>12, <1>13

LEMMA PickedItems ==
  ASSUME NEW S, NEW seq \in Seq(S), NEW places \in SUBSET DOMAIN seq
  PROVE  /\ Picked(seq, places) \in Seq(S)
         /\ Items(Picked(seq, places)) = {seq[i] : i \in places}
         /\ Once(seq) => Once(Picked(seq, places))
         /\ places # {} => Picked(seq, places) # <<>>
  <1>. DEFINE got == Picked(seq, places)
  <1>1. got \in Seq(S) /\ \E at : ReadsAt(got, seq, places, at)
    BY PickedAt
  <1>2. PICK at : ReadsAt(got, seq, places, at)
    BY <1>1
  <1>. HIDE DEF got
  <1>3. Items(got) = {seq[i] : i \in places}
    BY <1>2 DEF ReadsAt, Items
  <1>4. Once(seq) => Once(got)
    BY <1>2 DEF ReadsAt, Once
  <1>5. places # {} => got # <<>>
    BY <1>2 DEF ReadsAt
  <1>. QED
    BY <1>1, <1>3, <1>4, <1>5 DEF got

\* A flattened list reads, one after the other, place `at' of sequence `of'.
ReadsAll(flat, seqs, n, of, at) ==
    /\ \A k \in DOMAIN flat : /\ of[k] \in 1..n /\ at[k] \in DOMAIN seqs[of[k]]
                              /\ flat[k] = seqs[of[k]][at[k]]
    /\ \A k, l \in DOMAIN flat : of[k] = of[l] /\ at[k] = at[l] => k = l
    /\ \A i \in 1..n : \A j \in DOMAIN seqs[i] : \E k \in DOMAIN flat : of[k] = i /\ at[k] = j

LEMMA ReadsOne ==
  ASSUME NEW S, NEW seqs \in Seq(Seq(S)), seqs # <<>>
  PROVE  \E of, at : ReadsAll(seqs[1], seqs, 1, of, at)
  <1>. DEFINE of == [k \in DOMAIN seqs[1] |-> 1]
              at == [k \in DOMAIN seqs[1] |-> k]
  <1>1. \A k \in DOMAIN seqs[1] : of[k] = 1 /\ at[k] = k
    OBVIOUS
  <1>2. 1 \in 1..1 /\ \A i \in 1..1 : i = 1
    OBVIOUS
  <1>. HIDE DEF of, at
  <1>3. ReadsAll(seqs[1], seqs, 1, of, at)
    BY <1>1, <1>2 DEF ReadsAll
  <1>. QED
    BY <1>3

LEMMA ReadsNext ==
  ASSUME NEW S, NEW seqs \in Seq(Seq(S)), NEW n \in Nat, n + 1 \in DOMAIN seqs,
         NEW flat \in Seq(S), NEW of, NEW at, ReadsAll(flat, seqs, n, of, at)
  PROVE  \E to, ta : ReadsAll(flat \o seqs[n+1], seqs, n+1, to, ta)
  <1>. DEFINE more == seqs[n+1]
              all  == flat \o more
              m    == Len(flat)
              to   == [k \in DOMAIN all |-> IF k \in DOMAIN flat THEN of[k] ELSE n + 1]
              ta   == [k \in DOMAIN all |-> IF k \in DOMAIN flat THEN at[k] ELSE k - m]
  <1>1. more \in Seq(S) /\ m \in Nat /\ Len(more) \in Nat
    OBVIOUS
  <1>2. /\ DOMAIN flat = 1..m /\ DOMAIN more = 1..Len(more)
        /\ DOMAIN all = 1..(m + Len(more))
        /\ \A k \in 1..(m + Len(more)) :
              all[k] = IF k <= m THEN flat[k] ELSE more[k - m]
    BY <1>1
  <1>3. \A k \in DOMAIN all :
          /\ to[k] = IF k \in DOMAIN flat THEN of[k] ELSE n + 1
          /\ ta[k] = IF k \in DOMAIN flat THEN at[k] ELSE k - m
    OBVIOUS
  <1>4. more = seqs[n+1]
    OBVIOUS
  <1>. HIDE DEF all, more, m, to, ta
  <1>5. /\ \A k \in DOMAIN flat : k \in DOMAIN all /\ all[k] = flat[k]
        /\ \A k \in DOMAIN all : k \notin DOMAIN flat =>
              k - m \in DOMAIN more /\ all[k] = more[k - m] /\ k = (k - m) + m
        /\ \A j \in DOMAIN more : j + m \in DOMAIN all /\ j + m \notin DOMAIN flat /\ (j + m) - m = j
    BY <1>1, <1>2
  <1>6. 1..(n+1) = (1..n) \cup {n+1} /\ n + 1 \notin 1..n
    OBVIOUS
  <1>7. ASSUME NEW k \in DOMAIN all
        PROVE  /\ to[k] \in 1..(n+1) /\ ta[k] \in DOMAIN seqs[to[k]]
               /\ all[k] = seqs[to[k]][ta[k]]
    <2>1. CASE k \in DOMAIN flat
      BY <2>1, <1>3, <1>5, <1>6 DEF ReadsAll
    <2>2. CASE k \notin DOMAIN flat
      BY <2>2, <1>3, <1>4, <1>5, <1>6
    <2>. QED
      BY <2>1, <2>2
  <1>8. ASSUME NEW k \in DOMAIN all, NEW l \in DOMAIN all, to[k] = to[l], ta[k] = ta[l]
        PROVE  k = l
    <2>1. (k \in DOMAIN flat) <=> (l \in DOMAIN flat)
      <3>1. \A x \in DOMAIN all : to[x] = n + 1 <=> x \notin DOMAIN flat
        <4>1. \A x \in DOMAIN flat : of[x] \in 1..n
          BY DEF ReadsAll
        <4>. QED
          BY <4>1, <1>3, <1>6
      <3>. QED
        BY <3>1, <1>8
    <2>2. CASE k \in DOMAIN flat
      BY <2>1, <2>2, <1>3, <1>8 DEF ReadsAll
    <2>3. CASE k \notin DOMAIN flat
      BY <2>1, <2>3, <1>3, <1>5, <1>8
    <2>. QED
      BY <2>2, <2>3
  <1>9. ASSUME NEW i \in 1..(n+1), NEW j \in DOMAIN seqs[i]
        PROVE  \E k \in DOMAIN all : to[k] = i /\ ta[k] = j
    <2>1. CASE i = n + 1
      <3>1. j \in DOMAIN more
        BY <2>1, <1>4, <1>9
      <3>2. j + m \in DOMAIN all /\ to[j + m] = n + 1 /\ ta[j + m] = j
        BY <3>1, <1>3, <1>5
      <3>. QED
        BY <2>1, <3>2
    <2>2. CASE i \in 1..n
      <3>1. PICK k \in DOMAIN flat : of[k] = i /\ at[k] = j
        BY <2>2, <1>9 DEF ReadsAll
      <3>. QED
        BY <3>1, <1>3, <1>5
    <2>. QED
      BY <2>1, <2>2, <1>6
  <1>10. ReadsAll(all, seqs, n+1, to, ta)
    BY <1>7, <1>8, <1>9 DEF ReadsAll
  <1>. QED
    BY <1>10 DEF all, more

LEMMA FlattenAt ==
  ASSUME NEW S, NEW seqs \in Seq(Seq(S))
  PROVE  /\ FlattenSeq(seqs) \in Seq(S)
         /\ \E of, at : ReadsAll(FlattenSeq(seqs), seqs, Len(seqs), of, at)
  <1>1. CASE seqs = <<>>
    <2>1. FlattenSeq(seqs) = <<>>
      BY <1>1 DEF FlattenSeq
    <2>2. ReadsAll(<<>>, seqs, Len(seqs), <<>>, <<>>)
      BY <1>1 DEF ReadsAll
    <2>3. <<>> \in Seq(S)
      OBVIOUS
    <2>. QED
      BY <2>1, <2>2, <2>3
  <1>2. CASE seqs # <<>>
    <2>. DEFINE N == Len(seqs)
    <2>1. N \in Nat /\ N # 0 /\ N \in 0..N
      BY <1>2
    <2>2. \E g : FlattenSeq(seqs) = g[N] /\ JoinedAt(seqs, g)
      BY <1>2, FlattenSteps
    <2>3. PICK flatten : FlattenSeq(seqs) = flatten[N] /\ JoinedAt(seqs, flatten)
      BY <2>2
    <2>5. \A i \in 1..N : flatten[i] = IF i = 1 THEN seqs[i] ELSE flatten[i-1] \o seqs[i]
      BY <2>3 DEF JoinedAt
    <2>. DEFINE Good(n) == flatten[n] \in Seq(S) /\ \E of, at : ReadsAll(flatten[n], seqs, n, of, at)
                Bad     == {n \in 1..N : ~Good(n)}
    <2>6. Good(1)
      <3>1. flatten[1] = seqs[1] /\ seqs[1] \in Seq(S)
        BY <2>1, <2>5
      <3>. QED
        BY <3>1, <1>2, ReadsOne
    <2>7. ASSUME NEW n \in Nat, n + 1 \in 1..N, n # 0, Good(n)
          PROVE  Good(n+1)
      <3>1. n \in 1..N /\ n + 1 \in DOMAIN seqs /\ n + 1 # 1 /\ (n + 1) - 1 = n
        BY <2>7, <2>1
      <3>2. flatten[n+1] = flatten[n] \o seqs[n+1] /\ flatten[n] \in Seq(S)
        BY <3>1, <2>5, <2>7
      <3>3. PICK whose, where : ReadsAll(flatten[n], seqs, n, whose, where)
        BY <2>7
      <3>4. flatten[n] \o seqs[n+1] \in Seq(S)
        BY <3>1, <3>2
      <3>5. \E of, at : ReadsAll(flatten[n] \o seqs[n+1], seqs, n+1, of, at)
        BY <3>1, <3>2, <3>3, ReadsNext
      <3>. QED
        BY <3>2, <3>4, <3>5
    <2>8. ASSUME Bad # {}
          PROVE  FALSE
      <3>1. Bad \in SUBSET Nat
        BY <2>1
      <3>2. PICK n \in Bad : \A k \in Bad : n <= k
        BY <3>1, <2>8, Least
      <3>3. n \in 1..N /\ n # 1 /\ ~Good(n)
        BY <3>2, <2>6
      <3>4. /\ n - 1 \in Nat /\ (n - 1) + 1 = n /\ n - 1 # 0 /\ n - 1 \in 1..N /\ ~(n <= n - 1)
        BY <3>3, <2>1
      <3>5. Good(n-1)
        BY <3>2, <3>4
      <3>. QED
        BY <2>7, <3>3, <3>4, <3>5
    <2>9. Good(N)
      <3>1. N \in 1..N
        BY <2>1
      <3>2. N \notin Bad
        BY <2>8
      <3>. QED
        BY <3>1, <3>2
    <2>. QED
      BY <2>3, <2>9
  <1>. QED
    BY <1>1, <1>2

\* A list in parts: none empty, and every element in one of them.
Parted(parts, whole) ==
    /\ parts \in Seq(Seq(Items(whole)))
    /\ \A n \in DOMAIN parts : parts[n] # <<>> /\ Once(parts[n])
    /\ \A m, n \in DOMAIN parts : m # n => Items(parts[m]) \cap Items(parts[n]) = {}
    /\ \A x \in Items(whole) : \E n \in DOMAIN parts : x \in Items(parts[n])

LEMMA Monotony ==
  ASSUME NEW a \in Nat, NEW b \in Nat, NEW s \in Nat, a <= b
  PROVE  a * s <= b * s
  OBVIOUS

LEMMA SliceBounds ==
  ASSUME NEW len \in Nat, NEW size \in Nat \ {0}
  PROVE  LET N == (len + size - 1) \div size IN
         /\ N \in Nat
         /\ \A n \in 1..N : (n - 1) * size \in Nat /\ (n - 1) * size + 1 <= len
                            /\ n * size = (n - 1) * size + size
         /\ \A m, n \in 1..N : m < n => m * size <= (n - 1) * size
         /\ \A p \in 1..len : \E n \in 1..N : (n - 1) * size + 1 <= p /\ p <= n * size
  <1>. DEFINE N == (len + size - 1) \div size
  <1>1. N \in Nat /\ N * size <= len + size - 1 /\ len + size - 1 < N * size + size
    OBVIOUS
  <1>. HIDE DEF N
  <1>2. ASSUME NEW n \in 1..N
        PROVE  (n - 1) * size \in Nat /\ (n - 1) * size + 1 <= len /\ n * size = (n - 1) * size + size
    <2>1. n \in Nat /\ n - 1 \in Nat /\ n <= N /\ n * size \in Nat /\ (n - 1) * size \in Nat
      BY <1>1
    <2>2. n * size <= N * size
      BY <2>1, <1>1, Monotony
    <2>3. n * size = (n - 1) * size + size
      BY <2>1
    <2>. QED
      BY <2>1, <2>2, <2>3, <1>1
  <1>3. ASSUME NEW m \in 1..N, NEW n \in 1..N, m < n
        PROVE  m * size <= (n - 1) * size
    <2>1. m \in Nat /\ n - 1 \in Nat /\ m <= n - 1
      BY <1>1, <1>3
    <2>. QED
      BY <2>1, Monotony
  <1>4. ASSUME NEW p \in 1..len
        PROVE  \E n \in 1..N : (n - 1) * size + 1 <= p /\ p <= n * size
    <2>. DEFINE q == (p - 1) \div size
    <2>1. q \in Nat /\ q * size <= p - 1 /\ p - 1 < q * size + size
      OBVIOUS
    <2>. HIDE DEF q
    <2>2. q < N
      <3>1. SUFFICES ASSUME N <= q PROVE FALSE
        BY <1>1, <2>1
      <3>2. N * size <= q * size
        BY <3>1, <1>1, <2>1, Monotony
      <3>. QED
        BY <3>2, <1>1, <2>1
    <2>3. q + 1 \in 1..N /\ (q + 1) - 1 = q
      BY <2>1, <2>2, <1>1
    <2>4. (q + 1) * size = q * size + size
      BY <2>1
    <2>. QED
      BY <2>1, <2>3, <2>4
  <1>. QED
    BY <1>1, <1>2, <1>3, <1>4 DEF N

\* Slices part a list.
LEMMA SliceParts ==
  ASSUME NEW seq, seq \in Seq(Items(seq)), Once(seq), NEW size \in Nat \ {0}
  PROVE  Parted(Slices(seq, size), seq)
  <1>. DEFINE len   == Len(seq)
              N     == (len + size - 1) \div size
              lo(n) == (n - 1) * size + 1
              hi(n) == IF n * size < len THEN n * size ELSE len
              parts == Slices(seq, size)
  <1>1. len \in Nat /\ DOMAIN seq = 1..len
    OBVIOUS
  <1>2. /\ N \in Nat
        /\ \A n \in 1..N : (n - 1) * size \in Nat /\ (n - 1) * size + 1 <= len
                           /\ n * size = (n - 1) * size + size
        /\ \A m, n \in 1..N : m < n => m * size <= (n - 1) * size
        /\ \A p \in 1..len : \E n \in 1..N : (n - 1) * size + 1 <= p /\ p <= n * size
    BY <1>1, SliceBounds
  <1>3. parts = [n \in 1..N |-> SubSeq(seq, lo(n), hi(n))]
    BY DEF Slices
  <1>. HIDE DEF N, parts, len
  <1>4. \A n \in 1..N : lo(n) \in 1..len /\ hi(n) \in 1..len /\ lo(n) <= hi(n)
    BY <1>1, <1>2
  <1>5. ASSUME NEW n \in 1..N
        PROVE  /\ parts[n] \in Seq(Items(seq)) /\ parts[n] # <<>>
               /\ Once(parts[n])
               /\ Items(parts[n]) = {seq[p] : p \in lo(n)..hi(n)}
    <2>1. parts[n] = SubSeq(seq, lo(n), hi(n))
      BY <1>3
    <2>. DEFINE l == lo(n)  h == hi(n)
    <2>2. l \in 1..len /\ h \in 1..len /\ l <= h /\ l \in Nat /\ h \in Nat
      BY <1>1, <1>4
    <2>. HIDE DEF l, h, lo, hi
    <2>3. /\ DOMAIN SubSeq(seq, l, h) = 1..(h - l + 1)
          /\ \A i \in 1..(h - l + 1) : SubSeq(seq, l, h)[i] = seq[l + i - 1]
          /\ SubSeq(seq, l, h) \in Seq(Items(seq))
          /\ Len(SubSeq(seq, l, h)) = h - l + 1
      BY <2>2, <1>1 DEF len
    <2>4. SubSeq(seq, l, h) # <<>>
      <3>1. 1 \in DOMAIN SubSeq(seq, l, h)
        BY <2>2, <2>3
      <3>. QED
        BY <3>1, <2>3, ListFacts
    <2>5. Once(SubSeq(seq, l, h))
      <3>1. \A i \in 1..(h - l + 1) : l + i - 1 \in DOMAIN seq
        BY <2>2, <1>1
      <3>2. \A i, j \in 1..(h - l + 1) : l + i - 1 = l + j - 1 => i = j
        BY <2>2
      <3>3. \A i, j \in 1..(h - l + 1) : seq[l + i - 1] = seq[l + j - 1] => l + i - 1 = l + j - 1
        BY <3>1 DEF Once
      <3>4. \A i, j \in 1..(h - l + 1) : SubSeq(seq, l, h)[i] = SubSeq(seq, l, h)[j] => i = j
        BY <2>3, <3>2, <3>3
      <3>. QED
        BY <2>3, <3>4 DEF Once
    <2>6. Items(SubSeq(seq, l, h)) = {seq[p] : p \in l..h}
      <3>1. \A i \in 1..(h - l + 1) : l + i - 1 \in l..h
        BY <2>2
      <3>2. \A p \in l..h : p - l + 1 \in 1..(h - l + 1) /\ l + (p - l + 1) - 1 = p
        BY <2>2
      <3>3. \A p \in l..h : SubSeq(seq, l, h)[p - l + 1] = seq[p]
        BY <3>2, <2>3
      <3>. DEFINE sub == SubSeq(seq, l, h)
                  D   == 1..(h - l + 1)
                  P   == l..h
      <3>4. DOMAIN sub = D
        BY <2>3
      <3>5. \A i \in D : \E p \in P : sub[i] = seq[p]
        BY <3>1, <2>3
      <3>6. \A p \in P : \E i \in D : sub[i] = seq[p]
        BY <3>2, <3>3
      <3>. HIDE DEF sub, D, P
      <3>7. Items(sub) = {seq[p] : p \in P}
        BY <3>4, <3>5, <3>6 DEF Items
      <3>. QED
        BY <3>7 DEF sub, P
    <2>. QED
      BY <2>1, <2>3, <2>4, <2>5, <2>6 DEF l, h, lo, hi
  <1>6. ASSUME NEW m \in 1..N, NEW n \in 1..N, m < n
        PROVE  Items(parts[m]) \cap Items(parts[n]) = {}
    <2>. DEFINE x == m * size  y == (n - 1) * size  k == (m - 1) * size
    <2>0. /\ x \in Nat /\ y \in Nat /\ x <= y /\ k \in Nat
          /\ hi(m) \in 1..len /\ hi(n) \in 1..len /\ lo(n) \in 1..len /\ lo(m) \in 1..len
      BY <1>2, <1>4, <1>6, <1>1
    <2>a. hi(m) <= x /\ lo(n) = y + 1
      BY <2>0, <1>1
    <2>. HIDE DEF x, y, k, lo, hi
    <2>1. \A p \in lo(m)..hi(m), q \in lo(n)..hi(n) : p \in DOMAIN seq /\ q \in DOMAIN seq /\ p < q
      BY <1>1, <2>0, <2>a
    <2>2. \A p \in lo(m)..hi(m), q \in lo(n)..hi(n) : seq[p] # seq[q]
      BY <2>1, <1>1 DEF Once
    <2>. HIDE DEF lo, hi
    <2>3. /\ Items(parts[m]) = {seq[p] : p \in lo(m)..hi(m)}
          /\ Items(parts[n]) = {seq[p] : p \in lo(n)..hi(n)}
      BY <1>5 DEF lo, hi
    <2>. QED
      BY <2>2, <2>3
  <1>7. ASSUME NEW x \in Items(seq)
        PROVE  \E n \in 1..N : x \in Items(parts[n])
    <2>1. PICK p \in 1..len : x = seq[p]
      BY <1>1 DEF Items
    <2>2. PICK n \in 1..N : lo(n) <= p /\ p <= n * size
      BY <1>2
    <2>3. p \in lo(n)..hi(n)
      BY <2>2, <1>1, <1>2, <1>4
    <2>. QED
      BY <2>1, <2>2, <2>3, <1>5
  <1>8. DOMAIN parts = 1..N /\ parts \in Seq(Seq(Items(seq)))
    <2>1. DOMAIN parts = 1..N /\ \A n \in 1..N : parts[n] \in Seq(Items(seq))
      BY <1>3, <1>5
    <2>2. parts \in [1..N -> Seq(Items(seq))]
      BY <2>1, <1>3
    <2>. QED
      BY <2>1, <2>2, <1>2, ListOf
  <1>9. \A m, n \in 1..N : m # n => m < n \/ n < m
    BY <1>2
  <1>10. Parted(parts, seq)
    BY <1>5, <1>6, <1>7, <1>8, <1>9 DEF Parted
  <1>. QED
    BY <1>10 DEF parts

\* What stands anywhere stands at just one first place.
LEMMA FirstFacts ==
  ASSUME NEW keys, keys \in Seq(Items(keys))
  PROVE  /\ FirstPlaces(keys) \in SUBSET DOMAIN keys
         /\ \A i \in DOMAIN keys : \E j \in FirstPlaces(keys) : keys[j] = keys[i]
         /\ \A i, j \in FirstPlaces(keys) : keys[i] = keys[j] => i = j
  <1>. DEFINE firsts == FirstPlaces(keys)
  <1>1. DOMAIN keys = 1..Len(keys) /\ Len(keys) \in Nat
    OBVIOUS
  <1>2. firsts \in SUBSET DOMAIN keys
    BY DEF FirstPlaces
  <1>3. ASSUME NEW i \in DOMAIN keys
        PROVE  \E j \in firsts : keys[j] = keys[i]
    <2>. DEFINE same == {j \in DOMAIN keys : keys[j] = keys[i]}
    <2>1. same \in SUBSET Nat /\ i \in same
      BY <1>1
    <2>2. PICK j \in same : \A k \in same : j <= k
      BY <2>1, Least
    <2>3. j \in 1..Len(keys)
      BY <1>1
    <2>4. \A k \in 1..j-1 : k \in DOMAIN keys /\ ~(j <= k)
      BY <2>3, <1>1
    <2>5. j \in firsts
      BY <2>2, <2>4 DEF FirstPlaces
    <2>. QED
      BY <2>5
  <1>4. \A i, j \in firsts : keys[i] = keys[j] => i = j
    <2>1. \A i, j \in firsts : i < j => i \in 1..j-1
      BY <1>1, <1>2
    <2>2. \A i, j \in firsts : i = j \/ i < j \/ j < i
      BY <1>1, <1>2
    <2>. QED
      BY <2>1, <2>2 DEF FirstPlaces
  <1>. QED
    BY <1>2, <1>3, <1>4

\* Groups part a list by its keys.
LEMMA GroupParts ==
  ASSUME NEW rows, rows \in Seq(Items(rows)), Once(rows),
         NEW keys, keys \in Seq(Items(keys)), DOMAIN keys = DOMAIN rows
  PROVE  /\ Parted(GroupBy(rows, keys), rows)
         /\ \A n \in DOMAIN GroupBy(rows, keys) : \A i, j \in DOMAIN rows :
               rows[i] \in Items(GroupBy(rows, keys)[n]) /\ rows[j] \in Items(GroupBy(rows, keys)[n])
                  => keys[i] = keys[j]
  <1>. DEFINE firsts    == FirstPlaces(keys)
              first     == Picked(keys, firsts)
              places(n) == {i \in DOMAIN rows : keys[i] = first[n]}
              groups    == GroupBy(rows, keys)
  <1>1. DOMAIN rows = 1..Len(rows) /\ Len(rows) \in Nat
    OBVIOUS
  <1>2. firsts \in SUBSET DOMAIN keys
    BY FirstFacts
  <1>3. PICK at : ReadsAt(first, keys, firsts, at)
    BY <1>2, PickedAt
  <1>4. first \in Seq(Items(keys))
    BY <1>2, PickedAt
  <1>5. groups = [n \in DOMAIN first |-> Picked(rows, places(n))]
    BY DEF GroupBy
  <1>6. /\ \A i \in DOMAIN keys : \E j \in firsts : keys[j] = keys[i]
        /\ \A i, j \in firsts : keys[i] = keys[j] => i = j
    BY FirstFacts
  <1>8. \A m, n \in DOMAIN first : first[m] = first[n] => m = n
    BY <1>3, <1>6 DEF ReadsAt
  <1>. HIDE DEF first, firsts, groups
  <1>9. ASSUME NEW n \in DOMAIN first
        PROVE  /\ groups[n] \in Seq(Items(rows)) /\ groups[n] # <<>> /\ Once(groups[n])
               /\ Items(groups[n]) = {rows[i] : i \in places(n)}
    <2>1. places(n) \in SUBSET DOMAIN rows
      OBVIOUS
    <2>. DEFINE group == Picked(rows, places(n))
    <2>2. groups[n] = group
      BY <1>5
    <2>3. /\ group \in Seq(Items(rows)) /\ Once(group)
          /\ Items(group) = {rows[i] : i \in places(n)}
          /\ places(n) # {} => group # <<>>
      BY <2>1, PickedItems
    <2>4. at[n] \in places(n)
      BY <1>2, <1>3 DEF ReadsAt
    <2>. HIDE DEF group, places
    <2>5. group # <<>>
      BY <2>3, <2>4
    <2>. QED
      BY <2>2, <2>3, <2>5
  <1>10. ASSUME NEW m \in DOMAIN first, NEW n \in DOMAIN first, m # n
         PROVE  Items(groups[m]) \cap Items(groups[n]) = {}
    <2>1. \A i \in places(m), j \in places(n) : i # j /\ i \in DOMAIN rows /\ j \in DOMAIN rows
      BY <1>8, <1>10
    <2>. HIDE DEF places
    <2>2. \A i \in places(m), j \in places(n) : rows[i] # rows[j]
      BY <2>1 DEF Once
    <2>3. /\ Items(groups[m]) = {rows[i] : i \in places(m)}
          /\ Items(groups[n]) = {rows[i] : i \in places(n)}
      BY <1>9 DEF places
    <2>. QED
      BY <2>2, <2>3
  <1>11. ASSUME NEW x \in Items(rows)
         PROVE  \E n \in DOMAIN first : x \in Items(groups[n])
    <2>1. PICK i \in DOMAIN rows : x = rows[i]
      BY DEF Items
    <2>2. PICK j \in firsts : keys[j] = keys[i]
      BY <1>6
    <2>3. PICK n \in DOMAIN first : at[n] = j
      BY <1>3 DEF ReadsAt
    <2>4. i \in places(n)
      BY <1>3, <2>2, <2>3 DEF ReadsAt
    <2>. QED
      BY <1>9, <2>1, <2>4
  <1>12. DOMAIN groups = DOMAIN first /\ groups \in Seq(Seq(Items(rows)))
    <2>1. DOMAIN groups = DOMAIN first /\ \A n \in DOMAIN first : groups[n] \in Seq(Items(rows))
      BY <1>5, <1>9
    <2>2. Len(first) \in Nat /\ DOMAIN first = 1..Len(first)
      BY <1>4
    <2>3. groups \in [1..Len(first) -> Seq(Items(rows))]
      BY <1>5, <2>1, <2>2
    <2>. QED
      BY <2>1, <2>2, <2>3, ListOf
  <1>13. Parted(groups, rows)
    BY <1>9, <1>10, <1>11, <1>12 DEF Parted
  <1>14. \A n \in DOMAIN groups : \A i, j \in DOMAIN rows :
            rows[i] \in Items(groups[n]) /\ rows[j] \in Items(groups[n]) => keys[i] = keys[j]
    BY <1>9, <1>12 DEF Once
  <1>. QED
    BY <1>13, <1>14 DEF groups

\* Parts of parts are parts.
LEMMA FlattenParts ==
  ASSUME NEW whole, NEW groups, Parted(groups, whole),
         NEW parts, parts \in Seq(Seq(Seq(Items(whole)))), DOMAIN parts = DOMAIN groups,
         \A n \in DOMAIN groups : Parted(parts[n], groups[n])
  PROVE  /\ Parted(FlattenSeq(parts), whole)
         /\ \A m \in DOMAIN FlattenSeq(parts) : \E n \in DOMAIN groups :
               Items(FlattenSeq(parts)[m]) \subseteq Items(groups[n])
  <1>. DEFINE flat == FlattenSeq(parts)
  <1>1. flat \in Seq(Seq(Items(whole))) /\ \E of, at : ReadsAll(flat, parts, Len(parts), of, at)
    BY FlattenAt
  <1>2. PICK of, at : ReadsAll(flat, parts, Len(parts), of, at)
    BY <1>1
  <1>. HIDE DEF flat
  <1>3. DOMAIN parts = 1..Len(parts)
    OBVIOUS
  <1>4. /\ \A k \in DOMAIN flat : /\ of[k] \in DOMAIN parts /\ at[k] \in DOMAIN parts[of[k]]
                                  /\ flat[k] = parts[of[k]][at[k]]
        /\ \A k, l \in DOMAIN flat : of[k] = of[l] /\ at[k] = at[l] => k = l
        /\ \A i \in DOMAIN parts : \A j \in DOMAIN parts[i] : \E k \in DOMAIN flat : of[k] = i /\ at[k] = j
    BY <1>2, <1>3 DEF ReadsAll
  <1>5. ASSUME NEW k \in DOMAIN flat
        PROVE  flat[k] # <<>> /\ Once(flat[k]) /\ Items(flat[k]) \subseteq Items(groups[of[k]])
    <2>. DEFINE part == parts[of[k]]  group == groups[of[k]]
    <2>1. Parted(part, group) /\ at[k] \in DOMAIN part /\ flat[k] = part[at[k]]
      BY <1>4
    <2>. HIDE DEF part, group
    <2>2. flat[k] # <<>> /\ Once(flat[k]) /\ part \in Seq(Seq(Items(group)))
      BY <2>1 DEF Parted
    <2>3. flat[k] \in Seq(Items(group))
      BY <2>1, <2>2, ListFacts
    <2>4. Items(flat[k]) \subseteq Items(group)
      BY <2>3, ListFacts
    <2>. QED
      BY <2>2, <2>4 DEF group
  <1>6. ASSUME NEW k \in DOMAIN flat, NEW l \in DOMAIN flat, k # l
        PROVE  Items(flat[k]) \cap Items(flat[l]) = {}
    <2>1. CASE of[k] = of[l]
      <3>1. at[k] # at[l]
        BY <2>1, <1>4, <1>6
      <3>. DEFINE part == parts[of[k]]
      <3>2. /\ Parted(part, groups[of[k]]) /\ at[k] \in DOMAIN part /\ at[l] \in DOMAIN part
            /\ flat[k] = part[at[k]] /\ flat[l] = part[at[l]]
        BY <2>1, <1>4
      <3>. HIDE DEF part
      <3>. QED
        BY <3>1, <3>2 DEF Parted
    <2>2. CASE of[k] # of[l]
      <3>1. of[k] \in DOMAIN groups /\ of[l] \in DOMAIN groups
        BY <1>4
      <3>2. Items(groups[of[k]]) \cap Items(groups[of[l]]) = {}
        BY <2>2, <3>1 DEF Parted
      <3>. QED
        BY <3>2, <1>5
    <2>. QED
      BY <2>1, <2>2
  <1>7. ASSUME NEW x \in Items(whole)
        PROVE  \E k \in DOMAIN flat : x \in Items(flat[k])
    <2>1. PICK n \in DOMAIN groups : x \in Items(groups[n])
      BY DEF Parted
    <2>2. PICK j \in DOMAIN parts[n] : x \in Items(parts[n][j])
      BY <2>1 DEF Parted
    <2>3. PICK k \in DOMAIN flat : of[k] = n /\ at[k] = j
      BY <2>2, <1>4
    <2>4. flat[k] = parts[n][j]
      BY <2>3, <1>4
    <2>. QED
      BY <2>2, <2>4
  <1>8. Parted(flat, whole)
    BY <1>1, <1>5, <1>6, <1>7 DEF Parted, flat
  <1>. QED
    BY <1>4, <1>5, <1>8 DEF flat

\* Batches part the rows, and keep to one key.
LEMMA BatchParts ==
  ASSUME NEW rows, rows \in Seq(Items(rows)), Once(rows),
         NEW keys, keys \in Seq(Items(keys)), DOMAIN keys = DOMAIN rows,
         NEW size \in Nat \ {0}
  PROVE  /\ Parted(Batches(rows, keys, size), rows)
         /\ \A n \in DOMAIN Batches(rows, keys, size) : \A i, j \in DOMAIN rows :
               /\ rows[i] \in Items(Batches(rows, keys, size)[n])
               /\ rows[j] \in Items(Batches(rows, keys, size)[n])
               => keys[i] = keys[j]
  <1>. DEFINE groups == GroupBy(rows, keys)
              parts  == [n \in DOMAIN groups |-> Slices(groups[n], size)]
  <1>1. /\ Parted(groups, rows)
        /\ \A n \in DOMAIN groups : \A i, j \in DOMAIN rows :
              rows[i] \in Items(groups[n]) /\ rows[j] \in Items(groups[n]) => keys[i] = keys[j]
    BY GroupParts
  <1>2. Batches(rows, keys, size) = FlattenSeq(parts)
    BY DEF Batches, ForEach
  <1>. HIDE DEF groups
  <1>3. ASSUME NEW n \in DOMAIN groups
        PROVE  /\ Parted(Slices(groups[n], size), groups[n])
               /\ Slices(groups[n], size) \in Seq(Seq(Items(rows)))
    <2>1. groups[n] \in Seq(Items(rows)) /\ Once(groups[n])
      BY <1>1 DEF Parted
    <2>2. groups[n] \in Seq(Items(groups[n])) /\ Items(groups[n]) \subseteq Items(rows)
      BY <2>1 DEF Items
    <2>3. Parted(Slices(groups[n], size), groups[n])
      BY <2>1, <2>2, SliceParts
    <2>. QED
      BY <2>2, <2>3 DEF Parted
  <1>4. parts \in Seq(Seq(Seq(Items(rows)))) /\ DOMAIN parts = DOMAIN groups
    <2>1. groups \in Seq(Seq(Items(rows)))
      BY <1>1 DEF Parted
    <2>2. Len(groups) \in Nat /\ DOMAIN groups = 1..Len(groups)
      BY <2>1
    <2>3. parts \in [1..Len(groups) -> Seq(Seq(Items(rows)))]
      BY <2>2, <1>3
    <2>. QED
      BY <2>2, <2>3, ListOf
  <1>5. \A n \in DOMAIN groups : Parted(parts[n], groups[n])
    BY <1>3
  <1>. HIDE DEF parts
  <1>6. /\ Parted(FlattenSeq(parts), rows)
        /\ \A m \in DOMAIN FlattenSeq(parts) : \E n \in DOMAIN groups :
              Items(FlattenSeq(parts)[m]) \subseteq Items(groups[n])
    BY <1>1, <1>4, <1>5, FlattenParts
  <1>. QED
    BY <1>1, <1>2, <1>6

LEMMA ListLike ==
  ASSUME NEW S, NEW seq \in Seq(S), NEW T, NEW got \in [DOMAIN seq -> T]
  PROVE  got \in Seq(T) /\ DOMAIN got = DOMAIN seq
  <1>1. Len(seq) \in Nat /\ DOMAIN seq = 1..Len(seq)
    OBVIOUS
  <1>. QED
    BY <1>1, ListOf

\* Lists that share nothing, joined.
LEMMA FlattenOnce ==
  ASSUME NEW T, NEW seqs \in Seq(Seq(T)),
         \A i \in DOMAIN seqs : Once(seqs[i]),
         \A i, j \in DOMAIN seqs : i # j => Items(seqs[i]) \cap Items(seqs[j]) = {}
  PROVE  /\ FlattenSeq(seqs) \in Seq(T) /\ Once(FlattenSeq(seqs))
         /\ Items(FlattenSeq(seqs)) = UNION {Items(seqs[i]) : i \in DOMAIN seqs}
  <1>. DEFINE flat == FlattenSeq(seqs)
  <1>1. flat \in Seq(T) /\ \E of, at : ReadsAll(flat, seqs, Len(seqs), of, at)
    BY FlattenAt
  <1>2. PICK of, at : ReadsAll(flat, seqs, Len(seqs), of, at)
    BY <1>1
  <1>. HIDE DEF flat
  <1>3. DOMAIN seqs = 1..Len(seqs)
    OBVIOUS
  <1>4. /\ \A k \in DOMAIN flat : /\ of[k] \in DOMAIN seqs /\ at[k] \in DOMAIN seqs[of[k]]
                                  /\ flat[k] = seqs[of[k]][at[k]]
        /\ \A k, l \in DOMAIN flat : of[k] = of[l] /\ at[k] = at[l] => k = l
        /\ \A i \in DOMAIN seqs : \A j \in DOMAIN seqs[i] : \E k \in DOMAIN flat : of[k] = i /\ at[k] = j
    BY <1>2, <1>3 DEF ReadsAll
  <1>5. ASSUME NEW k \in DOMAIN flat, NEW l \in DOMAIN flat, flat[k] = flat[l]
        PROVE  k = l
    <2>1. /\ of[k] \in DOMAIN seqs /\ of[l] \in DOMAIN seqs
          /\ flat[k] \in Items(seqs[of[k]]) /\ flat[l] \in Items(seqs[of[l]])
      BY <1>4, ItemsAre
    <2>2. of[k] = of[l]
      <3>1. flat[k] \in Items(seqs[of[k]]) \cap Items(seqs[of[l]])
        BY <2>1, <1>5
      <3>. QED
        BY <2>1, <3>1
    <2>. DEFINE part == seqs[of[k]]
    <2>3. /\ at[k] \in DOMAIN part /\ at[l] \in DOMAIN part /\ part[at[k]] = part[at[l]]
          /\ Once(part)
      BY <2>2, <1>4, <1>5
    <2>. HIDE DEF part
    <2>4. at[k] = at[l]
      BY <2>3 DEF Once
    <2>. QED
      BY <2>2, <2>4, <1>4
  <1>6. ASSUME NEW x \in Items(flat)
        PROVE  \E i \in DOMAIN seqs : x \in Items(seqs[i])
    BY <1>4 DEF Items
  <1>7. ASSUME NEW i \in DOMAIN seqs, NEW x \in Items(seqs[i])
        PROVE  x \in Items(flat)
    <2>1. PICK j \in DOMAIN seqs[i] : x = seqs[i][j]
      BY DEF Items
    <2>2. PICK k \in DOMAIN flat : of[k] = i /\ at[k] = j
      BY <1>4
    <2>3. flat[k] = x
      BY <1>4, <2>1, <2>2
    <2>. QED
      BY <2>3 DEF Items
  <1>8. Once(flat)
    BY <1>5 DEF Once
  <1>. HIDE DEF Items
  <1>9. Items(flat) = UNION {Items(seqs[i]) : i \in DOMAIN seqs}
    BY <1>6, <1>7
  <1>. QED
    BY <1>1, <1>8, <1>9 DEF flat

LEMMA ConcatOnce ==
  ASSUME NEW T, NEW a \in Seq(T), NEW b \in Seq(T), Once(a), Once(b),
         Items(a) \cap Items(b) = {}
  PROVE  /\ a \o b \in Seq(T) /\ Once(a \o b)
         /\ Items(a \o b) = Items(a) \cup Items(b)
  <1>. DEFINE c == a \o b  m == Len(a)
  <1>1. /\ c \in Seq(T) /\ m \in Nat /\ DOMAIN a = 1..m
        /\ DOMAIN b = 1..Len(b) /\ Len(b) \in Nat /\ DOMAIN c = 1..(m + Len(b))
        /\ \A k \in 1..(m + Len(b)) : c[k] = IF k <= m THEN a[k] ELSE b[k - m]
    OBVIOUS
  <1>. HIDE DEF c, m
  <1>2. /\ \A k \in DOMAIN a : k \in DOMAIN c /\ c[k] = a[k]
        /\ \A k \in DOMAIN c : k \notin DOMAIN a =>
              k - m \in DOMAIN b /\ c[k] = b[k - m] /\ k = (k - m) + m
        /\ \A j \in DOMAIN b : j + m \in DOMAIN c /\ c[j + m] = b[j]
    BY <1>1
  <1>3. Items(c) = Items(a) \cup Items(b)
    BY <1>2 DEF Items
  <1>4. ASSUME NEW k \in DOMAIN c, NEW l \in DOMAIN c, c[k] = c[l]
        PROVE  k = l
    <2>1. (k \in DOMAIN a) <=> (l \in DOMAIN a)
      <3>1. \A x \in DOMAIN c : (x \in DOMAIN a => c[x] \in Items(a))
                                /\ (x \notin DOMAIN a => c[x] \in Items(b))
        BY <1>2 DEF Items
      <3>. QED
        BY <3>1, <1>4
    <2>2. CASE k \in DOMAIN a
      BY <2>1, <2>2, <1>2, <1>4 DEF Once
    <2>3. CASE k \notin DOMAIN a
      <3>1. k - m = l - m
        BY <2>1, <2>3, <1>2, <1>4 DEF Once
      <3>. QED
        BY <2>1, <2>3, <3>1, <1>2
    <2>. QED
      BY <2>2, <2>3
  <1>. QED
    BY <1>1, <1>3, <1>4 DEF c, Once

\* What ForEach makes of lists that share nothing.
LEMMA JoinOnce ==
  ASSUME NEW n \in Nat, NEW seqs, seqs = [i \in 1..n |-> seqs[i]],
         \A i \in 1..n : seqs[i] \in Seq(Items(seqs[i])) /\ Once(seqs[i]),
         \A i, j \in 1..n : i # j => Items(seqs[i]) \cap Items(seqs[j]) = {}
  PROVE  LET all == FlattenSeq(seqs) IN
         /\ all \in Seq(Items(all)) /\ Once(all)
         /\ Items(all) = UNION {Items(seqs[i]) : i \in 1..n}
  <1>. DEFINE T == UNION {Items(seqs[i]) : i \in 1..n}
  <1>1. \A i \in 1..n : Items(seqs[i]) \subseteq T
    OBVIOUS
  <1>. HIDE DEF T
  <1>2. \A i \in 1..n : seqs[i] \in Seq(T)
    BY <1>1, ListWiden
  <1>3. DOMAIN seqs = 1..n /\ seqs \in [1..n -> Seq(T)]
    BY <1>2
  <1>4. seqs \in Seq(Seq(T))
    BY <1>3, ListOf
  <1>5. /\ FlattenSeq(seqs) \in Seq(T) /\ Once(FlattenSeq(seqs))
        /\ Items(FlattenSeq(seqs)) = UNION {Items(seqs[i]) : i \in DOMAIN seqs}
    BY <1>3, <1>4, FlattenOnce
  <1>. QED
    BY <1>3, <1>5, ListFacts

-----------------------------------------------------------------------------
(* The rows of a plan *)

\* Engines and VMODs are known by their ids.
LEMMA EngineById ==
  ASSUME NEW c, EnginesLoad(c), NEW e \in Items(c.engines)
  PROVE  /\ \A f \in Items(c.engines) : f.id = e.id => f = e
         /\ FindEngine(c, e.id) = e
  <1>1. \A f \in Items(c.engines) : f.id = e.id => f = e
    BY DEF EnginesLoad, Once, Items
  <1>. QED
    BY <1>1 DEF FindEngine

LEMMA VmodById ==
  ASSUME NEW c, IsCatalog(c), NEW v \in Items(c.vmods)
  PROVE  /\ \A x \in Items(c.vmods) : x.id = v.id => x = v
         /\ FindVmod(c, v.id) = v
  <1>1. \A x \in Items(c.vmods) : x.id = v.id => x = v
    BY DEF IsCatalog, Once, Items
  <1>. QED
    BY <1>1 DEF FindVmod

LEMMA LaneFacts ==
  ASSUME NEW c, IsCatalog(c), EnginesLoad(c), NEW lane
  PROVE  LET es == LaneEngines(c, lane) IN
         /\ Len(es) \in Nat /\ DOMAIN es = 1..Len(es)
         /\ Items(es) = {e \in Items(c.engines) : e.kind = lane}
         /\ \A i, j \in DOMAIN es : es[i].id = es[j].id => i = j
  <1>. DEFINE es == LaneEngines(c, lane)
              places == {i \in DOMAIN c.engines : c.engines[i].kind = lane}
  <1>1. c.engines \in Seq(Items(c.engines)) /\ Once(c.engines)
    BY DEF IsCatalog, EnginesLoad, Once
  <1>2. es = Picked(c.engines, places) /\ places \in SUBSET DOMAIN c.engines
    BY DEF LaneEngines
  <1>3. /\ es \in Seq(Items(c.engines)) /\ Once(es)
        /\ Items(es) = {c.engines[i] : i \in places}
    BY <1>1, <1>2, PickedItems
  <1>. HIDE DEF es
  <1>4. Items(es) = {e \in Items(c.engines) : e.kind = lane}
    BY <1>3 DEF Items
  <1>5. Len(es) \in Nat /\ DOMAIN es = 1..Len(es)
    BY <1>3
  <1>6. ASSUME NEW i \in DOMAIN es, NEW j \in DOMAIN es, es[i].id = es[j].id
        PROVE  i = j
    <2>1. es[i] \in Items(c.engines) /\ es[j] \in Items(c.engines)
      BY <1>4, ItemsAre
    <2>2. es[i] = es[j]
      BY <2>1, <1>6, EngineById
    <2>. QED
      BY <2>2, <1>3 DEF Once
  <1>. QED
    BY <1>4, <1>5, <1>6 DEF es

Chosen(ts, only) == {t \in Items(ts) : only = {} \/ t \in only}

LEMMA SelectedFacts ==
  ASSUME NEW ts, ts \in Seq(Items(ts)), Once(ts), NEW only
  PROVE  /\ Selected(ts, only) \in Seq(Items(ts)) /\ Once(Selected(ts, only))
         /\ Items(Selected(ts, only)) = Chosen(ts, only)
  <1>. DEFINE places == {i \in DOMAIN ts : only = {} \/ ts[i] \in only}
  <1>1. Selected(ts, only) = Picked(ts, places) /\ places \in SUBSET DOMAIN ts
    BY DEF Selected
  <1>2. /\ Selected(ts, only) \in Seq(Items(ts)) /\ Once(Selected(ts, only))
        /\ Items(Selected(ts, only)) = {ts[i] : i \in places}
    BY <1>1, PickedItems
  <1>3. {ts[i] : i \in places} = Chosen(ts, only)
    BY DEF Chosen, Items
  <1>. QED
    BY <1>2, <1>3

\* A list with each element replaced by another.
LEMMA MapOnce ==
  ASSUME NEW S, NEW seq \in Seq(S), Once(seq),
         NEW got, got = [i \in DOMAIN seq |-> got[i]],
         \A i, j \in DOMAIN seq : got[i] = got[j] => seq[i] = seq[j]
  PROVE  got \in Seq(Items(got)) /\ Once(got)
  <1>1. Len(seq) \in Nat /\ DOMAIN seq = 1..Len(seq)
    OBVIOUS
  <1>2. DOMAIN got = 1..Len(seq)
    BY <1>1
  <1>3. got \in [1..Len(seq) -> Items(got)]
    BY <1>1, <1>2, ItemsAre
  <1>4. got \in Seq(Items(got))
    BY <1>1, <1>3, ListOf
  <1>5. Once(got)
    BY <1>1, <1>2 DEF Once
  <1>. QED
    BY <1>4, <1>5

EngineRowOf(c, e, t) == [engine |-> e.id, target |-> t, runner |-> c.targets[t]]

LEMMA EngineRowFacts ==
  ASSUME NEW c, IsCatalog(c), EnginesLoad(c), NEW lane, NEW mode, NEW only
  PROVE  LET rows == EngineRows(c, lane, mode, only) IN
         /\ rows \in Seq(Items(rows)) /\ Once(rows)
         /\ \A r : r \in Items(rows) <=>
               \E e \in Items(c.engines) :
                  e.kind = lane /\ \E t \in Chosen(EngineTargets(e, lane, mode), only) : r = EngineRowOf(c, e, t)
  <1>. DEFINE es == LaneEngines(c, lane)
              ts(e) == Selected(EngineTargets(e, lane, mode), only)
              part(e) == [i \in DOMAIN ts(e) |-> EngineRowOf(c, e, ts(e)[i])]
              seqs == [i \in DOMAIN es |-> part(es[i])]
              rows == EngineRows(c, lane, mode, only)
  <1>1. rows = FlattenSeq(seqs)
    BY DEF EngineRows, ForEach, EngineRowOf
  <1>2. /\ Len(es) \in Nat /\ DOMAIN es = 1..Len(es)
        /\ Items(es) = {e \in Items(c.engines) : e.kind = lane}
        /\ \A i, j \in DOMAIN es : es[i].id = es[j].id => i = j
    BY LaneFacts
  <1>. HIDE DEF es, rows
  <1>3. ASSUME NEW e \in Items(c.engines)
        PROVE  /\ part(e) \in Seq(Items(part(e))) /\ Once(part(e))
               /\ Items(part(e)) =
                     {EngineRowOf(c, e, t) : t \in Chosen(EngineTargets(e, lane, mode), only)}
    <2>. DEFINE all == EngineTargets(e, lane, mode)
    <2>1. all \in Seq(Items(all)) /\ Once(all)
      <3>1. e.targets \in Seq(Items(e.targets)) /\ Once(e.targets)
        BY DEF IsCatalog, EnginesLoad
      <3>2. <<>> \in Seq(Items(<<>>)) /\ Once(<<>>)
        BY DEF Once
      <3>. QED
        BY <3>1, <3>2 DEF EngineTargets
    <2>2. /\ ts(e) \in Seq(Items(all)) /\ Once(ts(e))
          /\ Items(ts(e)) = Chosen(all, only)
      BY <2>1, SelectedFacts
    <2>. DEFINE got == part(e)  places == ts(e)
    <2>. HIDE DEF ts, all
    <2>3. DOMAIN got = DOMAIN places /\ \A i \in DOMAIN places : got[i] = EngineRowOf(c, e, places[i])
      OBVIOUS
    <2>4. got = [i \in DOMAIN places |-> got[i]]
      OBVIOUS
    <2>5. \A i, j \in DOMAIN places : got[i] = got[j] => places[i] = places[j]
      BY <2>3 DEF EngineRowOf
    <2>. HIDE DEF got, places
    <2>6. got \in Seq(Items(got)) /\ Once(got)
      BY <2>2, <2>4, <2>5, MapOnce DEF places
    <2>7. Items(got) = {EngineRowOf(c, e, t) : t \in Items(places)}
      BY <2>3 DEF Items
    <2>. QED
      BY <2>2, <2>6, <2>7 DEF got, places, all
  <1>. DEFINE n == Len(es)
  <1>. HIDE DEF part, n
  <1>10. \A e \in Items(c.engines) : \A r \in Items(part(e)) : r.engine = e.id
    BY <1>3 DEF EngineRowOf
  <1>4. \A i \in 1..n : es[i] \in Items(c.engines) /\ es[i].kind = lane /\ seqs[i] = part(es[i])
    BY <1>2, ItemsAre DEF n
  <1>5. n \in Nat /\ seqs = [i \in 1..n |-> seqs[i]]
    BY <1>2 DEF n
  <1>6. \A i \in 1..n : seqs[i] \in Seq(Items(seqs[i])) /\ Once(seqs[i])
    BY <1>3, <1>4
  <1>7. ASSUME NEW i \in 1..n, NEW j \in 1..n, i # j
        PROVE  Items(seqs[i]) \cap Items(seqs[j]) = {}
    <2>1. es[i].id # es[j].id
      BY <1>2, <1>7 DEF n
    <2>. QED
      BY <2>1, <1>4, <1>10
  <1>. HIDE DEF seqs
  <1>8. /\ rows \in Seq(Items(rows)) /\ Once(rows)
        /\ Items(rows) = UNION {Items(seqs[i]) : i \in 1..n}
    BY <1>1, <1>5, <1>6, <1>7, JoinOnce
  <1>9. ASSUME NEW r
        PROVE  r \in Items(rows) <=>
                  \E e \in Items(c.engines) :
                     e.kind = lane /\ \E t \in Chosen(EngineTargets(e, lane, mode), only) : r = EngineRowOf(c, e, t)
    <2>1. r \in Items(rows) <=> \E i \in 1..n : r \in Items(part(es[i]))
      BY <1>8, <1>4
    <2>2. \A e \in Items(c.engines) : e.kind = lane => \E i \in 1..n : e = es[i]
      BY <1>2, ItemsAre DEF n
    <2>3. r \in Items(rows) <=> \E e \in Items(c.engines) : e.kind = lane /\ r \in Items(part(e))
      BY <2>1, <2>2, <1>4
    <2>. QED
      BY <2>3, <1>3
  <1>. QED
    BY <1>8, <1>9 DEF rows

\* The rows of an engine in one mode, for a list of VMODs on each target.
RowsOfMode(c, e, only, m, vs) ==
    LET ts == Selected(e.targets, only) IN
    FlattenSeq([i \in DOMAIN ts |-> [j \in DOMAIN vs[ts[i]] |-> VmodRow(c, vs[ts[i]][j], e, ts[i], m)]])

LEMMA ModeRows ==
  ASSUME NEW c, IsCatalog(c), EnginesLoad(c), NEW e \in Items(c.engines), NEW only, NEW m,
         NEW vs, \A t \in Items(e.targets) : vs[t] \in Seq(Items(c.vmods)) /\ Once(vs[t])
  PROVE  LET rows == RowsOfMode(c, e, only, m, vs) IN
         /\ rows \in Seq(Items(rows)) /\ Once(rows)
         /\ \A r : r \in Items(rows) <=>
               \E t \in Chosen(e.targets, only) : \E v \in Items(vs[t]) : r = VmodRow(c, v, e, t, m)
  <1>. DEFINE ts      == Selected(e.targets, only)
              part(t) == [j \in DOMAIN vs[t] |-> VmodRow(c, vs[t][j], e, t, m)]
              seqs    == [i \in DOMAIN ts |-> part(ts[i])]
              rows    == FlattenSeq(seqs)
  <1>1. e.targets \in Seq(Items(e.targets)) /\ Once(e.targets)
    BY DEF IsCatalog, EnginesLoad
  <1>2. /\ ts \in Seq(Items(e.targets)) /\ Once(ts) /\ Items(ts) = Chosen(e.targets, only)
    BY <1>1, SelectedFacts
  <1>3. Len(ts) \in Nat /\ DOMAIN ts = 1..Len(ts)
    BY <1>2
  <1>. HIDE DEF ts
  <1>4. ASSUME NEW t \in Items(e.targets)
        PROVE  /\ part(t) \in Seq(Items(part(t))) /\ Once(part(t))
               /\ Items(part(t)) = {VmodRow(c, v, e, t, m) : v \in Items(vs[t])}
    <2>. DEFINE got == part(t)  seq == vs[t]
    <2>1. seq \in Seq(Items(c.vmods)) /\ Once(seq)
      OBVIOUS
    <2>2. DOMAIN got = DOMAIN seq /\ \A i \in DOMAIN seq : got[i] = VmodRow(c, seq[i], e, t, m)
      OBVIOUS
    <2>3. got = [i \in DOMAIN seq |-> got[i]]
      OBVIOUS
    <2>. HIDE DEF got, seq
    <2>4. \A i \in DOMAIN seq : seq[i] \in Items(c.vmods)
      BY <2>1, ListFacts
    <2>5. \A i, j \in DOMAIN seq : got[i] = got[j] => seq[i].id = seq[j].id
      BY <2>2 DEF VmodRow
    <2>6. \A i, j \in DOMAIN seq : got[i] = got[j] => seq[i] = seq[j]
      BY <2>4, <2>5, VmodById
    <2>7. got \in Seq(Items(got)) /\ Once(got)
      BY <2>1, <2>3, <2>6, MapOnce
    <2>8. Items(got) = {VmodRow(c, v, e, t, m) : v \in Items(seq)}
      BY <2>2 DEF Items
    <2>. QED
      BY <2>7, <2>8 DEF got, seq
  <1>. DEFINE n == Len(ts)
  <1>. HIDE DEF part, n
  <1>5. \A t \in Items(e.targets) : \A r \in Items(part(t)) : r.target = t
    BY <1>4 DEF VmodRow
  <1>6. \A i \in 1..n : ts[i] \in Items(e.targets) /\ seqs[i] = part(ts[i])
    BY <1>2, <1>3, ListFacts DEF n
  <1>7. n \in Nat /\ seqs = [i \in 1..n |-> seqs[i]]
    BY <1>3 DEF n
  <1>8. \A i \in 1..n : seqs[i] \in Seq(Items(seqs[i])) /\ Once(seqs[i])
    BY <1>4, <1>6
  <1>9. ASSUME NEW i \in 1..n, NEW j \in 1..n, i # j
        PROVE  Items(seqs[i]) \cap Items(seqs[j]) = {}
    <2>1. ts[i] # ts[j]
      BY <1>2, <1>3, <1>9 DEF Once, n
    <2>. QED
      BY <2>1, <1>5, <1>6
  <1>. HIDE DEF seqs
  <1>10. /\ rows \in Seq(Items(rows)) /\ Once(rows)
         /\ Items(rows) = UNION {Items(seqs[i]) : i \in 1..n}
    BY <1>7, <1>8, <1>9, JoinOnce
  <1>. HIDE DEF rows
  <1>11. ASSUME NEW r
         PROVE  r \in Items(rows) <=>
                   \E t \in Chosen(e.targets, only) : \E v \in Items(vs[t]) : r = VmodRow(c, v, e, t, m)
    <2>1. r \in Items(rows) <=> \E i \in 1..n : r \in Items(part(ts[i]))
      BY <1>10, <1>6
    <2>2. \A t : t \in Chosen(e.targets, only) <=> \E i \in 1..n : t = ts[i]
      BY <1>2, <1>3, ItemsAre DEF n
    <2>3. r \in Items(rows) <=> \E t \in Chosen(e.targets, only) : r \in Items(part(t))
      BY <2>1, <2>2
    <2>4. Chosen(e.targets, only) \subseteq Items(e.targets)
      BY DEF Chosen
    <2>. QED
      BY <2>3, <2>4, <1>4
  <1>. QED
    BY <1>10, <1>11 DEF rows, seqs, part, ts, RowsOfMode

\* A cell of an engine: of a VMOD on a target, in a mode the plan asks for.
Due(c, e, lane, mode, only, r) ==
    \E t \in Chosen(e.targets, only) : \E v \in Items(c.vmods) :
       \/ Compat(mode) /\ r = VmodRow(c, v, e, t, "compat")
       \/ /\ Packages(e, lane, mode) /\ PackageEligible(v, e, t)
          /\ r = VmodRow(c, v, e, t, "package")

LEMMA EngineVmodRows ==
  ASSUME NEW c, IsCatalog(c), EnginesLoad(c), NEW e \in Items(c.engines),
         NEW lane, NEW mode, NEW only
  PROVE  LET rows == VmodRowsOf(c, e, lane, mode, only) IN
         /\ rows \in Seq(Items(rows)) /\ Once(rows)
         /\ \A r : r \in Items(rows) <=> Due(c, e, lane, mode, only, r)
  <1>. DEFINE ts   == Selected(e.targets, only)
              all  == [t \in Items(e.targets) |-> c.vmods]
              due  == [t \in Items(e.targets) |-> PackageVmods(c, e, t)]
              some == RowsOfMode(c, e, only, "compat", all)
              more == RowsOfMode(c, e, only, "package", due)
              a    == IF Compat(mode) THEN some ELSE <<>>
              b    == IF Packages(e, lane, mode) THEN more ELSE <<>>
  <1>1. e.targets \in Seq(Items(e.targets)) /\ Once(e.targets)
    BY DEF IsCatalog, EnginesLoad
  <1>2. Items(ts) = Chosen(e.targets, only) /\ Chosen(e.targets, only) \subseteq Items(e.targets)
    BY <1>1, SelectedFacts DEF Chosen
  <1>3. \A i \in DOMAIN ts : ts[i] \in Items(e.targets)
    BY <1>2, ItemsAre
  <1>4. VmodRowsOf(c, e, lane, mode, only) = a \o b
    <2>1. [i \in DOMAIN ts |-> [j \in DOMAIN c.vmods |-> VmodRow(c, c.vmods[j], e, ts[i], "compat")]]
          = [i \in DOMAIN ts |-> [j \in DOMAIN all[ts[i]] |-> VmodRow(c, all[ts[i]][j], e, ts[i], "compat")]]
      BY <1>3
    <2>2. [i \in DOMAIN ts |-> [j \in DOMAIN PackageVmods(c, e, ts[i]) |->
                                   VmodRow(c, PackageVmods(c, e, ts[i])[j], e, ts[i], "package")]]
          = [i \in DOMAIN ts |-> [j \in DOMAIN due[ts[i]] |-> VmodRow(c, due[ts[i]][j], e, ts[i], "package")]]
      BY <1>3
    <2>. HIDE DEF all, due, ts
    <2>. QED
      BY <2>1, <2>2 DEF VmodRowsOf, RowsOfMode, ForEach, ts
  <1>5. c.vmods \in Seq(Items(c.vmods)) /\ Once(c.vmods)
    BY DEF IsCatalog, Once
  <1>6. \A t \in Items(e.targets) : all[t] \in Seq(Items(c.vmods)) /\ Once(all[t]) /\ Items(all[t]) = Items(c.vmods)
    BY <1>5
  <1>7. ASSUME NEW t \in Items(e.targets)
        PROVE  /\ due[t] \in Seq(Items(c.vmods)) /\ Once(due[t])
               /\ Items(due[t]) = {v \in Items(c.vmods) : PackageEligible(v, e, t)}
    <2>. DEFINE places == {i \in DOMAIN c.vmods : PackageEligible(c.vmods[i], e, t)}
    <2>1. due[t] = Picked(c.vmods, places) /\ places \in SUBSET DOMAIN c.vmods
      BY DEF PackageVmods
    <2>2. /\ due[t] \in Seq(Items(c.vmods)) /\ Once(due[t])
          /\ Items(due[t]) = {c.vmods[i] : i \in places}
      BY <2>1, <1>5, PickedItems
    <2>3. {c.vmods[i] : i \in places} = {v \in Items(c.vmods) : PackageEligible(v, e, t)}
      BY DEF Items
    <2>. QED
      BY <2>2, <2>3
  <1>. HIDE DEF all, due
  <1>8. /\ some \in Seq(Items(some)) /\ Once(some)
        /\ \A r : r \in Items(some) <=>
              \E t \in Chosen(e.targets, only) : \E v \in Items(all[t]) : r = VmodRow(c, v, e, t, "compat")
    BY <1>6, ModeRows
  <1>9. /\ more \in Seq(Items(more)) /\ Once(more)
        /\ \A r : r \in Items(more) <=>
              \E t \in Chosen(e.targets, only) : \E v \in Items(due[t]) : r = VmodRow(c, v, e, t, "package")
    BY <1>7, ModeRows
  <1>. HIDE DEF some, more
  <1>10. <<>> \in Seq(Items(<<>>)) /\ Once(<<>>) /\ Items(<<>>) = {}
    BY DEF Once, Items
  <1>11. /\ a \in Seq(Items(a)) /\ Once(a)
         /\ \A r : r \in Items(a) <=>
               /\ Compat(mode)
               /\ \E t \in Chosen(e.targets, only) : \E v \in Items(c.vmods) : r = VmodRow(c, v, e, t, "compat")
    BY <1>2, <1>6, <1>8, <1>10
  <1>12. /\ b \in Seq(Items(b)) /\ Once(b)
         /\ \A r : r \in Items(b) <=>
               /\ Packages(e, lane, mode)
               /\ \E t \in Chosen(e.targets, only) : \E v \in Items(c.vmods) :
                     PackageEligible(v, e, t) /\ r = VmodRow(c, v, e, t, "package")
    <2>1. \A t \in Chosen(e.targets, only) : \A v :
             v \in Items(due[t]) <=> v \in Items(c.vmods) /\ PackageEligible(v, e, t)
      BY <1>2, <1>7
    <2>2. \A r : r \in Items(more) <=>
             \E t \in Chosen(e.targets, only) : \E v \in Items(c.vmods) :
                PackageEligible(v, e, t) /\ r = VmodRow(c, v, e, t, "package")
      BY <2>1, <1>9
    <2>. QED
      BY <2>2, <1>9, <1>10
  <1>. HIDE DEF a, b
  <1>13. Items(a) \cap Items(b) = {}
    <2>1. \A r \in Items(a) : r.mode = "compat"
      BY <1>11 DEF VmodRow
    <2>2. \A r \in Items(b) : r.mode = "package"
      BY <1>12 DEF VmodRow
    <2>. QED
      BY <2>1, <2>2
  <1>. DEFINE T == Items(a) \cup Items(b)
  <1>14. a \in Seq(T) /\ b \in Seq(T)
    BY <1>11, <1>12, ListWiden
  <1>. HIDE DEF T
  <1>15. a \o b \in Seq(T) /\ Once(a \o b) /\ Items(a \o b) = Items(a) \cup Items(b)
    BY <1>11, <1>12, <1>13, <1>14, ConcatOnce
  <1>16. \A r : r \in Items(a \o b) <=> Due(c, e, lane, mode, only, r)
    BY <1>11, <1>12, <1>15 DEF Due
  <1>. QED
    BY <1>4, <1>15, <1>16, ListFacts

LEMMA VmodRowFacts ==
  ASSUME NEW c, IsCatalog(c), EnginesLoad(c), NEW lane, NEW mode, NEW only
  PROVE  LET rows == VmodRows(c, lane, mode, only) IN
         /\ rows \in Seq(Items(rows)) /\ Once(rows)
         /\ \A r : r \in Items(rows) <=>
               \E e \in Items(c.engines) : e.kind = lane /\ Due(c, e, lane, mode, only, r)
  <1>. DEFINE es == LaneEngines(c, lane)
              part(e) == VmodRowsOf(c, e, lane, mode, only)
              seqs == [i \in DOMAIN es |-> part(es[i])]
              rows == VmodRows(c, lane, mode, only)
  <1>1. rows = FlattenSeq(seqs)
    BY DEF VmodRows, ForEach
  <1>2. /\ Len(es) \in Nat /\ DOMAIN es = 1..Len(es)
        /\ Items(es) = {e \in Items(c.engines) : e.kind = lane}
        /\ \A i, j \in DOMAIN es : es[i].id = es[j].id => i = j
    BY LaneFacts
  <1>. HIDE DEF es, rows
  <1>3. ASSUME NEW e \in Items(c.engines)
        PROVE  /\ part(e) \in Seq(Items(part(e))) /\ Once(part(e))
               /\ \A r : r \in Items(part(e)) <=> Due(c, e, lane, mode, only, r)
    BY EngineVmodRows
  <1>. DEFINE n == Len(es)
  <1>. HIDE DEF part, n
  <1>4. \A e \in Items(c.engines) : \A r \in Items(part(e)) : r.engine = e.id
    <2>1. \A e, r : Due(c, e, lane, mode, only, r) => r.engine = e.id
      BY DEF Due, VmodRow
    <2>. QED
      BY <2>1, <1>3
  <1>5. \A i \in 1..n : es[i] \in Items(c.engines) /\ es[i].kind = lane /\ seqs[i] = part(es[i])
    BY <1>2, ItemsAre DEF n
  <1>6. n \in Nat /\ seqs = [i \in 1..n |-> seqs[i]]
    BY <1>2 DEF n
  <1>7. \A i \in 1..n : seqs[i] \in Seq(Items(seqs[i])) /\ Once(seqs[i])
    BY <1>3, <1>5
  <1>8. ASSUME NEW i \in 1..n, NEW j \in 1..n, i # j
        PROVE  Items(seqs[i]) \cap Items(seqs[j]) = {}
    <2>1. es[i].id # es[j].id
      BY <1>2, <1>8 DEF n
    <2>. QED
      BY <2>1, <1>4, <1>5
  <1>. HIDE DEF seqs
  <1>9. /\ rows \in Seq(Items(rows)) /\ Once(rows)
        /\ Items(rows) = UNION {Items(seqs[i]) : i \in 1..n}
    BY <1>1, <1>6, <1>7, <1>8, JoinOnce
  <1>10. ASSUME NEW r
         PROVE  r \in Items(rows) <=>
                   \E e \in Items(c.engines) : e.kind = lane /\ Due(c, e, lane, mode, only, r)
    <2>1. r \in Items(rows) <=> \E i \in 1..n : r \in Items(part(es[i]))
      BY <1>9, <1>5
    <2>2. \A e \in Items(c.engines) : e.kind = lane => \E i \in 1..n : e = es[i]
      BY <1>2, ItemsAre DEF n
    <2>3. r \in Items(rows) <=> \E e \in Items(c.engines) : e.kind = lane /\ r \in Items(part(e))
      BY <2>1, <2>2, <1>5
    <2>. QED
      BY <2>3, <1>3
  <1>. QED
    BY <1>9, <1>10 DEF rows

\* Each source of the rows is fetched once, for a row that uses it.
LEMMA SourceRowFacts ==
  ASSUME NEW rows, rows \in Seq(Items(rows))
  PROVE  LET got == SourceRows(rows) IN
         /\ got \in Seq(Items(got))
         /\ \A g, h \in Items(got) : g.source = h.source => g = h
         /\ Once(got)
         /\ \A g \in Items(got) : \E r \in Items(rows) :
               g = [row |-> r.row, engine |-> r.engine, source |-> r.source]
         /\ \A r \in Items(rows) : \E g \in Items(got) : g.source = r.source
  <1>. DEFINE names  == [i \in DOMAIN rows |-> rows[i].source]
              firsts == FirstPlaces(names)
              first  == Picked(rows, firsts)
              got    == SourceRows(rows)
  <1>1. Len(rows) \in Nat /\ DOMAIN rows = 1..Len(rows)
    OBVIOUS
  <1>2. names \in Seq(Items(names)) /\ DOMAIN names = DOMAIN rows
    <2>1. names \in [1..Len(rows) -> Items(names)]
      BY <1>1, ItemsAre
    <2>. HIDE DEF names
    <2>. QED
      BY <1>1, <2>1, ListOf
  <1>3. \A i \in DOMAIN rows : names[i] = rows[i].source
    OBVIOUS
  <1>4. got = [i \in DOMAIN first |-> [row |-> first[i].row, engine |-> first[i].engine,
                                       source |-> first[i].source]]
    BY DEF SourceRows
  <1>. HIDE DEF names
  <1>5. /\ firsts \in SUBSET DOMAIN rows
        /\ \A i \in DOMAIN rows : \E j \in firsts : names[j] = names[i]
        /\ \A i, j \in firsts : names[i] = names[j] => i = j
    BY <1>2, FirstFacts
  <1>. HIDE DEF firsts
  <1>6. first \in Seq(Items(rows)) /\ \E at : ReadsAt(first, rows, firsts, at)
    BY <1>5, PickedAt
  <1>7. PICK at : ReadsAt(first, rows, firsts, at)
    BY <1>6
  <1>. HIDE DEF first, got
  <1>8. DOMAIN got = DOMAIN first /\ Len(first) \in Nat /\ DOMAIN first = 1..Len(first)
    BY <1>4, <1>6
  <1>9. got \in Seq(Items(got))
    <2>1. got \in [1..Len(first) -> Items(got)]
      BY <1>4, <1>8, ItemsAre
    <2>. QED
      BY <1>8, <2>1, ListOf
  <1>10. \A i \in DOMAIN got : /\ at[i] \in firsts /\ at[i] \in DOMAIN rows
                               /\ first[i] = rows[at[i]] /\ got[i].source = names[at[i]]
    BY <1>3, <1>4, <1>5, <1>7, <1>8 DEF ReadsAt
  <1>11. \A i, j \in DOMAIN got : got[i].source = got[j].source => i = j
    <2>1. \A i, j \in DOMAIN got : got[i].source = got[j].source => at[i] = at[j]
      BY <1>5, <1>10
    <2>. QED
      BY <2>1, <1>7, <1>8 DEF ReadsAt
  <1>12. ASSUME NEW g \in Items(got)
         PROVE  \E r \in Items(rows) : g = [row |-> r.row, engine |-> r.engine, source |-> r.source]
    <2>1. PICK i \in DOMAIN got : g = got[i]
      BY ItemsAre
    <2>2. rows[at[i]] \in Items(rows)
      BY <1>10, ItemsAre
    <2>. QED
      BY <2>1, <2>2, <1>4, <1>8, <1>10
  <1>13. ASSUME NEW r \in Items(rows)
         PROVE  \E g \in Items(got) : g.source = r.source
    <2>1. PICK i \in DOMAIN rows : r = rows[i]
      BY ItemsAre
    <2>2. PICK j \in firsts : names[j] = names[i]
      BY <1>5
    <2>3. PICK k \in DOMAIN got : at[k] = j
      BY <1>7, <1>8 DEF ReadsAt
    <2>4. got[k].source = r.source
      BY <2>1, <2>2, <2>3, <1>3, <1>10
    <2>. QED
      BY <2>4, ItemsAre
  <1>14. \A g, h \in Items(got) : g.source = h.source => g = h
    BY <1>11, ItemsAre
  <1>15. Once(got)
    BY <1>11 DEF Once
  <1>. QED
    BY <1>9, <1>12, <1>13, <1>14, <1>15 DEF got

-----------------------------------------------------------------------------
(* The batches of a plan *)

LEMMA ListBy ==
  ASSUME NEW S, NEW seq \in Seq(S), NEW got, got = [i \in DOMAIN seq |-> got[i]]
  PROVE  got \in Seq(Items(got)) /\ DOMAIN got = DOMAIN seq
  <1>1. Len(seq) \in Nat /\ DOMAIN seq = 1..Len(seq)
    OBVIOUS
  <1>2. got \in [1..Len(seq) -> Items(got)]
    BY <1>1, ItemsAre
  <1>. QED
    BY <1>1, <1>2, ListOf

LEMMA SourceBatchFacts ==
  ASSUME NEW c, NEW rows, rows \in Seq(Items(rows)), Once(rows)
  PROVE  LET bs == SourceBatches(c, rows) IN
         /\ bs \in Seq(Items(bs))
         /\ \A i \in DOMAIN bs : bs[i].artifact = i /\ bs[i].items \in Seq(Items(rows))
         /\ \A i, j \in DOMAIN bs : i # j => Items(bs[i].items) \cap Items(bs[j].items) = {}
         /\ \A r \in Items(rows) : \E i \in DOMAIN bs : r \in Items(bs[i].items)
  <1>. DEFINE builds == [i \in DOMAIN rows |-> FindVmod(c, rows[i].row).build]
              parts  == Batches(rows, builds, SourceBatchSize)
              bs     == SourceBatches(c, rows)
  <1>1. bs = [i \in DOMAIN parts |-> [artifact |-> i, items |-> parts[i]]]
    BY DEF SourceBatches
  <1>2. builds \in Seq(Items(builds)) /\ DOMAIN builds = DOMAIN rows
    <2>1. builds = [i \in DOMAIN rows |-> builds[i]]
      OBVIOUS
    <2>. HIDE DEF builds
    <2>. QED
      BY <2>1, ListBy
  <1>3. SourceBatchSize \in Nat \ {0}
    BY BatchAssumption
  <1>. HIDE DEF builds
  <1>4. Parted(parts, rows)
    BY <1>2, <1>3, BatchParts
  <1>. HIDE DEF parts, bs
  <1>5. parts \in Seq(Seq(Items(rows)))
    BY <1>4 DEF Parted
  <1>6. bs \in Seq(Items(bs)) /\ DOMAIN bs = DOMAIN parts
    <2>1. bs = [i \in DOMAIN parts |-> bs[i]]
      BY <1>1
    <2>. QED
      BY <2>1, <1>5, ListBy
  <1>7. \A i \in DOMAIN bs : /\ bs[i].artifact = i /\ bs[i].items = parts[i]
                             /\ parts[i] \in Seq(Items(rows))
    BY <1>1, <1>5, <1>6, ListFacts
  <1>8. /\ \A i, j \in DOMAIN parts : i # j => Items(parts[i]) \cap Items(parts[j]) = {}
        /\ \A r \in Items(rows) : \E i \in DOMAIN parts : r \in Items(parts[i])
    BY <1>4 DEF Parted
  <1>. QED
    BY <1>6, <1>7, <1>8 DEF bs

\* A job of engines has no other fields.
EngineShaped(b) == b = [target |-> b.target, items |-> b.items]

LEMMA EngineBatchFacts ==
  ASSUME NEW rows, rows \in Seq(Items(rows)), Once(rows)
  PROVE  LET bs == EngineBatches(rows) IN
         /\ bs \in Seq(Items(bs))
         /\ \A i \in DOMAIN bs : /\ bs[i].items \in Seq(Items(rows)) /\ Once(bs[i].items)
                                 /\ \A q, r \in Items(bs[i].items) : q.target = r.target
                                 /\ EngineShaped(bs[i])
         /\ \A i, j \in DOMAIN bs : i # j => Items(bs[i].items) \cap Items(bs[j].items) = {}
         /\ \A r \in Items(rows) : \E i \in DOMAIN bs : r \in Items(bs[i].items)
  <1>. DEFINE keys  == [i \in DOMAIN rows |-> <<rows[i].target, rows[i].runner>>]
              parts == GroupBy(rows, keys)
              bs    == EngineBatches(rows)
  <1>1. bs = [i \in DOMAIN parts |-> [target |-> parts[i][1].target, items |-> parts[i]]]
    BY DEF EngineBatches
  <1>2. keys \in Seq(Items(keys)) /\ DOMAIN keys = DOMAIN rows
    <2>1. keys = [i \in DOMAIN rows |-> keys[i]]
      OBVIOUS
    <2>. HIDE DEF keys
    <2>. QED
      BY <2>1, ListBy
  <1>3. \A i \in DOMAIN rows : keys[i] = <<rows[i].target, rows[i].runner>>
    OBVIOUS
  <1>. HIDE DEF keys
  <1>4. /\ Parted(parts, rows)
        /\ \A n \in DOMAIN parts : \A i, j \in DOMAIN rows :
              rows[i] \in Items(parts[n]) /\ rows[j] \in Items(parts[n]) => keys[i] = keys[j]
    BY <1>2, GroupParts
  <1>. HIDE DEF parts, bs
  <1>5. parts \in Seq(Seq(Items(rows)))
    BY <1>4 DEF Parted
  <1>6. bs \in Seq(Items(bs)) /\ DOMAIN bs = DOMAIN parts
    <2>1. bs = [i \in DOMAIN parts |-> bs[i]]
      BY <1>1
    <2>. QED
      BY <2>1, <1>5, ListBy
  <1>7. \A i \in DOMAIN bs : /\ bs[i].items = parts[i] /\ parts[i] \in Seq(Items(rows))
                             /\ EngineShaped(bs[i])
    <2>1. \A i \in DOMAIN bs : parts[i] \in Seq(Items(rows))
      BY <1>5, <1>6, ListFacts
    <2>2. ASSUME NEW i \in DOMAIN bs
          PROVE  bs[i].items = parts[i] /\ EngineShaped(bs[i])
      <3>1. bs[i] = [target |-> parts[i][1].target, items |-> parts[i]]
        BY <1>1, <1>6
      <3>. QED
        BY <3>1 DEF EngineShaped
    <2>. QED
      BY <2>1, <2>2
  <1>8. ASSUME NEW n \in DOMAIN parts, NEW q \in Items(parts[n]), NEW r \in Items(parts[n])
        PROVE  q.target = r.target
    <2>1. Items(parts[n]) \subseteq Items(rows)
      BY <1>6, <1>7, ListFacts
    <2>2. PICK i \in DOMAIN rows : q = rows[i]
      BY <2>1, ItemsAre
    <2>3. PICK j \in DOMAIN rows : r = rows[j]
      BY <2>1, ItemsAre
    <2>4. keys[i] = keys[j]
      BY <1>4, <2>2, <2>3
    <2>. QED
      BY <2>2, <2>3, <2>4, <1>3
  <1>9. /\ \A i, j \in DOMAIN parts : i # j => Items(parts[i]) \cap Items(parts[j]) = {}
        /\ \A r \in Items(rows) : \E i \in DOMAIN parts : r \in Items(parts[i])
        /\ \A i \in DOMAIN parts : Once(parts[i])
    BY <1>4 DEF Parted
  <1>10. \A i \in DOMAIN bs : /\ bs[i].items \in Seq(Items(rows)) /\ Once(bs[i].items)
                              /\ \A q, r \in Items(bs[i].items) : q.target = r.target
                              /\ EngineShaped(bs[i])
    BY <1>6, <1>7, <1>8, <1>9
  <1>11. \A i, j \in DOMAIN bs : i # j => Items(bs[i].items) \cap Items(bs[j].items) = {}
    BY <1>6, <1>7, <1>9
  <1>12. \A r \in Items(rows) : \E i \in DOMAIN bs : r \in Items(bs[i].items)
    BY <1>6, <1>7, <1>9
  <1>. QED
    BY <1>6, <1>10, <1>11, <1>12 DEF bs

\* The cells of batch b, as its job restores them, are those of the part.
Strips(b, part) ==
    /\ b.items = [j \in DOMAIN part |-> b.items[j]]
    /\ \A j \in DOMAIN part : /\ b.items[j].row = part[j].row /\ b.items[j].source = part[j].source
                              /\ b.engine = part[j].engine /\ b.target = part[j].target
                              /\ b.mode = part[j].mode

LEMMA VmodBatchFacts ==
  ASSUME NEW rows, rows \in Seq(Items(rows)), Once(rows), NEW sources
  PROVE  LET bs == VmodBatches(rows, sources) IN
         /\ bs \in Seq(Items(bs))
         /\ \E parts :
               /\ Parted(parts, rows) /\ DOMAIN bs = DOMAIN parts
               /\ \A i \in DOMAIN bs : /\ Strips(bs[i], parts[i])
                                       /\ \A r \in Items(parts[i]) : BundleOf(sources, r.source) \in bs[i].sources
  <1>. DEFINE keys  == [i \in DOMAIN rows |-> Contract(rows[i])]
              parts == Batches(rows, keys, VmodBatchSize)
              bs    == VmodBatches(rows, sources)
  <1>1. bs = [i \in DOMAIN parts |->
                [engine |-> parts[i][1].engine, target |-> parts[i][1].target, mode |-> parts[i][1].mode,
                 sources |-> {BundleOf(sources, r.source) : r \in Items(parts[i])},
                 items |-> [j \in DOMAIN parts[i] |-> [row |-> parts[i][j].row, source |-> parts[i][j].source]]]]
    BY DEF VmodBatches
  <1>2. keys \in Seq(Items(keys)) /\ DOMAIN keys = DOMAIN rows
    <2>1. keys = [i \in DOMAIN rows |-> keys[i]]
      OBVIOUS
    <2>. HIDE DEF keys
    <2>. QED
      BY <2>1, ListBy
  <1>3. \A i \in DOMAIN rows : keys[i] = Contract(rows[i])
    OBVIOUS
  <1>4. VmodBatchSize \in Nat \ {0}
    BY BatchAssumption
  <1>. HIDE DEF keys
  <1>5. /\ Parted(parts, rows)
        /\ \A n \in DOMAIN parts : \A i, j \in DOMAIN rows :
              rows[i] \in Items(parts[n]) /\ rows[j] \in Items(parts[n]) => keys[i] = keys[j]
    BY <1>2, <1>4, BatchParts
  <1>. HIDE DEF parts, bs
  <1>6. parts \in Seq(Seq(Items(rows)))
    BY <1>5 DEF Parted
  <1>7. bs \in Seq(Items(bs)) /\ DOMAIN bs = DOMAIN parts
    <2>1. bs = [i \in DOMAIN parts |-> bs[i]]
      BY <1>1
    <2>. QED
      BY <2>1, <1>6, ListBy
  <1>8. ASSUME NEW n \in DOMAIN parts, NEW q \in Items(parts[n]), NEW r \in Items(parts[n])
        PROVE  Contract(q) = Contract(r)
    <2>1. Items(parts[n]) \subseteq Items(rows)
      BY <1>6, ListFacts
    <2>2. PICK i \in DOMAIN rows : q = rows[i]
      BY <2>1, ItemsAre
    <2>3. PICK j \in DOMAIN rows : r = rows[j]
      BY <2>1, ItemsAre
    <2>4. keys[i] = keys[j]
      BY <1>5, <2>2, <2>3
    <2>. QED
      BY <2>2, <2>3, <2>4, <1>3
  <1>9. ASSUME NEW i \in DOMAIN bs
        PROVE  Strips(bs[i], parts[i])
    <2>. DEFINE part == parts[i]
    <2>1. /\ bs[i].engine = part[1].engine /\ bs[i].target = part[1].target /\ bs[i].mode = part[1].mode
          /\ bs[i].items = [j \in DOMAIN part |-> [row |-> part[j].row, source |-> part[j].source]]
      BY <1>1, <1>7
    <2>2. part \in Seq(Items(rows)) /\ part # <<>>
      BY <1>5, <1>6, <1>7, ListFacts DEF Parted
    <2>. HIDE DEF part
    <2>3. part[1] \in Items(part) /\ \A j \in DOMAIN part : part[j] \in Items(part)
      BY <2>2, ListFacts, ItemsAre
    <2>4. \A j \in DOMAIN part : Contract(part[j]) = Contract(part[1])
      BY <2>3, <1>7, <1>8 DEF part
    <2>5. \A j \in DOMAIN part : /\ part[j].engine = part[1].engine /\ part[j].target = part[1].target
                                 /\ part[j].mode = part[1].mode
      BY <2>4 DEF Contract
    <2>6. /\ bs[i].items = [j \in DOMAIN part |-> bs[i].items[j]]
          /\ \A j \in DOMAIN part : bs[i].items[j].row = part[j].row /\ bs[i].items[j].source = part[j].source
      BY <2>1
    <2>7. Strips(bs[i], part)
      BY <2>1, <2>5, <2>6 DEF Strips
    <2>. QED
      BY <2>7 DEF part
  <1>10. \A i \in DOMAIN bs : \A r \in Items(parts[i]) : BundleOf(sources, r.source) \in bs[i].sources
    BY <1>1, <1>7
  <1>. QED
    BY <1>5, <1>7, <1>9, <1>10 DEF bs

-----------------------------------------------------------------------------
(* What the jobs of a run have in common with its catalog *)

EnginesFit(js) ==
    /\ js \in Seq(Items(js))
    /\ \A b \in Items(js) : /\ EngineShaped(b)
                             /\ b.items \in Seq(Items(b.items))

\* A fetch is for a VMOD and an engine of the catalog; none is due twice.
SourcesFit(c, js) ==
    /\ js \in Seq(Items(js))
    /\ \A b \in Items(js) :
          /\ b.items \in Seq(Items(b.items))
          /\ \A r \in Items(b.items) : \E v \in Items(c.vmods), e \in Items(c.engines) :
                r.row = v.id /\ r.engine = e.id /\ r.source = SourceArtifact(v, e)
          /\ \A q, r \in Items(b.items) : q.source = r.source => q = r
    /\ \A i, j \in DOMAIN js : i # j =>
          \A q \in Items(js[i].items), r \in Items(js[j].items) : q.source # r.source

\* A cell names the source its VMOD has for its engine.
VmodsFit(c, js) ==
    /\ js \in Seq(Items(js))
    /\ \A b \in Items(js) :
          /\ b.items \in Seq(Items(b.items))
          /\ \E e \in Items(c.engines) :
                /\ b.engine = e.id
                /\ \A x \in Items(b.items) : \E v \in Items(c.vmods) :
                      x.row = v.id /\ x.source = SourceArtifact(v, e)

Differ(engine, vmod) ==
    /\ \A b \in Items(engine) : EngineItemsDiffer(b)
    /\ \A b \in Items(vmod) : VmodItemsDiffer(b)
    /\ \A i, j \in DOMAIN engine : i # j => EngineKeys(engine[i]) \cap EngineKeys(engine[j]) = {}
    /\ \A i, j \in DOMAIN vmod : i # j => VmodKeys(vmod[i]) \cap VmodKeys(vmod[j]) = {}
    /\ \A b \in Items(engine), d \in Items(vmod) : EngineKeys(b) \cap VmodKeys(d) = {}

KeysOf(engine, vmod) ==
    (UNION {EngineKeys(b) : b \in Items(engine)}) \cup (UNION {VmodKeys(b) : b \in Items(vmod)})

\* Promised, of any run.
Promises(c, w, only) ==
    LET es   == {e \in Items(c.engines) : e.kind = Lane(w)}
        ts(e) == {t \in Items(e.targets) : only = {} \/ t \in only}
        pack(e) == w \in {"matrix", "release"} /\ e.packages IN
    (UNION {{Key(e.id, e.id, t, "engine") : t \in ts(e)} : e \in {e \in es : w # "release" \/ pack(e)}})
    \cup (UNION {{Key(v, e.id, t, "compat") : v \in Ids(c.vmods), t \in ts(e)} :
                    e \in {e \in es : w # "release"}})
    \cup (UNION {{Key(v.id, e.id, t, "package") : t \in {t \in ts(e) : PackageEligible(v, e, t)}} :
                    v \in Items(c.vmods), e \in {e \in es : pack(e)}})

\* Every engine that a batch runs on is built by some job,
EnginesCome(engine, vmod) ==
    \A d \in Items(vmod) : \E b \in Items(engine) : \E r \in Items(b.items) :
        r.engine = d.engine /\ r.target = d.target

\* and every source of its cells is in a bundle that it downloads.
SourcesCome(source, vmod) ==
    \A d \in Items(vmod) : \A x \in Items(d.items) : \E b \in Items(source) :
        b.artifact \in d.sources /\ \E r \in Items(b.items) : r.source = x.source

RowKey(r) == Key(r.row, r.engine, r.target, r.mode)

LEMMA StripsKeys ==
  ASSUME NEW b, NEW part, Strips(b, part)
  PROVE  /\ VmodKeys(b) = {RowKey(r) : r \in Items(part)}
         /\ (Once(part) /\ \A q, r \in Items(part) : RowKey(q) = RowKey(r) => q = r)
               => VmodItemsDiffer(b)
  <1>. DEFINE all == Hydrate(b)
  <1>1. /\ DOMAIN all = DOMAIN part
        /\ \A j \in DOMAIN part : /\ all[j].row = part[j].row /\ all[j].engine = part[j].engine
                                  /\ all[j].target = part[j].target /\ all[j].mode = part[j].mode
    BY DEF Hydrate, Strips
  <1>. HIDE DEF all
  <1>2. \A j \in DOMAIN part : VmodKey(all[j]) = RowKey(part[j])
    BY <1>1 DEF VmodKey, RowKey
  <1>3. VmodKeys(b) = {RowKey(r) : r \in Items(part)}
    <2>1. VmodKeys(b) = {VmodKey(x) : x \in Items(all)}
      BY DEF VmodKeys, all
    <2>2. \A x \in Items(all) : \E r \in Items(part) : VmodKey(x) = RowKey(r)
      BY <1>1, <1>2, ItemsAre
    <2>3. \A r \in Items(part) : \E x \in Items(all) : VmodKey(x) = RowKey(r)
      BY <1>1, <1>2, ItemsAre
    <2>. QED
      BY <2>1, <2>2, <2>3
  <1>4. ASSUME Once(part), \A q, r \in Items(part) : RowKey(q) = RowKey(r) => q = r
        PROVE  VmodItemsDiffer(b)
    <2>1. ASSUME NEW i \in DOMAIN part, NEW j \in DOMAIN part, b.items[i].row = b.items[j].row
          PROVE  i = j
      <3>1. RowKey(part[i]) = RowKey(part[j])
        BY <2>1 DEF Strips, RowKey
      <3>2. part[i] = part[j]
        BY <3>1, <1>4, ItemsAre
      <3>. QED
        BY <3>2, <1>4 DEF Once
    <2>. QED
      BY <2>1 DEF VmodItemsDiffer, Once, Strips
  <1>. QED
    BY <1>3, <1>4

LEMMA WorkflowModes ==
    \A w \in Workflows : /\ Compat(Mode(w)) <=> w # "release"
                         /\ \A e : Packages(e, Lane(w), Mode(w)) <=> w \in {"matrix", "release"} /\ e.packages
  BY DEF Workflows, Compat, Mode, Packages, Lane

EngineKey(r) == Key(r.engine, r.engine, r.target, "engine")

\* The rows are the cells that are promised.
LEMMA RowsPromised ==
  ASSUME NEW c, IsCatalog(c), EnginesLoad(c), NEW w \in Workflows, NEW only
  PROVE  Promises(c, w, only) =
            {EngineKey(r) : r \in Items(EngineRows(c, Lane(w), Mode(w), only))}
            \cup {RowKey(r) : r \in Items(VmodRows(c, Lane(w), Mode(w), only))}
  <1>. DEFINE lane == Lane(w)  mode == Mode(w)
              er   == Items(EngineRows(c, lane, mode, only))
              vr   == Items(VmodRows(c, lane, mode, only))
              es   == {e \in Items(c.engines) : e.kind = lane}
              ts(e) == {t \in Items(e.targets) : only = {} \/ t \in only}
              pack(e) == w \in {"matrix", "release"} /\ e.packages
              E    == UNION {{Key(e.id, e.id, t, "engine") : t \in ts(e)} :
                                e \in {e \in es : w # "release" \/ pack(e)}}
              C    == UNION {{Key(v, e.id, t, "compat") : v \in Ids(c.vmods), t \in ts(e)} :
                                e \in {e \in es : w # "release"}}
              P    == UNION {{Key(v.id, e.id, t, "package") : t \in {t \in ts(e) : PackageEligible(v, e, t)}} :
                                v \in Items(c.vmods), e \in {e \in es : pack(e)}}
  <1>1. /\ Compat(mode) <=> w # "release"
        /\ \A e : Packages(e, lane, mode) <=> pack(e)
    BY WorkflowModes
  <1>2. Promises(c, w, only) = E \cup C \cup P
    BY DEF Promises
  <1>3. /\ \A r : r \in er <=> \E e \in Items(c.engines) :
              e.kind = lane /\ \E t \in Chosen(EngineTargets(e, lane, mode), only) : r = EngineRowOf(c, e, t)
        /\ \A r : r \in vr <=> \E e \in Items(c.engines) : e.kind = lane /\ Due(c, e, lane, mode, only, r)
    BY EngineRowFacts, VmodRowFacts
  <1>4. \A e : ts(e) = Chosen(e.targets, only)
    BY DEF Chosen
  <1>. HIDE DEF er, vr
  <1>5. ASSUME NEW k
        PROVE  k \in E <=> \E r \in er : k = EngineKey(r)
    <2>1. k \in E <=> \E e \in es : (w # "release" \/ pack(e)) /\ \E t \in ts(e) : k = Key(e.id, e.id, t, "engine")
      OBVIOUS
    <2>2. \A e : w # "release" \/ pack(e) => EngineTargets(e, lane, mode) = e.targets
      BY <1>1 DEF EngineTargets
    <2>3. \A e : ~(w # "release" \/ pack(e)) => Chosen(EngineTargets(e, lane, mode), only) = {}
      BY <1>1 DEF EngineTargets, Chosen, Items
    <2>4. \A e, t : EngineKey(EngineRowOf(c, e, t)) = Key(e.id, e.id, t, "engine")
      BY DEF EngineKey, EngineRowOf
    <2>5. (\E r \in er : k = EngineKey(r)) <=>
             \E e \in es : \E t \in Chosen(EngineTargets(e, lane, mode), only) : k = Key(e.id, e.id, t, "engine")
      BY <1>3, <2>4
    <2>6. ASSUME NEW e \in es
          PROVE  ((w # "release" \/ pack(e)) /\ \E t \in ts(e) : k = Key(e.id, e.id, t, "engine")) <=>
                    \E t \in Chosen(EngineTargets(e, lane, mode), only) : k = Key(e.id, e.id, t, "engine")
      BY <1>4, <2>2, <2>3
    <2>. QED
      BY <2>1, <2>5, <2>6
  <1>6. ASSUME NEW k
        PROVE  k \in C \cup P <=> \E r \in vr : k = RowKey(r)
    <2>. DEFINE kc(e) == \E t \in ts(e) : \E v \in Items(c.vmods) : k = Key(v.id, e.id, t, "compat")
                kp(e) == \E t \in ts(e) : \E v \in Items(c.vmods) :
                            PackageEligible(v, e, t) /\ k = Key(v.id, e.id, t, "package")
    <2>1. k \in C <=> \E e \in es : w # "release" /\ kc(e)
      BY DEF Ids
    <2>2. k \in P <=> \E e \in es : pack(e) /\ kp(e)
      <3>. DEFINE cells(v, e) == {Key(v.id, e.id, t, "package") : t \in {t \in ts(e) : PackageEligible(v, e, t)}}
                  vs == Items(c.vmods)
                  fs == {e \in es : pack(e)}
      <3>1. P = UNION {cells(v, e) : v \in vs, e \in fs}
        OBVIOUS
      <3>2. \A v, e : k \in cells(v, e) <=>
               \E t \in ts(e) : PackageEligible(v, e, t) /\ k = Key(v.id, e.id, t, "package")
        OBVIOUS
      <3>. HIDE DEF P, cells, vs, fs
      <3>3. k \in P <=> \E v \in vs, e \in fs : k \in cells(v, e)
        BY <3>1
      <3>. QED
        BY <3>2, <3>3 DEF vs, fs
    <2>3. \A v, e, t, m : RowKey(VmodRow(c, v, e, t, m)) = Key(v.id, e.id, t, m)
      BY DEF RowKey, VmodRow
    <2>4. ASSUME NEW e
          PROVE  (\E r : Due(c, e, lane, mode, only, r) /\ k = RowKey(r)) <=>
                    (w # "release" /\ kc(e)) \/ (pack(e) /\ kp(e))
      <3>. HIDE DEF pack, mode, lane
      <3>1. ASSUME NEW r, Due(c, e, lane, mode, only, r), k = RowKey(r)
            PROVE  (w # "release" /\ kc(e)) \/ (pack(e) /\ kp(e))
        BY <3>1, <1>1, <1>4, <2>3 DEF Due
      <3>2. ASSUME w # "release", kc(e)
            PROVE  \E r : Due(c, e, lane, mode, only, r) /\ k = RowKey(r)
        BY <3>2, <1>1, <1>4, <2>3 DEF Due
      <3>3. ASSUME pack(e), kp(e)
            PROVE  \E r : Due(c, e, lane, mode, only, r) /\ k = RowKey(r)
        BY <3>3, <1>1, <1>4, <2>3 DEF Due
      <3>. QED
        BY <3>1, <3>2, <3>3
    <2>5. (\E r \in vr : k = RowKey(r)) <=>
             \E e \in es : \E r : Due(c, e, lane, mode, only, r) /\ k = RowKey(r)
      BY <1>3
    <2>. HIDE DEF kc, kp, pack, C, P
    <2>. QED
      BY <2>1, <2>2, <2>4, <2>5
  <1>. HIDE DEF E, C, P
  <1>7. \A k : k \in Promises(c, w, only) <=> (\E r \in er : k = EngineKey(r)) \/ (\E r \in vr : k = RowKey(r))
    BY <1>2, <1>5, <1>6
  <1>8. \A k : k \in Promises(c, w, only) <=> k \in {EngineKey(r) : r \in er} \cup {RowKey(r) : r \in vr}
    BY <1>7
  <1>. QED
    BY <1>8 DEF er, vr

\* A cell has one row.
LEMMA RowByKey ==
  ASSUME NEW c, IsCatalog(c), EnginesLoad(c), NEW lane, NEW mode, NEW only,
         NEW q \in Items(VmodRows(c, lane, mode, only)), NEW r \in Items(VmodRows(c, lane, mode, only)),
         RowKey(q) = RowKey(r)
  PROVE  q = r
  <1>1. \A x \in Items(VmodRows(c, lane, mode, only)) :
           \E e \in Items(c.engines), v \in Items(c.vmods) : \E t, m : x = VmodRow(c, v, e, t, m)
    BY VmodRowFacts DEF Due
  <1>2a. PICK e \in Items(c.engines), v \in Items(c.vmods) : \E t, m : q = VmodRow(c, v, e, t, m)
    BY <1>1
  <1>2. PICK t, m : q = VmodRow(c, v, e, t, m)
    BY <1>2a
  <1>3a. PICK f \in Items(c.engines), u \in Items(c.vmods) : \E s, n : r = VmodRow(c, u, f, s, n)
    BY <1>1
  <1>3. PICK s, n : r = VmodRow(c, u, f, s, n)
    BY <1>3a
  <1>4. v.id = u.id /\ e.id = f.id /\ t = s /\ m = n
    BY <1>2, <1>3 DEF RowKey, VmodRow, Key
  <1>5. v = u /\ e = f
    BY <1>4, VmodById, EngineById
  <1>. QED
    BY <1>2, <1>3, <1>4, <1>5

LEMMA EnginePlan ==
  ASSUME NEW c, IsCatalog(c), EnginesLoad(c), NEW lane, NEW mode, NEW only
  PROVE  LET rows == EngineRows(c, lane, mode, only)
             bs   == EngineBatches(rows) IN
         /\ EnginesFit(bs)
         /\ \A b \in Items(bs) : EngineItemsDiffer(b)
         /\ \A i, j \in DOMAIN bs : i # j => EngineKeys(bs[i]) \cap EngineKeys(bs[j]) = {}
         /\ UNION {EngineKeys(b) : b \in Items(bs)} = {EngineKey(r) : r \in Items(rows)}
         /\ \A r \in Items(rows) : \E b \in Items(bs) : r \in Items(b.items)
         /\ \A b \in Items(bs) : Items(b.items) \subseteq Items(rows)
  <1>. DEFINE rows == EngineRows(c, lane, mode, only)
              bs   == EngineBatches(rows)
  <1>1. /\ rows \in Seq(Items(rows)) /\ Once(rows)
        /\ \A r : r \in Items(rows) =>
              \E e \in Items(c.engines) : \E t : r = EngineRowOf(c, e, t)
    BY EngineRowFacts
  <1>2. \A q, r \in Items(rows) : q.engine = r.engine /\ q.target = r.target => q = r
    <2>1. ASSUME NEW q \in Items(rows), NEW r \in Items(rows), q.engine = r.engine, q.target = r.target
          PROVE  q = r
      <3>1a. PICK e \in Items(c.engines) : \E t : q = EngineRowOf(c, e, t)
        BY <1>1
      <3>1. PICK t : q = EngineRowOf(c, e, t)
        BY <3>1a
      <3>2a. PICK f \in Items(c.engines) : \E s : r = EngineRowOf(c, f, s)
        BY <1>1
      <3>2. PICK s : r = EngineRowOf(c, f, s)
        BY <3>2a
      <3>3. e.id = f.id /\ t = s
        BY <2>1, <3>1, <3>2 DEF EngineRowOf
      <3>4. e = f
        BY <3>3, EngineById
      <3>. QED
        BY <3>1, <3>2, <3>3, <3>4
    <2>. QED
      BY <2>1
  <1>. HIDE DEF rows
  <1>3. /\ bs \in Seq(Items(bs))
        /\ \A i \in DOMAIN bs : /\ bs[i].items \in Seq(Items(rows)) /\ Once(bs[i].items)
                                /\ \A q, r \in Items(bs[i].items) : q.target = r.target
                                /\ EngineShaped(bs[i])
        /\ \A i, j \in DOMAIN bs : i # j => Items(bs[i].items) \cap Items(bs[j].items) = {}
        /\ \A r \in Items(rows) : \E i \in DOMAIN bs : r \in Items(bs[i].items)
    BY <1>1, EngineBatchFacts
  <1>. HIDE DEF bs
  <1>4. \A b : EngineKeys(b) = {EngineKey(r) : r \in Items(b.items)}
    BY DEF EngineKeys, EngineKey
  <1>5. \A q, r : EngineKey(q) = EngineKey(r) => q.engine = r.engine /\ q.target = r.target
    BY DEF EngineKey, Key
  <1>6. \A i \in DOMAIN bs : Items(bs[i].items) \subseteq Items(rows) /\ bs[i].items \in Seq(Items(bs[i].items))
    BY <1>3, ListFacts
  <1>7. \A b \in Items(bs) : \E i \in DOMAIN bs : b = bs[i]
    BY ItemsAre
  <1>8. EnginesFit(bs)
    BY <1>3, <1>6, <1>7 DEF EnginesFit
  <1>9. ASSUME NEW b \in Items(bs)
        PROVE  EngineItemsDiffer(b)
    <2>. DEFINE list == b.items
    <2>1. PICK i \in DOMAIN bs : b = bs[i]
      BY <1>7
    <2>2. /\ Once(list) /\ \A q, r \in Items(list) : q.target = r.target
          /\ Items(list) \subseteq Items(rows)
      BY <2>1, <1>3, <1>6
    <2>. HIDE DEF list
    <2>3. ASSUME NEW j \in DOMAIN list, NEW k \in DOMAIN list, list[j].engine = list[k].engine
          PROVE  j = k
      <3>1. list[j] \in Items(list) /\ list[k] \in Items(list)
        BY ItemsAre
      <3>2. list[j] = list[k]
        BY <3>1, <2>2, <2>3, <1>2
      <3>. QED
        BY <3>2, <2>2 DEF Once
    <2>. QED
      BY <2>3 DEF EngineItemsDiffer, Once, list
  <1>10. ASSUME NEW i \in DOMAIN bs, NEW j \in DOMAIN bs, i # j
         PROVE  EngineKeys(bs[i]) \cap EngineKeys(bs[j]) = {}
    <2>1. \A q \in Items(bs[i].items), r \in Items(bs[j].items) :
             q \in Items(rows) /\ r \in Items(rows) /\ q # r
      <3>1. Items(bs[i].items) \cap Items(bs[j].items) = {}
        BY <1>3, <1>10
      <3>2. Items(bs[i].items) \subseteq Items(rows) /\ Items(bs[j].items) \subseteq Items(rows)
        BY <1>6
      <3>. QED
        BY <3>1, <3>2
    <2>2. \A q \in Items(bs[i].items), r \in Items(bs[j].items) : EngineKey(q) # EngineKey(r)
      BY <2>1, <1>2, <1>5
    <2>. QED
      BY <2>2, <1>4
  <1>11. UNION {EngineKeys(b) : b \in Items(bs)} = {EngineKey(r) : r \in Items(rows)}
    <2>1. ASSUME NEW b \in Items(bs), NEW r \in Items(b.items)
          PROVE  r \in Items(rows)
      BY <1>6, <1>7
    <2>2. ASSUME NEW r \in Items(rows)
          PROVE  \E b \in Items(bs) : r \in Items(b.items)
      BY <1>3, ItemsAre
    <2>. QED
      BY <2>1, <2>2, <1>4
  <1>12. /\ \A r \in Items(rows) : \E b \in Items(bs) : r \in Items(b.items)
         /\ \A b \in Items(bs) : Items(b.items) \subseteq Items(rows)
    BY <1>3, <1>6, ItemsAre
  <1>. QED
    BY <1>8, <1>9, <1>10, <1>11, <1>12 DEF bs, rows

LEMMA SourcePlan ==
  ASSUME NEW c, IsCatalog(c), EnginesLoad(c), NEW lane, NEW mode, NEW only
  PROVE  LET rows == VmodRows(c, lane, mode, only)
             bs   == SourceBatches(c, SourceRows(rows)) IN
         /\ SourcesFit(c, bs)
         /\ \A r \in Items(rows) : \E b \in Items(bs) :
               b.artifact = BundleOf(bs, r.source) /\ \E q \in Items(b.items) : q.source = r.source
  <1>. DEFINE rows == VmodRows(c, lane, mode, only)
              some == SourceRows(rows)
              bs   == SourceBatches(c, some)
  <1>1. rows \in Seq(Items(rows)) /\ \A r \in Items(rows) :
           \E v \in Items(c.vmods), e \in Items(c.engines) :
              r.row = v.id /\ r.engine = e.id /\ r.source = SourceArtifact(v, e)
    <2>1. \A e, r : Due(c, e, lane, mode, only, r) => \E v \in Items(c.vmods) :
             r.row = v.id /\ r.engine = e.id /\ r.source = SourceArtifact(v, e)
      BY DEF Due, VmodRow
    <2>. QED
      BY <2>1, VmodRowFacts
  <1>. HIDE DEF rows
  <1>2. /\ some \in Seq(Items(some)) /\ Once(some)
        /\ \A g, h \in Items(some) : g.source = h.source => g = h
        /\ \A g \in Items(some) : \E r \in Items(rows) :
              g = [row |-> r.row, engine |-> r.engine, source |-> r.source]
        /\ \A r \in Items(rows) : \E g \in Items(some) : g.source = r.source
    BY <1>1, SourceRowFacts
  <1>. HIDE DEF some
  <1>3. /\ bs \in Seq(Items(bs))
        /\ \A i \in DOMAIN bs : bs[i].artifact = i /\ bs[i].items \in Seq(Items(some))
        /\ \A i, j \in DOMAIN bs : i # j => Items(bs[i].items) \cap Items(bs[j].items) = {}
        /\ \A r \in Items(some) : \E i \in DOMAIN bs : r \in Items(bs[i].items)
    BY <1>2, SourceBatchFacts
  <1>. HIDE DEF bs
  <1>4. \A i \in DOMAIN bs : Items(bs[i].items) \subseteq Items(some) /\ bs[i].items \in Seq(Items(bs[i].items))
    BY <1>3, ListFacts
  <1>5. \A g \in Items(some) : \E v \in Items(c.vmods), e \in Items(c.engines) :
           g.row = v.id /\ g.engine = e.id /\ g.source = SourceArtifact(v, e)
    BY <1>1, <1>2
  <1>6. ASSUME NEW b \in Items(bs)
        PROVE  /\ b.items \in Seq(Items(b.items))
               /\ \A r \in Items(b.items) : \E v \in Items(c.vmods), e \in Items(c.engines) :
                     r.row = v.id /\ r.engine = e.id /\ r.source = SourceArtifact(v, e)
               /\ \A q, r \in Items(b.items) : q.source = r.source => q = r
    <2>1. PICK i \in DOMAIN bs : b = bs[i]
      BY ItemsAre
    <2>2. Items(b.items) \subseteq Items(some) /\ b.items \in Seq(Items(b.items))
      BY <2>1, <1>4
    <2>. QED
      BY <2>2, <1>2, <1>5
  <1>7. ASSUME NEW i \in DOMAIN bs, NEW j \in DOMAIN bs, i # j,
               NEW q \in Items(bs[i].items), NEW r \in Items(bs[j].items)
        PROVE  q.source # r.source
    <2>1. q # r
      BY <1>3, <1>7
    <2>. QED
      BY <2>1, <1>2, <1>4
  <1>8. SourcesFit(c, bs)
    BY <1>3, <1>6, <1>7 DEF SourcesFit
  <1>9. ASSUME NEW r \in Items(rows)
        PROVE  \E b \in Items(bs) :
                  b.artifact = BundleOf(bs, r.source) /\ \E q \in Items(b.items) : q.source = r.source
    <2>. DEFINE n == BundleOf(bs, r.source)
    <2>1. \E i \in DOMAIN bs : \E q \in Items(bs[i].items) : q.source = r.source
      BY <1>2, <1>3
    <2>2. n \in DOMAIN bs /\ \E q \in Items(bs[n].items) : q.source = r.source
      BY <2>1 DEF BundleOf
    <2>. HIDE DEF n
    <2>3. bs[n] \in Items(bs) /\ bs[n].artifact = n
      BY <2>2, <1>3, ItemsAre
    <2>. QED
      BY <2>2, <2>3 DEF n
  <1>. QED
    BY <1>8, <1>9 DEF bs, some, rows

LEMMA VmodPlan ==
  ASSUME NEW c, IsCatalog(c), EnginesLoad(c), NEW lane, NEW mode, NEW only, NEW sources
  PROVE  LET rows == VmodRows(c, lane, mode, only)
             bs   == VmodBatches(rows, sources) IN
         /\ VmodsFit(c, bs)
         /\ \A b \in Items(bs) : VmodItemsDiffer(b)
         /\ \A i, j \in DOMAIN bs : i # j => VmodKeys(bs[i]) \cap VmodKeys(bs[j]) = {}
         /\ UNION {VmodKeys(b) : b \in Items(bs)} = {RowKey(r) : r \in Items(rows)}
         /\ \A b \in Items(bs) : \E r \in Items(rows) : b.engine = r.engine /\ b.target = r.target
         /\ \A b \in Items(bs) : \A x \in Items(b.items) : \E r \in Items(rows) :
               x.source = r.source /\ BundleOf(sources, r.source) \in b.sources
  <1>. DEFINE rows == VmodRows(c, lane, mode, only)
              bs   == VmodBatches(rows, sources)
  <1>1. /\ rows \in Seq(Items(rows)) /\ Once(rows)
        /\ \A q, r \in Items(rows) : RowKey(q) = RowKey(r) => q = r
    BY VmodRowFacts, RowByKey
  <1>2. \A r \in Items(rows) : \E v \in Items(c.vmods), e \in Items(c.engines) :
           r.row = v.id /\ r.engine = e.id /\ r.source = SourceArtifact(v, e)
    <2>1. \A e, r : Due(c, e, lane, mode, only, r) => \E v \in Items(c.vmods) :
             r.row = v.id /\ r.engine = e.id /\ r.source = SourceArtifact(v, e)
      BY DEF Due, VmodRow
    <2>. QED
      BY <2>1, VmodRowFacts
  <1>. HIDE DEF rows
  <1>3. /\ bs \in Seq(Items(bs))
        /\ \E parts :
              /\ Parted(parts, rows) /\ DOMAIN bs = DOMAIN parts
              /\ \A i \in DOMAIN bs : /\ Strips(bs[i], parts[i])
                                      /\ \A r \in Items(parts[i]) : BundleOf(sources, r.source) \in bs[i].sources
    BY <1>1, VmodBatchFacts
  <1>. HIDE DEF bs
  <1>4. PICK parts :
              /\ Parted(parts, rows) /\ DOMAIN bs = DOMAIN parts
              /\ \A i \in DOMAIN bs : /\ Strips(bs[i], parts[i])
                                      /\ \A r \in Items(parts[i]) : BundleOf(sources, r.source) \in bs[i].sources
    BY <1>3
  <1>5. /\ parts \in Seq(Seq(Items(rows)))
        /\ \A i \in DOMAIN parts : parts[i] # <<>> /\ Once(parts[i])
        /\ \A i, j \in DOMAIN parts : i # j => Items(parts[i]) \cap Items(parts[j]) = {}
        /\ \A r \in Items(rows) : \E i \in DOMAIN parts : r \in Items(parts[i])
    BY <1>4 DEF Parted
  <1>6. \A i \in DOMAIN parts : parts[i] \in Seq(Items(rows)) /\ Items(parts[i]) \subseteq Items(rows)
    BY <1>5, ListFacts
  <1>7. ASSUME NEW i \in DOMAIN bs
        PROVE  VmodKeys(bs[i]) = {RowKey(r) : r \in Items(parts[i])} /\ VmodItemsDiffer(bs[i])
    <2>1. \A q, r \in Items(parts[i]) : RowKey(q) = RowKey(r) => q = r
      BY <1>1, <1>4, <1>6
    <2>. QED
      BY <2>1, <1>4, <1>5, StripsKeys
  <1>8. ASSUME NEW i \in DOMAIN bs
        PROVE  /\ bs[i].items \in Seq(Items(bs[i].items))
               /\ \E e \in Items(c.engines) :
                     /\ bs[i].engine = e.id
                     /\ \A x \in Items(bs[i].items) : \E v \in Items(c.vmods) :
                           x.row = v.id /\ x.source = SourceArtifact(v, e)
               /\ \E r \in Items(rows) : bs[i].engine = r.engine /\ bs[i].target = r.target
               /\ \A x \in Items(bs[i].items) : \E r \in Items(rows) :
                     x.source = r.source /\ BundleOf(sources, r.source) \in bs[i].sources
    <2>. DEFINE b == bs[i]  part == parts[i]
    <2>1. /\ Strips(b, part) /\ part \in Seq(Items(rows)) /\ part # <<>>
          /\ \A r \in Items(part) : BundleOf(sources, r.source) \in b.sources
          /\ Items(part) \subseteq Items(rows)
      BY <1>4, <1>5, <1>6
    <2>2. b.items = [j \in DOMAIN part |-> b.items[j]]
      BY <2>1 DEF Strips
    <2>. HIDE DEF b, part
    <2>3. b.items \in Seq(Items(b.items)) /\ DOMAIN b.items = DOMAIN part
      BY <2>1, <2>2, ListBy
    <2>4. 1 \in DOMAIN part /\ \A j \in DOMAIN part : part[j] \in Items(part) /\ part[j] \in Items(rows)
      BY <2>1, ListFacts, ItemsAre
    <2>5. PICK e \in Items(c.engines) : part[1].engine = e.id
      BY <2>4, <1>2
    <2>6. b.engine = e.id /\ b.engine = part[1].engine /\ b.target = part[1].target
      BY <2>1, <2>4, <2>5 DEF Strips
    <2>7. ASSUME NEW x \in Items(b.items)
          PROVE  /\ \E v \in Items(c.vmods) : x.row = v.id /\ x.source = SourceArtifact(v, e)
                 /\ \E r \in Items(rows) : x.source = r.source /\ BundleOf(sources, r.source) \in b.sources
      <3>1. PICK j \in DOMAIN part : x = b.items[j]
        BY <2>3, ItemsAre
      <3>2. x.row = part[j].row /\ x.source = part[j].source /\ b.engine = part[j].engine
        BY <3>1, <2>1 DEF Strips
      <3>3. PICK v \in Items(c.vmods), f \in Items(c.engines) :
               part[j].row = v.id /\ part[j].engine = f.id /\ part[j].source = SourceArtifact(v, f)
        BY <2>4, <1>2
      <3>4. f = e
        BY <3>2, <3>3, <2>6, EngineById
      <3>. QED
        BY <3>2, <3>3, <3>4, <2>1, <2>4
    <2>. QED
      BY <2>3, <2>4, <2>6, <2>7 DEF b
  <1>9. \A b \in Items(bs) : \E i \in DOMAIN bs : b = bs[i]
    BY ItemsAre
  <1>10. VmodsFit(c, bs)
    <2>1. ASSUME NEW b \in Items(bs)
          PROVE  /\ b.items \in Seq(Items(b.items))
                 /\ \E e \in Items(c.engines) :
                       /\ b.engine = e.id
                       /\ \A x \in Items(b.items) : \E v \in Items(c.vmods) :
                             x.row = v.id /\ x.source = SourceArtifact(v, e)
      <3>1. PICK i \in DOMAIN bs : b = bs[i]
        BY <1>9
      <3>. QED
        BY <3>1, <1>8
    <2>. QED
      BY <2>1, <1>3 DEF VmodsFit
  <1>11. ASSUME NEW i \in DOMAIN bs, NEW j \in DOMAIN bs, i # j
         PROVE  VmodKeys(bs[i]) \cap VmodKeys(bs[j]) = {}
    <2>1. \A q \in Items(parts[i]), r \in Items(parts[j]) : q \in Items(rows) /\ r \in Items(rows) /\ q # r
      BY <1>4, <1>5, <1>6, <1>11
    <2>2. \A q \in Items(parts[i]), r \in Items(parts[j]) : RowKey(q) # RowKey(r)
      BY <2>1, <1>1
    <2>. QED
      BY <2>2, <1>7
  <1>12. UNION {VmodKeys(b) : b \in Items(bs)} = {RowKey(r) : r \in Items(rows)}
    <2>1. \A b \in Items(bs) : \A k \in VmodKeys(b) : \E r \in Items(rows) : k = RowKey(r)
      BY <1>4, <1>6, <1>7, <1>9
    <2>2. \A r \in Items(rows) : \E b \in Items(bs) : RowKey(r) \in VmodKeys(b)
      <3>1. \A r \in Items(rows) : \E i \in DOMAIN bs : RowKey(r) \in VmodKeys(bs[i])
        BY <1>4, <1>5, <1>7
      <3>. QED
        BY <3>1, ItemsAre
    <2>. QED
      BY <2>1, <2>2
  <1>13. /\ \A b \in Items(bs) : VmodItemsDiffer(b)
         /\ \A b \in Items(bs) : \E r \in Items(rows) : b.engine = r.engine /\ b.target = r.target
         /\ \A b \in Items(bs) : \A x \in Items(b.items) : \E r \in Items(rows) :
               x.source = r.source /\ BundleOf(sources, r.source) \in b.sources
    BY <1>7, <1>8, <1>9
  <1>. QED
    BY <1>10, <1>11, <1>12, <1>13 DEF bs, rows

\* The jobs of a plan are those of its catalog, and together they are what the
\* run is asked for.
LEMMA PlanFits ==
  ASSUME NEW c, IsCatalog(c), EnginesLoad(c), NEW w \in Workflows, NEW only
  PROVE  LET plan == Plan(c, Lane(w), Mode(w), only) IN
         /\ EnginesFit(plan.engine) /\ SourcesFit(c, plan.source) /\ VmodsFit(c, plan.vmod)
         /\ Differ(plan.engine, plan.vmod)
         /\ KeysOf(plan.engine, plan.vmod) = Promises(c, w, only)
         /\ EnginesCome(plan.engine, plan.vmod) /\ SourcesCome(plan.source, plan.vmod)
         /\ \A k \in Promises(c, w, only) : k.mode = "package" => <<k.engine, k.target>> \in plan.pairs
  <1>. DEFINE lane == Lane(w)  mode == Mode(w)
              er   == EngineRows(c, lane, mode, only)
              vr   == VmodRows(c, lane, mode, only)
              eb   == EngineBatches(er)
              sb   == SourceBatches(c, SourceRows(vr))
              vb   == VmodBatches(vr, sb)
              plan == Plan(c, lane, mode, only)
  <1>1. /\ plan.engine = eb /\ plan.source = sb /\ plan.vmod = vb
        /\ plan.pairs = {<<r.engine, r.target>> : r \in {r \in Items(er) :
                            Packages(FindEngine(c, r.engine), lane, mode)}}
    BY DEF Plan
  <1>2. /\ EnginesFit(eb)
        /\ \A b \in Items(eb) : EngineItemsDiffer(b)
        /\ \A i, j \in DOMAIN eb : i # j => EngineKeys(eb[i]) \cap EngineKeys(eb[j]) = {}
        /\ UNION {EngineKeys(b) : b \in Items(eb)} = {EngineKey(r) : r \in Items(er)}
        /\ \A r \in Items(er) : \E b \in Items(eb) : r \in Items(b.items)
        /\ \A b \in Items(eb) : Items(b.items) \subseteq Items(er)
    BY EnginePlan
  <1>3. /\ SourcesFit(c, sb)
        /\ \A r \in Items(vr) : \E b \in Items(sb) :
              b.artifact = BundleOf(sb, r.source) /\ \E q \in Items(b.items) : q.source = r.source
    BY SourcePlan
  <1>4. /\ VmodsFit(c, vb)
        /\ \A b \in Items(vb) : VmodItemsDiffer(b)
        /\ \A i, j \in DOMAIN vb : i # j => VmodKeys(vb[i]) \cap VmodKeys(vb[j]) = {}
        /\ UNION {VmodKeys(b) : b \in Items(vb)} = {RowKey(r) : r \in Items(vr)}
        /\ \A b \in Items(vb) : \E r \in Items(vr) : b.engine = r.engine /\ b.target = r.target
        /\ \A b \in Items(vb) : \A x \in Items(b.items) : \E r \in Items(vr) :
              x.source = r.source /\ BundleOf(sb, r.source) \in b.sources
    BY VmodPlan
  <1>5. Promises(c, w, only) = {EngineKey(r) : r \in Items(er)} \cup {RowKey(r) : r \in Items(vr)}
    BY RowsPromised
  <1>6. /\ \A r : r \in Items(er) <=> \E e \in Items(c.engines) :
              e.kind = lane /\ \E t \in Chosen(EngineTargets(e, lane, mode), only) : r = EngineRowOf(c, e, t)
        /\ \A r : r \in Items(vr) <=> \E e \in Items(c.engines) : e.kind = lane /\ Due(c, e, lane, mode, only, r)
    BY EngineRowFacts, VmodRowFacts
  <1>. HIDE DEF plan, sb, eb, vb, er, vr
  <1>7. ASSUME NEW r \in Items(vr)
        PROVE  /\ RowKey(r).mode \in {"compat", "package"}
               /\ \E q \in Items(er) : q.engine = r.engine /\ q.target = r.target
               /\ r.mode = "package" => \E q \in Items(er) :
                     /\ q.engine = r.engine /\ q.target = r.target
                     /\ Packages(FindEngine(c, q.engine), lane, mode)
    <2>1. PICK e \in Items(c.engines) : e.kind = lane /\ Due(c, e, lane, mode, only, r)
      BY <1>6
    <2>2. PICK t \in Chosen(e.targets, only), v \in Items(c.vmods) :
             \/ Compat(mode) /\ r = VmodRow(c, v, e, t, "compat")
             \/ /\ Packages(e, lane, mode) /\ PackageEligible(v, e, t)
                /\ r = VmodRow(c, v, e, t, "package")
      BY <2>1 DEF Due
    <2>. DEFINE q == EngineRowOf(c, e, t)
    <2>3. q \in Items(er)
      <3>1. EngineTargets(e, lane, mode) = e.targets
        BY <2>2 DEF EngineTargets
      <3>. QED
        BY <3>1, <2>1, <2>2, <1>6
    <2>4. /\ q.engine = e.id /\ q.target = t /\ r.engine = e.id /\ r.target = t
          /\ r.mode \in {"compat", "package"} /\ (r.mode = "package" => Packages(e, lane, mode))
      BY <2>2 DEF EngineRowOf, VmodRow
    <2>5. FindEngine(c, e.id) = e
      BY EngineById
    <2>6. RowKey(r).mode = r.mode
      BY DEF RowKey, Key
    <2>. HIDE DEF q
    <2>. QED
      BY <2>3, <2>4, <2>5, <2>6
  <1>8. Differ(eb, vb)
    <2>1. ASSUME NEW b \in Items(eb), NEW d \in Items(vb)
          PROVE  EngineKeys(b) \cap VmodKeys(d) = {}
      <3>1. \A k \in EngineKeys(b) : k.mode = "engine"
        BY DEF EngineKeys, Key
      <3>2. \A k \in VmodKeys(d) : k.mode \in {"compat", "package"}
        BY <1>4, <1>7
      <3>. QED
        BY <3>1, <3>2
    <2>. QED
      BY <2>1, <1>2, <1>4 DEF Differ
  <1>9. KeysOf(eb, vb) = Promises(c, w, only)
    BY <1>2, <1>4, <1>5 DEF KeysOf
  <1>10. EnginesCome(eb, vb)
    <2>1. ASSUME NEW d \in Items(vb)
          PROVE  \E b \in Items(eb) : \E r \in Items(b.items) : r.engine = d.engine /\ r.target = d.target
      <3>1. PICK r \in Items(vr) : d.engine = r.engine /\ d.target = r.target
        BY <1>4
      <3>2. PICK q \in Items(er) : q.engine = r.engine /\ q.target = r.target
        BY <1>7
      <3>. QED
        BY <3>1, <3>2, <1>2
    <2>. QED
      BY <2>1 DEF EnginesCome
  <1>11. SourcesCome(sb, vb)
    <2>1. ASSUME NEW d \in Items(vb), NEW x \in Items(d.items)
          PROVE  \E b \in Items(sb) : b.artifact \in d.sources /\ \E r \in Items(b.items) : r.source = x.source
      <3>1. PICK r \in Items(vr) : x.source = r.source /\ BundleOf(sb, r.source) \in d.sources
        BY <1>4
      <3>. QED
        BY <3>1, <1>3
    <2>. QED
      BY <2>1 DEF SourcesCome
  <1>12. ASSUME NEW k \in Promises(c, w, only), k.mode = "package"
         PROVE  <<k.engine, k.target>> \in plan.pairs
    <2>1. \A r : EngineKey(r).mode = "engine"
      BY DEF EngineKey, Key
    <2>2. PICK r \in Items(vr) : k = RowKey(r)
      BY <2>1, <1>5, <1>12
    <2>3. k.engine = r.engine /\ k.target = r.target /\ k.mode = r.mode
      BY <2>2 DEF RowKey, Key
    <2>4. PICK q \in Items(er) : /\ q.engine = r.engine /\ q.target = r.target
                                 /\ Packages(FindEngine(c, q.engine), lane, mode)
      BY <2>3, <1>7, <1>12
    <2>5. <<q.engine, q.target>> \in plan.pairs
      BY <2>4, <1>1
    <2>. QED
      BY <2>3, <2>4, <2>5
  <1>. QED
    BY <1>1, <1>2, <1>3, <1>4, <1>8, <1>9, <1>10, <1>11, <1>12 DEF plan

-----------------------------------------------------------------------------
(* The invariant of a run *)

RunFits ==
    Running => run.workflow \in Workflows /\ run.catalog \in Catalogs /\ Loads(run.catalog)

JobsFit ==
    /\ jobs = [engine |-> jobs.engine, source |-> jobs.source, vmod |-> jobs.vmod]
    /\ ~Running => jobs = NoJobs
    /\ EnginesFit(jobs.engine)
    /\ SourcesFit(run.catalog, jobs.source)
    /\ VmodsFit(run.catalog, jobs.vmod)

\* A bundle is what its name says; there is one of a name, and none yet of a
\* name that is still to be fetched.
BundlesFit ==
    /\ \A x \in bundles :
          /\ x.vmod = x.name.vmod /\ x.git = x.name.git /\ x.ref = x.name.ref
          /\ x.commit # NoPin
          /\ x.name.commit # NoPin => x.commit = x.name.commit
    /\ \A x, y \in bundles : x.name = y.name => x = y
    /\ \A x \in bundles, b \in Items(jobs.source) : \A r \in Items(b.items) : r.source # x.name

\* A cell was built from the bundle of the name that its VMOD and engine have.
UsedFits ==
    Running => \A u \in used :
        /\ u.key \in Promised
        /\ \E x \in bundles :
              /\ x.commit = u.commit
              /\ x.name = SourceArtifact(FindVmod(run.catalog, u.key.row),
                                         FindEngine(run.catalog, u.key.engine))

\* While nothing has gone wrong, what a cell needs is there or still to come.
NothingMissing ==
    troubles = 0 =>
        /\ \A d \in Items(jobs.vmod) :
              \/ <<d.engine, d.target>> \in built
              \/ \E b \in Items(jobs.engine) : \E r \in Items(b.items) :
                    r.engine = d.engine /\ r.target = d.target
        /\ \A d \in Items(jobs.vmod) : \A x \in Items(d.items) :
              \/ \E s \in bundles : s.bundle \in d.sources /\ s.name = x.source
              \/ \E b \in Items(jobs.source) :
                    b.artifact \in d.sources /\ \E r \in Items(b.items) : r.source = x.source

\* A run reports each cell once, at its own time, after all earlier runs.
TimesFit ==
    /\ IsFiniteSet(results)
    /\ Running => \A c \in results : c.time = runs
    /\ \A c \in history : c.time <= runs /\ (Running => c.time < runs)
    /\ \A c, d \in history : c.key = d.key /\ c.time = d.time => c = d

FileFits == file \in State /\ Tells(file, history)

Fits ==
    /\ TypeOK /\ RunFits /\ JobsFit /\ EveryCellOnce /\ BundlesFit /\ UsedFits
    /\ InputsAtHand /\ NothingMissing /\ TimesFit /\ FileFits

-----------------------------------------------------------------------------
(* Steps of a run *)

LEMMA ImageFinite ==
  ASSUME NEW T, IsFiniteSet(T), NEW f, DOMAIN f = T
  PROVE  IsFiniteSet({f[x] : x \in T})
  <1>. DEFINE g == [x \in T |-> f[x]]
  <1>1. g \in Surjection(T, {f[x] : x \in T})
    BY DEF Surjection
  <1>. QED
    BY <1>1, FS_Surjection

LEMMA ItemsFinite ==
  ASSUME NEW S, NEW seq \in Seq(S)
  PROVE  IsFiniteSet(Items(seq))
  <1>1. IsFiniteSet(DOMAIN seq)
    <2>1. Len(seq) \in Nat /\ DOMAIN seq = 1..Len(seq)
      OBVIOUS
    <2>. QED
      BY <2>1, FS_Interval
  <1>. QED
    BY <1>1, ImageFinite DEF Items

LEMMA PrefixFacts ==
  ASSUME NEW S, NEW seq \in Seq(S), NEW n \in 1..Len(seq)
  PROVE  /\ SubSeq(seq, 1, n) \in Seq(S)
         /\ Items(SubSeq(seq, 1, n)) \subseteq Items(seq)
         /\ n = Len(seq) => Items(SubSeq(seq, 1, n)) = Items(seq)
  <1>. DEFINE sub == SubSeq(seq, 1, n)
  <1>1. /\ Len(seq) \in Nat /\ DOMAIN seq = 1..Len(seq)
        /\ DOMAIN sub = 1..n /\ sub \in Seq(S) /\ \A i \in 1..n : sub[i] = seq[i]
    OBVIOUS
  <1>2. n \in Nat /\ n <= Len(seq) /\ 1..n \subseteq 1..Len(seq)
    BY <1>1
  <1>. HIDE DEF sub
  <1>3. Items(sub) \subseteq Items(seq)
    BY <1>1, <1>2 DEF Items
  <1>4. n = Len(seq) => Items(sub) = Items(seq)
    BY <1>1 DEF Items
  <1>. QED
    BY <1>1, <1>3, <1>4 DEF sub

LEMMA TailFacts ==
  ASSUME NEW js, js \in Seq(Items(js)), js # <<>>
  PROVE  /\ Tail(js) \in Seq(Items(Tail(js)))
         /\ Head(js) \in Items(js)
         /\ Items(js) = {Head(js)} \cup Items(Tail(js))
         /\ 1 \in DOMAIN js /\ Head(js) = js[1]
         /\ \A i \in DOMAIN Tail(js) : i + 1 \in DOMAIN js /\ i + 1 # 1 /\ Tail(js)[i] = js[i + 1]
         /\ \A i, j \in DOMAIN Tail(js) : i + 1 = j + 1 => i = j
  <1>. DEFINE rest == Tail(js)  n == Len(js)
  <1>1. /\ n \in Nat /\ n # 0 /\ DOMAIN js = 1..n /\ DOMAIN rest = 1..(n - 1)
        /\ rest \in Seq(Items(js)) /\ \A i \in 1..(n - 1) : rest[i] = js[i + 1]
        /\ Head(js) = js[1]
    OBVIOUS
  <1>. HIDE DEF rest, n
  <1>2. \A i \in DOMAIN rest : i + 1 \in DOMAIN js /\ i + 1 # 1 /\ rest[i] = js[i + 1]
    BY <1>1
  <1>3. \A i \in DOMAIN js : i = 1 \/ (i - 1 \in DOMAIN rest /\ (i - 1) + 1 = i)
    BY <1>1
  <1>4. 1 \in DOMAIN js
    BY <1>1
  <1>5. Items(js) = {Head(js)} \cup Items(rest)
    <2>1. \A x \in Items(js) : x = js[1] \/ x \in Items(rest)
      <3>1. ASSUME NEW i \in DOMAIN js, i # 1
            PROVE  js[i] \in Items(rest)
        <4>1. i - 1 \in DOMAIN rest /\ rest[i - 1] = js[i]
          BY <3>1, <1>2, <1>3
        <4>. QED
          BY <4>1, ItemsAre
      <3>. QED
        BY <3>1, ItemsAre
    <2>2. \A x \in Items(rest) : x \in Items(js)
      BY <1>2 DEF Items
    <2>. QED
      BY <2>1, <2>2, <1>1, <1>4, ItemsAre
  <1>6. rest \in Seq(Items(rest))
    BY <1>1, ListFacts
  <1>7. \A i, j \in DOMAIN rest : i + 1 = j + 1 => i = j
    BY <1>1
  <1>. QED
    BY <1>1, <1>2, <1>4, <1>5, <1>6, <1>7, ItemsAre DEF rest

\* What holds of the jobs of a list holds when its first job is gone.
LEMMA EnginesLeft ==
  ASSUME NEW js, EnginesFit(js), js # <<>>
  PROVE  EnginesFit(Tail(js))
  BY TailFacts DEF EnginesFit

LEMMA SourcesLeft ==
  ASSUME NEW c, NEW js, SourcesFit(c, js), js # <<>>
  PROVE  /\ SourcesFit(c, Tail(js))
         /\ \A b \in Items(Tail(js)) : \A q \in Items(Head(js).items), r \in Items(b.items) : q.source # r.source
  <1>1. js \in Seq(Items(js))
    BY DEF SourcesFit
  <1>. DEFINE rest == Tail(js)
  <1>2. /\ rest \in Seq(Items(rest))
        /\ Items(rest) \subseteq Items(js)
        /\ 1 \in DOMAIN js /\ Head(js) = js[1]
        /\ \A i \in DOMAIN rest : i + 1 \in DOMAIN js /\ i + 1 # 1 /\ rest[i] = js[i + 1]
        /\ \A i, j \in DOMAIN rest : i + 1 = j + 1 => i = j
    BY <1>1, TailFacts
  <1>. HIDE DEF rest
  <1>3. \A i, j \in DOMAIN js : i # j =>
          \A q \in Items(js[i].items), r \in Items(js[j].items) : q.source # r.source
    BY DEF SourcesFit
  <1>4. ASSUME NEW i \in DOMAIN rest, NEW j \in DOMAIN rest, i # j
        PROVE  \A q \in Items(rest[i].items), r \in Items(rest[j].items) : q.source # r.source
    BY <1>2, <1>3, <1>4
  <1>5. ASSUME NEW b \in Items(rest)
        PROVE  \A q \in Items(Head(js).items), r \in Items(b.items) : q.source # r.source
    <2>1. PICK i \in DOMAIN rest : b = rest[i]
      BY ItemsAre
    <2>. QED
      BY <2>1, <1>2, <1>3
  <1>6. SourcesFit(c, rest)
    BY <1>2, <1>4 DEF SourcesFit
  <1>. QED
    BY <1>5, <1>6 DEF rest

LEMMA VmodsLeft ==
  ASSUME NEW c, NEW js, VmodsFit(c, js), js # <<>>
  PROVE  VmodsFit(c, Tail(js))
  <1>1. js \in Seq(Items(js))
    BY DEF VmodsFit
  <1>2. Tail(js) \in Seq(Items(Tail(js))) /\ Items(Tail(js)) \subseteq Items(js)
    BY <1>1, TailFacts
  <1>. QED
    BY <1>2 DEF VmodsFit

LEMMA PromisesAreKeys ==
  ASSUME NEW c, IsCatalog(c), NEW w, NEW only
  PROVE  Promises(c, w, only) \subseteq Keys
  <1>1. ASSUME NEW e \in Items(c.engines), NEW t \in Items(e.targets)
        PROVE  /\ Key(e.id, e.id, t, "engine") \in Keys
               /\ \A v \in Items(c.vmods) : /\ Key(v.id, e.id, t, "compat") \in Keys
                                            /\ Key(v.id, e.id, t, "package") \in Keys
    BY DEF IsCatalog
  <1>2. \A id \in Ids(c.vmods) : \E v \in Items(c.vmods) : id = v.id
    BY DEF Ids
  <1>. QED
    BY <1>1, <1>2 DEF Promises

\* The first job goes: its keys are its own, and the others keep theirs.
LEMMA DropEngine ==
  ASSUME NEW engine, engine \in Seq(Items(engine)), engine # <<>>, NEW vmod,
         Differ(engine, vmod)
  PROVE  /\ Differ(Tail(engine), vmod)
         /\ KeysOf(engine, vmod) = EngineKeys(Head(engine)) \cup KeysOf(Tail(engine), vmod)
         /\ EngineKeys(Head(engine)) \cap KeysOf(Tail(engine), vmod) = {}
  <1>. DEFINE rest == Tail(engine)
  <1>1. /\ Items(engine) = {Head(engine)} \cup Items(rest)
        /\ 1 \in DOMAIN engine /\ Head(engine) = engine[1]
        /\ \A i \in DOMAIN rest : i + 1 \in DOMAIN engine /\ i + 1 # 1 /\ rest[i] = engine[i + 1]
        /\ \A i, j \in DOMAIN rest : i + 1 = j + 1 => i = j
    BY TailFacts
  <1>. HIDE DEF rest
  <1>2. \A b \in Items(rest) : \E i \in DOMAIN rest : b = rest[i]
    BY ItemsAre
  <1>3. \A b \in Items(rest) : EngineKeys(Head(engine)) \cap EngineKeys(b) = {}
    BY <1>1, <1>2 DEF Differ
  <1>4. \A d \in Items(vmod) : EngineKeys(Head(engine)) \cap VmodKeys(d) = {}
    BY <1>1 DEF Differ
  <1>5. \A i, j \in DOMAIN rest : i # j => EngineKeys(rest[i]) \cap EngineKeys(rest[j]) = {}
    <2>1. ASSUME NEW i \in DOMAIN rest, NEW j \in DOMAIN rest, i # j
          PROVE  EngineKeys(rest[i]) \cap EngineKeys(rest[j]) = {}
      <3>1. i + 1 \in DOMAIN engine /\ j + 1 \in DOMAIN engine /\ i + 1 # j + 1
        BY <1>1, <2>1
      <3>2. rest[i] = engine[i + 1] /\ rest[j] = engine[j + 1]
        BY <1>1
      <3>. QED
        BY <3>1, <3>2 DEF Differ
    <2>. QED
      BY <2>1
  <1>6. Differ(rest, vmod)
    BY <1>1, <1>5 DEF Differ
  <1>7. /\ KeysOf(engine, vmod) = EngineKeys(Head(engine)) \cup KeysOf(rest, vmod)
        /\ EngineKeys(Head(engine)) \cap KeysOf(rest, vmod) = {}
    BY <1>1, <1>3, <1>4 DEF KeysOf
  <1>. QED
    BY <1>6, <1>7 DEF rest

LEMMA DropVmod ==
  ASSUME NEW vmod, vmod \in Seq(Items(vmod)), vmod # <<>>, NEW engine,
         Differ(engine, vmod)
  PROVE  /\ Differ(engine, Tail(vmod))
         /\ KeysOf(engine, vmod) = VmodKeys(Head(vmod)) \cup KeysOf(engine, Tail(vmod))
         /\ VmodKeys(Head(vmod)) \cap KeysOf(engine, Tail(vmod)) = {}
  <1>. DEFINE rest == Tail(vmod)
  <1>1. /\ Items(vmod) = {Head(vmod)} \cup Items(rest)
        /\ 1 \in DOMAIN vmod /\ Head(vmod) = vmod[1]
        /\ \A i \in DOMAIN rest : i + 1 \in DOMAIN vmod /\ i + 1 # 1 /\ rest[i] = vmod[i + 1]
        /\ \A i, j \in DOMAIN rest : i + 1 = j + 1 => i = j
    BY TailFacts
  <1>. HIDE DEF rest
  <1>2. \A b \in Items(rest) : \E i \in DOMAIN rest : b = rest[i]
    BY ItemsAre
  <1>3. \A b \in Items(rest) : VmodKeys(Head(vmod)) \cap VmodKeys(b) = {}
    BY <1>1, <1>2 DEF Differ
  <1>4. \A b \in Items(engine) : VmodKeys(Head(vmod)) \cap EngineKeys(b) = {}
    BY <1>1 DEF Differ
  <1>5. \A i, j \in DOMAIN rest : i # j => VmodKeys(rest[i]) \cap VmodKeys(rest[j]) = {}
    <2>1. ASSUME NEW i \in DOMAIN rest, NEW j \in DOMAIN rest, i # j
          PROVE  VmodKeys(rest[i]) \cap VmodKeys(rest[j]) = {}
      <3>1. i + 1 \in DOMAIN vmod /\ j + 1 \in DOMAIN vmod /\ i + 1 # j + 1
        BY <1>1, <2>1
      <3>2. rest[i] = vmod[i + 1] /\ rest[j] = vmod[j + 1]
        BY <1>1
      <3>. QED
        BY <3>1, <3>2 DEF Differ
    <2>. QED
      BY <2>1
  <1>6. Differ(engine, rest)
    BY <1>1, <1>5 DEF Differ
  <1>7. /\ KeysOf(engine, vmod) = VmodKeys(Head(vmod)) \cup KeysOf(engine, rest)
        /\ VmodKeys(Head(vmod)) \cap KeysOf(engine, rest) = {}
    BY <1>1, <1>3, <1>4 DEF KeysOf
  <1>. QED
    BY <1>6, <1>7 DEF rest

\* What is due, reported and lost makes up what was promised.
Accounts(pending, told, gone, promised) ==
    LET reported == {c.key : c \in told} IN
    /\ \A c, d \in told : c.key = d.key => c = d
    /\ pending \cap reported = {} /\ pending \cap gone = {} /\ reported \cap gone = {}
    /\ pending \cup reported \cup gone = promised

LEMMA AccountsKept ==
  ASSUME NEW own, NEW rest, NEW told, NEW gone, NEW promised,
         Accounts(own \cup rest, told, gone, promised), own \cap rest = {},
         NEW new, {c.key : c \in new} \subseteq own,
         \A c, d \in new : c.key = d.key => c = d
  PROVE  Accounts(rest, told \cup new, gone \cup (own \ {c.key : c \in new}), promised)
  <1>. DEFINE before == {c.key : c \in told}
              done   == {c.key : c \in new}
              after  == {c.key : c \in told \cup new}
  <1>1. after = before \cup done
    OBVIOUS
  <1>2. /\ \A c, d \in told : c.key = d.key => c = d
        /\ (own \cup rest) \cap before = {} /\ (own \cup rest) \cap gone = {} /\ before \cap gone = {}
        /\ (own \cup rest) \cup before \cup gone = promised
    BY Zenon DEF Accounts
  <1>3. \A c \in told : c.key \in before
    OBVIOUS
  <1>4. \A c \in new : c.key \in done
    OBVIOUS
  <1>. HIDE DEF before, done, after
  <1>5. \A c, d \in told \cup new : c.key = d.key => c = d
    BY <1>2, <1>3, <1>4 DEF done
  <1>6. /\ rest \cap after = {} /\ rest \cap (gone \cup (own \ done)) = {}
        /\ after \cap (gone \cup (own \ done)) = {}
        /\ rest \cup after \cup (gone \cup (own \ done)) = promised
    BY <1>1, <1>2 DEF done
  <1>. QED
    BY <1>5, <1>6, Zenon DEF Accounts, done, after

LEMMA OnceAre ==
  ASSUME EveryCellOnce, Running
  PROVE  /\ Differ(jobs.engine, jobs.vmod)
         /\ Accounts(KeysOf(jobs.engine, jobs.vmod), results, lost, Promised)
         /\ {<<k.engine, k.target>> : k \in {k \in Promised : k.mode = "package"}} \subseteq run.pairs
  <1>1. Pending = KeysOf(jobs.engine, jobs.vmod)
    BY DEF Pending, KeysOf
  <1>. QED
    BY <1>1, Zenon DEF EveryCellOnce, JobsDiffer, Differ, Accounts

LEMMA OnceStill ==
  ASSUME Running' => /\ Differ(jobs'.engine, jobs'.vmod)
                     /\ Accounts(KeysOf(jobs'.engine, jobs'.vmod), results', lost', Promised')
                     /\ {<<k.engine, k.target>> : k \in {k \in Promised' : k.mode = "package"}}
                           \subseteq run'.pairs
  PROVE  EveryCellOnce'
  <1>1. Pending' = KeysOf(jobs'.engine, jobs'.vmod)
    BY DEF Pending, KeysOf
  <1>. QED
    BY <1>1, Zenon DEF EveryCellOnce, JobsDiffer, Differ, Accounts

LEMMA PromisedAre ==
    /\ Promised  = Promises(run.catalog, run.workflow, run.only)
    /\ Promised' = Promises(run'.catalog, run'.workflow, run'.only)
  BY DEF Promised, Promises

\* The cells that an engine job gets to.
LEMMA EngineCells ==
  ASSUME NEW b, EngineShaped(b), b.items \in Seq(Items(b.items)), NEW n \in 1..Len(b.items)
  PROVE  LET keys == EngineKeys([b EXCEPT !.items = SubSeq(@, 1, n)]) IN
         /\ keys \subseteq EngineKeys(b) /\ IsFiniteSet(keys)
         /\ n = Len(b.items) => keys = EngineKeys(b)
  <1>. DEFINE sub  == SubSeq(b.items, 1, n)
              keys == EngineKeys([b EXCEPT !.items = SubSeq(@, 1, n)])
  <1>1. /\ sub \in Seq(Items(b.items)) /\ Items(sub) \subseteq Items(b.items)
        /\ n = Len(b.items) => Items(sub) = Items(b.items)
    BY PrefixFacts
  <1>2. [b EXCEPT !.items = SubSeq(@, 1, n)].items = sub
    BY DEF EngineShaped
  <1>3. keys = {EngineKey(r) : r \in Items(sub)}
    BY <1>2 DEF EngineKeys, EngineKey
  <1>4. EngineKeys(b) = {EngineKey(r) : r \in Items(b.items)}
    BY DEF EngineKeys, EngineKey
  <1>. HIDE DEF sub, keys
  <1>5. IsFiniteSet(keys)
    <2>1. IsFiniteSet(Items(sub))
      BY <1>1, ItemsFinite
    <2>. DEFINE f == [r \in Items(sub) |-> EngineKey(r)]
    <2>2. IsFiniteSet({f[r] : r \in Items(sub)})
      BY <2>1, ImageFinite
    <2>. QED
      BY <2>2, <1>3
  <1>. QED
    BY <1>1, <1>3, <1>4, <1>5 DEF keys

\* The cells of a batch, and those its job gets to.
LEMMA VmodCells ==
  ASSUME NEW b, b.items \in Seq(Items(b.items)), VmodItemsDiffer(b)
  PROVE  /\ Len(Hydrate(b)) \in Nat
         /\ VmodKeys(b) = {VmodKey(c) : c \in Items(Hydrate(b))}
         /\ \A c, d \in Items(Hydrate(b)) : VmodKey(c) = VmodKey(d) => c = d
         /\ \A c \in Items(Hydrate(b)) : \E x \in Items(b.items) :
               c = [row |-> x.row, source |-> x.source, engine |-> b.engine, target |-> b.target,
                    mode |-> b.mode]
         /\ \A n \in 1..Len(Hydrate(b)) :
               LET cells == Items(SubSeq(Hydrate(b), 1, n)) IN
               /\ cells \subseteq Items(Hydrate(b)) /\ IsFiniteSet(cells)
               /\ n = Len(Hydrate(b)) => cells = Items(Hydrate(b))
  <1>. DEFINE all == Hydrate(b)
              cell(x) == [row |-> x.row, source |-> x.source, engine |-> b.engine,
                          target |-> b.target, mode |-> b.mode]
  <1>1. all = [j \in DOMAIN b.items |-> cell(b.items[j])]
    BY DEF Hydrate
  <1>2. all \in Seq(Items(all)) /\ DOMAIN all = DOMAIN b.items
    <2>1. all = [j \in DOMAIN b.items |-> all[j]]
      BY <1>1
    <2>. HIDE DEF all
    <2>. QED
      BY <2>1, ListBy
  <1>3. \A j \in DOMAIN all : all[j] = cell(b.items[j])
    BY <1>1, <1>2
  <1>. HIDE DEF all
  <1>4. \A c \in Items(all) : \E j \in DOMAIN all : c = cell(b.items[j])
    BY <1>3, ItemsAre
  <1>5. \A c \in Items(all) : \E x \in Items(b.items) : c = cell(x)
    BY <1>2, <1>4, ItemsAre
  <1>6. ASSUME NEW c \in Items(all), NEW d \in Items(all), VmodKey(c) = VmodKey(d)
        PROVE  c = d
    <2>1. PICK i \in DOMAIN all : c = cell(b.items[i])
      BY <1>4
    <2>2. PICK j \in DOMAIN all : d = cell(b.items[j])
      BY <1>4
    <2>3. c.row = b.items[i].row /\ d.row = b.items[j].row
      BY <2>1, <2>2
    <2>4. c.row = d.row
      BY <1>6 DEF VmodKey, Key
    <2>5. i = j
      <3>. DEFINE rows == [k \in DOMAIN b.items |-> b.items[k].row]
      <3>1. rows[i] = rows[j] /\ DOMAIN rows = DOMAIN all
        BY <2>3, <2>4, <1>2
      <3>2. Once(rows)
        BY DEF VmodItemsDiffer
      <3>. HIDE DEF rows
      <3>. QED
        BY <3>1, <3>2 DEF Once
    <2>. QED
      BY <2>1, <2>2, <2>5
  <1>7. ASSUME NEW n \in 1..Len(all)
        PROVE  LET cells == Items(SubSeq(all, 1, n)) IN
               /\ cells \subseteq Items(all) /\ IsFiniteSet(cells)
               /\ n = Len(all) => cells = Items(all)
    <2>1. /\ SubSeq(all, 1, n) \in Seq(Items(all)) /\ Items(SubSeq(all, 1, n)) \subseteq Items(all)
          /\ n = Len(all) => Items(SubSeq(all, 1, n)) = Items(all)
      BY <1>2, PrefixFacts
    <2>. QED
      BY <2>1, ItemsFinite
  <1>8. Len(all) \in Nat
    BY <1>2
  <1>9. VmodKeys(b) = {VmodKey(c) : c \in Items(all)}
    BY DEF VmodKeys, all
  <1>. QED
    BY <1>5, <1>6, <1>7, <1>8, <1>9 DEF all

\* What the cells of a job that fall short cost.
LEMMA SufferFacts ==
  ASSUME TypeOK, NEW keys, IsFiniteSet(keys), NEW size \in Nat, NEW n \in 1..size,
         Suffer(Cardinality(keys) + Cut(n, size))
  PROVE  /\ troubles' \in 0..MaxTroubles
         /\ troubles' = 0 => troubles = 0 /\ keys = {} /\ n = size
  <1>1. Cardinality(keys) \in Nat /\ (Cardinality(keys) = 0 <=> keys = {})
    BY FS_CardinalityType, FS_EmptySet
  <1>2. Cut(n, size) \in Nat /\ (Cut(n, size) = 0 => n = size)
    BY DEF Cut
  <1>3. troubles \in Nat /\ MaxTroubles \in Nat
    BY PlanAssumption DEF TypeOK
  <1>. QED
    BY <1>1, <1>2, <1>3 DEF Suffer

LEMMA SufferSome ==
  ASSUME TypeOK, NEW n \in Nat, Suffer(n)
  PROVE  /\ troubles' \in 0..MaxTroubles
         /\ troubles' = 0 => troubles = 0 /\ n = 0
  BY PlanAssumption DEF TypeOK, Suffer

\* The reports of a job: one for each of its cells, of this run, each with a verdict.
ReportsOf(new, keys, status) ==
    /\ DOMAIN status = keys /\ \A k \in keys : status[k] \in Verdicts \cup {Infra}
    /\ \A k \in keys : Report(k, status[k]) \in new
    /\ \A c \in new : \E k \in keys : c = Report(k, status[k])

LEMMA ReportsAre ==
  ASSUME TypeOK, NEW keys, keys \subseteq Keys, NEW status, NEW new, ReportsOf(new, keys, status)
  PROVE  /\ new \subseteq Cell
         /\ {c.key : c \in new} = keys
         /\ \A c, d \in new : c.key = d.key => c = d
         /\ \A c \in new : c.time = runs
         /\ IsFiniteSet(keys) => IsFiniteSet(new)
  <1>. USE DEF ReportsOf
  <1>1. runs \in Times
    BY PlanAssumption DEF TypeOK
  <1>2. \A k \in keys : Report(k, status[k]) \in Cell
    BY <1>1 DEF Report, Cell
  <1>3. \A k \in keys : Report(k, status[k]).key = k /\ Report(k, status[k]).time = runs
    BY DEF Report
  <1>4. IsFiniteSet(keys) => IsFiniteSet(new)
    <2>1. ASSUME IsFiniteSet(keys)
          PROVE  IsFiniteSet(new)
      <3>. DEFINE f == [k \in keys |-> Report(k, status[k])]
      <3>1. DOMAIN f = keys /\ \A k \in keys : f[k] = Report(k, status[k])
        OBVIOUS
      <3>. HIDE DEF f
      <3>2. {f[k] : k \in keys} = new
        BY <3>1
      <3>. QED
        BY <2>1, <3>1, <3>2, ImageFinite
    <2>. QED
      BY <2>1
  <1>. HIDE DEF Report
  <1>5. new \subseteq Cell /\ \A c \in new : c.time = runs
    BY <1>2, <1>3
  <1>6. {c.key : c \in new} = keys
    BY <1>3
  <1>7. \A c, d \in new : c.key = d.key => c = d
    BY <1>3
  <1>. QED
    BY <1>4, <1>5, <1>6, <1>7

LEMMA NothingToDo ==
    /\ NoJobs.engine = <<>> /\ NoJobs.source = <<>> /\ NoJobs.vmod = <<>>
    /\ NoJobs = [engine |-> NoJobs.engine, source |-> NoJobs.source, vmod |-> NoJobs.vmod]
    /\ Items(<<>>) = {} /\ EnginesFit(<<>>)
    /\ \A c : SourcesFit(c, <<>>) /\ VmodsFit(c, <<>>)
  <1>1. Items(<<>>) = {} /\ \A S : <<>> \in Seq(S)
    BY DEF Items
  <1>2. DOMAIN <<>> = {}
    OBVIOUS
  <1>. QED
    BY <1>1, <1>2 DEF NoJobs, EnginesFit, SourcesFit, VmodsFit

LEMMA JobsAreOfARun ==
  ASSUME JobsFit, jobs.engine # <<>> \/ jobs.source # <<>> \/ jobs.vmod # <<>>
  PROVE  Running
  BY NothingToDo DEF JobsFit

LEMMA InitFits == Init => Fits
  <1>. SUFFICES ASSUME Init PROVE Fits
    OBVIOUS
  <1>. USE DEF Init
  <1>1. ~Running
    BY DEF Running
  <1>2. EmptyState \in State /\ Tells(EmptyState, {})
    BY EmptyTells
  <1>3. TypeOK
    <2>1. Sound(file.cells) /\ Sound(file.infra)
      BY DEF EmptyState, Sound
    <2>2. 0 \in 0..MaxMoves /\ 0 \in 0..MaxRuns /\ 0 \in 0..MaxEdits /\ 0 \in 0..MaxTroubles
      BY PlanAssumption
    <2>. QED
      BY <1>1, <2>1, <2>2 DEF TypeOK
  <1>4. JobsFit /\ Items(jobs.source) = {} /\ Items(jobs.vmod) = {}
    BY <1>1, NothingToDo DEF JobsFit
  <1>5. IsFiniteSet({})
    BY FS_EmptySet
  <1>6. RunFits /\ EveryCellOnce /\ UsedFits /\ InputsAtHand /\ TimesFit /\ FileFits
    BY <1>1, <1>2, <1>5 DEF RunFits, EveryCellOnce, UsedFits, InputsAtHand, TimesFit, FileFits
  <1>7. BundlesFit /\ NothingMissing
    BY <1>4 DEF BundlesFit, NothingMissing
  <1>. QED
    BY <1>3, <1>4, <1>6, <1>7 DEF Fits

LEMMA DispatchFits ==
  ASSUME Fits, NEW w \in Workflows, NEW only, Dispatch(w, only)
  PROVE  Fits'
  <1>. DEFINE plan == Plan(catalog, Lane(w), Mode(w), only)
  <1>1. /\ run' = [workflow |-> w, catalog |-> catalog, only |-> only, pairs |-> plan.pairs]
        /\ jobs' = [engine |-> plan.engine, source |-> plan.source, vmod |-> plan.vmod]
        /\ Loads(catalog) /\ ~Running /\ runs < MaxRuns /\ runs' = runs + 1
        /\ built' = {} /\ bundles' = {} /\ results' = {} /\ used' = {} /\ lost' = {}
        /\ UNCHANGED <<file, page, history, troubles, catalog, heads, edits>>
    BY DEF Dispatch, Expands, outside
  <1>. HIDE DEF plan
  <1>2. catalog \in Catalogs /\ IsCatalog(catalog)
    BY CatalogAssumption DEF Fits, TypeOK
  <1>3. /\ EnginesFit(plan.engine) /\ SourcesFit(catalog, plan.source) /\ VmodsFit(catalog, plan.vmod)
        /\ Differ(plan.engine, plan.vmod)
        /\ KeysOf(plan.engine, plan.vmod) = Promises(catalog, w, only)
        /\ EnginesCome(plan.engine, plan.vmod) /\ SourcesCome(plan.source, plan.vmod)
        /\ \A k \in Promises(catalog, w, only) : k.mode = "package" => <<k.engine, k.target>> \in plan.pairs
    BY <1>1, <1>2, PlanFits DEF Loads, plan
  <1>4. /\ jobs'.engine = plan.engine /\ jobs'.source = plan.source /\ jobs'.vmod = plan.vmod
        /\ run'.workflow = w /\ run'.catalog = catalog /\ run'.only = only /\ run'.pairs = plan.pairs
    BY <1>1
  <1>5. Running'
    BY <1>4 DEF Running, NoRun, Workflows
  <1>6. runs \in Nat /\ MaxRuns \in Nat /\ runs' \in 0..MaxRuns
    BY <1>1, PlanAssumption DEF Fits, TypeOK
  <1>7. TypeOK'
    BY <1>1, <1>2, <1>4, <1>6 DEF Fits, TypeOK
  <1>8. RunFits' /\ JobsFit'
    BY <1>1, <1>2, <1>3, <1>4, <1>5 DEF RunFits, JobsFit
  <1>9. EveryCellOnce'
    <2>1. Promised' = Promises(catalog, w, only)
      BY <1>4, PromisedAre
    <2>2. Accounts(Promises(catalog, w, only), {}, {}, Promises(catalog, w, only))
      BY DEF Accounts
    <2>3. {<<k.engine, k.target>> : k \in {k \in Promises(catalog, w, only) : k.mode = "package"}}
             \subseteq plan.pairs
      BY <1>3
    <2>. QED
      BY <1>1, <1>3, <1>4, <2>1, <2>2, <2>3, OnceStill
  <1>10. BundlesFit' /\ UsedFits' /\ InputsAtHand'
    BY <1>1 DEF BundlesFit, UsedFits, InputsAtHand
  <1>11. NothingMissing'
    BY <1>3, <1>4 DEF NothingMissing, EnginesCome, SourcesCome
  <1>12. TimesFit'
    <2>1. IsFiniteSet({})
      BY FS_EmptySet
    <2>2. \A c \in history : c.time \in Nat /\ c.time <= runs
      BY CellAssumption DEF Fits, TypeOK, TimesFit, Cell
    <2>. QED
      BY <1>1, <1>6, <2>1, <2>2 DEF Fits, TimesFit
  <1>13. FileFits'
    BY <1>1 DEF Fits, FileFits
  <1>. QED
    BY <1>7, <1>8, <1>9, <1>10, <1>11, <1>12, <1>13 DEF Fits

\* Of the invariant, what the catalog of the run, its jobs and its keys are.
LEMMA RunFacts ==
  ASSUME Fits, Running
  PROVE  /\ run.catalog \in Catalogs /\ IsCatalog(run.catalog) /\ EnginesLoad(run.catalog)
         /\ Promised \subseteq Keys
         /\ KeysOf(jobs.engine, jobs.vmod) \subseteq Promised
         /\ run.workflow \in Workflows
         /\ runs \in Nat /\ runs \in 0..MaxRuns
  <1>1. /\ run.catalog \in Catalogs /\ IsCatalog(run.catalog) /\ EnginesLoad(run.catalog)
        /\ run.workflow \in Workflows
    BY CatalogAssumption DEF Fits, RunFits, Loads
  <1>2. Promised \subseteq Keys
    BY <1>1, PromisedAre, PromisesAreKeys
  <1>3. KeysOf(jobs.engine, jobs.vmod) \subseteq Promised
    <2>1. Accounts(KeysOf(jobs.engine, jobs.vmod), results, lost, Promised)
      BY OnceAre DEF Fits
    <2>. QED
      BY <2>1 DEF Accounts
  <1>. QED
    BY <1>1, <1>2, <1>3, PlanAssumption DEF Fits, TypeOK

\* The accounts of a run when its next job of engines, or of cells, has ended.
LEMMA EngineAccounts ==
  ASSUME Fits, jobs.engine # <<>>, NEW new, {c.key : c \in new} \subseteq EngineKeys(Head(jobs.engine)),
         \A c, d \in new : c.key = d.key => c = d,
         run' = run, jobs'.engine = Tail(jobs.engine), jobs'.vmod = jobs.vmod,
         results' = results \cup new,
         lost' = lost \cup (EngineKeys(Head(jobs.engine)) \ {c.key : c \in new})
  PROVE  EveryCellOnce'
  <1>. DEFINE own  == EngineKeys(Head(jobs.engine))
              rest == KeysOf(Tail(jobs.engine), jobs.vmod)
  <1>1. Running
    BY JobsAreOfARun DEF Fits
  <1>2. /\ Differ(jobs.engine, jobs.vmod)
        /\ Accounts(KeysOf(jobs.engine, jobs.vmod), results, lost, Promised)
        /\ {<<k.engine, k.target>> : k \in {k \in Promised : k.mode = "package"}} \subseteq run.pairs
    BY <1>1, OnceAre DEF Fits
  <1>3. /\ Differ(Tail(jobs.engine), jobs.vmod)
        /\ KeysOf(jobs.engine, jobs.vmod) = own \cup rest
        /\ own \cap rest = {}
    BY <1>2, DropEngine DEF Fits, JobsFit, EnginesFit
  <1>4. Promised' = Promised
    BY PromisedAre
  <1>. HIDE DEF own, rest
  <1>5. Accounts(rest, results \cup new, lost \cup (own \ {c.key : c \in new}), Promised)
    BY <1>2, <1>3, AccountsKept DEF own
  <1>. QED
    BY <1>2, <1>3, <1>4, <1>5, OnceStill DEF own, rest

LEMMA VmodAccounts ==
  ASSUME Fits, jobs.vmod # <<>>, NEW new, {c.key : c \in new} \subseteq VmodKeys(Head(jobs.vmod)),
         \A c, d \in new : c.key = d.key => c = d,
         run' = run, jobs'.engine = jobs.engine, jobs'.vmod = Tail(jobs.vmod),
         results' = results \cup new,
         lost' = lost \cup (VmodKeys(Head(jobs.vmod)) \ {c.key : c \in new})
  PROVE  EveryCellOnce'
  <1>. DEFINE own  == VmodKeys(Head(jobs.vmod))
              rest == KeysOf(jobs.engine, Tail(jobs.vmod))
  <1>1. Running
    BY JobsAreOfARun DEF Fits
  <1>2. /\ Differ(jobs.engine, jobs.vmod)
        /\ Accounts(KeysOf(jobs.engine, jobs.vmod), results, lost, Promised)
        /\ {<<k.engine, k.target>> : k \in {k \in Promised : k.mode = "package"}} \subseteq run.pairs
    BY <1>1, OnceAre DEF Fits
  <1>3. /\ Differ(jobs.engine, Tail(jobs.vmod))
        /\ KeysOf(jobs.engine, jobs.vmod) = own \cup rest
        /\ own \cap rest = {}
    BY <1>2, DropVmod DEF Fits, JobsFit, VmodsFit
  <1>4. Promised' = Promised
    BY PromisedAre
  <1>. HIDE DEF own, rest
  <1>5. Accounts(rest, results \cup new, lost \cup (own \ {c.key : c \in new}), Promised)
    BY <1>2, <1>3, AccountsKept DEF own
  <1>. QED
    BY <1>2, <1>3, <1>4, <1>5, OnceStill DEF own, rest

\* The parts of the invariant that a job adds its reports to.
LEMMA ReportsFit ==
  ASSUME Fits, Running, NEW new, new \subseteq Cell, IsFiniteSet(new), \A c \in new : c.time = runs,
         results' = results \cup new, run' = run, runs' = runs, history' = history,
         troubles' \in 0..MaxTroubles, troubles' = 0 => troubles = 0 /\ \A c \in new : c.status # Infra,
         \A x \in used' : x.commit # NoPin,
         UNCHANGED <<catalog, heads, bundles, file, edits>>
  PROVE  TypeOK' /\ RunFits' /\ InputsAtHand' /\ TimesFit' /\ FileFits'
  <1>1. TypeOK'
    <2>1. results' \subseteq Cell
      BY DEF Fits, TypeOK
    <2>2. \A b \in bundles' \cup used' : b.commit # NoPin
      BY DEF Fits, TypeOK
    <2>. QED
      BY <2>1, <2>2 DEF Fits, TypeOK, Running
  <1>2. RunFits'
    BY DEF Fits, RunFits, Running
  <1>3. InputsAtHand'
    BY DEF Fits, InputsAtHand
  <1>4. TimesFit'
    <2>1. IsFiniteSet(results')
      BY FS_Union DEF Fits, TimesFit
    <2>. QED
      BY <2>1 DEF Fits, TimesFit, Running
  <1>5. FileFits'
    BY DEF Fits, FileFits
  <1>. QED
    BY <1>1, <1>2, <1>3, <1>4, <1>5

\* The keys of the first n engines of a job.
Reached(b, n) == EngineKeys([b EXCEPT !.items = SubSeq(@, 1, n)])

LEMMA EngineJobFits ==
  ASSUME Fits, EngineJob
  PROVE  Fits'
  <1>. DEFINE b    == Head(jobs.engine)
              size == Len(b.items)
  <1>1. Running /\ jobs.engine # <<>>
    BY JobsAreOfARun DEF Fits, EngineJob
  <1>2. PICK n \in 1..size : \E bad \in Mishaps(Reached(b, n)) : \E left \in SUBSET DOMAIN bad :
          /\ Suffer(Cardinality(DOMAIN bad) + Cut(n, size))
          /\ results' = results \cup
                {Report(k, IF k \in DOMAIN bad THEN bad[k] ELSE "pass") : k \in Reached(b, n)}
          /\ built' = built \cup {<<k.engine, k.target>> : k \in (Reached(b, n) \ DOMAIN bad) \cup left}
          /\ lost' = lost \cup (EngineKeys(b) \ Reached(b, n))
    BY Zenon DEF EngineJob, Reached
  <1>2a. PICK bad \in Mishaps(Reached(b, n)) : \E left \in SUBSET DOMAIN bad :
          /\ Suffer(Cardinality(DOMAIN bad) + Cut(n, size))
          /\ results' = results \cup
                {Report(k, IF k \in DOMAIN bad THEN bad[k] ELSE "pass") : k \in Reached(b, n)}
          /\ built' = built \cup {<<k.engine, k.target>> : k \in (Reached(b, n) \ DOMAIN bad) \cup left}
          /\ lost' = lost \cup (EngineKeys(b) \ Reached(b, n))
    BY <1>2
  <1>2b. PICK left \in SUBSET DOMAIN bad :
          /\ Suffer(Cardinality(DOMAIN bad) + Cut(n, size))
          /\ results' = results \cup
                {Report(k, IF k \in DOMAIN bad THEN bad[k] ELSE "pass") : k \in Reached(b, n)}
          /\ built' = built \cup {<<k.engine, k.target>> : k \in (Reached(b, n) \ DOMAIN bad) \cup left}
          /\ lost' = lost \cup (EngineKeys(b) \ Reached(b, n))
    BY <1>2a
  <1>3. /\ jobs' = [jobs EXCEPT !.engine = Tail(@)]
        /\ UNCHANGED <<run, bundles, used, file, page, history, runs, catalog, heads, edits>>
    BY DEF EngineJob, outside
  <1>4. jobs = [engine |-> jobs.engine, source |-> jobs.source, vmod |-> jobs.vmod]
    BY DEF Fits, JobsFit
  <1>5. jobs' = [engine |-> Tail(jobs.engine), source |-> jobs.source, vmod |-> jobs.vmod]
    BY <1>3, <1>4
  <1>6. jobs.engine \in Seq(Items(jobs.engine)) /\ b \in Items(jobs.engine)
    BY <1>1, TailFacts DEF Fits, JobsFit, EnginesFit
  <1>7. EngineShaped(b) /\ b.items \in Seq(Items(b.items))
    BY <1>6 DEF Fits, JobsFit, EnginesFit
  <1>. DEFINE keys   == Reached(b, n)
              status == [k \in keys |-> IF k \in DOMAIN bad THEN bad[k] ELSE "pass"]
              new    == {Report(k, status[k]) : k \in keys}
  <1>8. keys \subseteq EngineKeys(b) /\ IsFiniteSet(keys) /\ (n = size => keys = EngineKeys(b))
    BY <1>7, EngineCells DEF Reached
  <1>9. EngineKeys(b) \subseteq Keys
    <2>1. EngineKeys(b) \subseteq KeysOf(jobs.engine, jobs.vmod)
      BY <1>6 DEF KeysOf
    <2>. QED
      BY <2>1, <1>1, RunFacts
  <1>10. DOMAIN bad \subseteq keys /\ \A k \in DOMAIN bad : bad[k] \in Verdicts \cup {Infra}
    BY <1>2b DEF Mishaps
  <1>11. size \in Nat
    BY <1>7
  <1>12. results' = results \cup new
    BY <1>2b
  <1>13. \A k \in keys : /\ status[k] \in Verdicts \cup {Infra}
                         /\ k \notin DOMAIN bad => status[k] = "pass"
    BY <1>10, PlanAssumption
  <1>14. DOMAIN status = keys
    OBVIOUS
  <1>. HIDE DEF keys, status, size, new, b
  <1>15. /\ new \subseteq Cell /\ {c.key : c \in new} = keys
         /\ \A c, d \in new : c.key = d.key => c = d
         /\ \A c \in new : c.time = runs
         /\ IsFiniteSet(new)
    <2>1. ReportsOf(new, keys, status)
      BY <1>13, <1>14 DEF ReportsOf, new
    <2>2. keys \subseteq Keys /\ TypeOK
      BY <1>8, <1>9 DEF Fits
    <2>. QED
      BY <2>1, <2>2, <1>8, ReportsAre
  <1>16. /\ IsFiniteSet(DOMAIN bad)
         /\ troubles' \in 0..MaxTroubles
         /\ troubles' = 0 => troubles = 0 /\ DOMAIN bad = {} /\ n = size
    <2>1. IsFiniteSet(DOMAIN bad)
      BY <1>8, <1>10, FS_Subset
    <2>. QED
      BY <2>1, <1>2b, <1>11, SufferFacts DEF Fits
  <1>17. ASSUME troubles' = 0
         PROVE  \A c \in new : c.status # Infra
    <2>1. \A k \in keys : status[k] = "pass"
      BY <1>13, <1>16, <1>17
    <2>2. \A c \in new : c.status = "pass"
      BY <2>1 DEF new, Report
    <2>. QED
      BY <2>2, PlanAssumption, CellAssumption
  <1>18. TypeOK' /\ RunFits' /\ InputsAtHand' /\ TimesFit' /\ FileFits'
    <2>1. \A x \in used' : x.commit # NoPin
      BY <1>3 DEF Fits, TypeOK
    <2>. QED
      BY <1>1, <1>3, <1>12, <1>15, <1>16, <1>17, <2>1, ReportsFit
  <1>19. JobsFit'
    BY <1>1, <1>3, <1>5, EnginesLeft DEF Fits, JobsFit, Running
  <1>20. EveryCellOnce'
    <2>1. jobs'.engine = Tail(jobs.engine) /\ jobs'.vmod = jobs.vmod
      BY <1>5
    <2>2. lost' = lost \cup (EngineKeys(b) \ {c.key : c \in new})
      BY <1>2b, <1>15 DEF keys
    <2>. QED
      BY <1>1, <1>3, <1>8, <1>12, <1>15, <2>1, <2>2, EngineAccounts DEF b
  <1>21. BundlesFit'
    BY <1>3, <1>5 DEF Fits, BundlesFit
  <1>22. UsedFits'
    <2>1. Promised' = Promised
      BY <1>3, PromisedAre
    <2>. QED
      BY <2>1, <1>3 DEF Fits, UsedFits, Running
  <1>23. NothingMissing'
    <2>. SUFFICES ASSUME troubles' = 0
                  PROVE  NothingMissing'
      BY DEF NothingMissing
    <2>1. NothingMissing /\ troubles = 0 /\ keys = EngineKeys(b)
      BY <1>8, <1>16 DEF Fits
    <2>2. \A r \in Items(b.items) : <<r.engine, r.target>> \in built'
      <3>1. built' = built \cup {<<k.engine, k.target>> : k \in keys}
        BY <1>2b, <1>16 DEF keys
      <3>2. \A r \in Items(b.items) : EngineKey(r) \in keys
        BY <2>1 DEF EngineKeys, EngineKey
      <3>3. \A r : EngineKey(r).engine = r.engine /\ EngineKey(r).target = r.target
        BY DEF EngineKey, Key
      <3>. QED
        BY <3>1, <3>2, <3>3
    <2>3. built \subseteq built'
      BY <1>2b
    <2>4. Items(jobs.engine) = {b} \cup Items(Tail(jobs.engine))
      BY <1>1, <1>6, TailFacts DEF b
    <2>5. ASSUME NEW d \in Items(jobs.vmod)
          PROVE  \/ <<d.engine, d.target>> \in built'
                 \/ \E x \in Items(Tail(jobs.engine)) : \E r \in Items(x.items) :
                       r.engine = d.engine /\ r.target = d.target
      BY <2>1, <2>2, <2>3, <2>4 DEF NothingMissing
    <2>6. /\ jobs'.engine = Tail(jobs.engine) /\ jobs'.source = jobs.source /\ jobs'.vmod = jobs.vmod
          /\ bundles' = bundles
      BY <1>3, <1>5
    <2>. QED
      BY <2>1, <2>5, <2>6 DEF NothingMissing
  <1>. QED
    BY <1>18, <1>19, <1>20, <1>21, <1>22, <1>23 DEF Fits

\* What a fetch leaves is the source that its name says.
LEMMA FetchedIs ==
  ASSUME Fits, Running, NEW r, NEW n,
         \E v \in Items(run.catalog.vmods), e \in Items(run.catalog.engines) :
            r.row = v.id /\ r.engine = e.id /\ r.source = SourceArtifact(v, e)
  PROVE  LET x == Fetched(r, n) IN
         /\ x.bundle = n /\ x.name = r.source
         /\ x.vmod = x.name.vmod /\ x.git = x.name.git /\ x.ref = x.name.ref
         /\ x.commit # NoPin
         /\ x.name.commit # NoPin => x.commit = x.name.commit
  <1>1. PICK v \in Items(run.catalog.vmods), e \in Items(run.catalog.engines) :
            r.row = v.id /\ r.engine = e.id /\ r.source = SourceArtifact(v, e)
    OBVIOUS
  <1>2. IsCatalog(run.catalog) /\ EnginesLoad(run.catalog)
    BY RunFacts
  <1>3. FindVmod(run.catalog, r.row) = v /\ FindEngine(run.catalog, r.engine) = e
    BY <1>1, <1>2, VmodById, EngineById
  <1>4. heads[v.git] # NoPin
    <2>1. v.git \in Upstreams
      BY <1>2 DEF IsCatalog
    <2>2. heads \in [Upstreams -> 0..MaxMoves]
      BY DEF Fits, TypeOK
    <2>. QED
      BY <2>1, <2>2, PlanAssumption
  <1>. QED
    BY <1>1, <1>3, <1>4 DEF Fetched, SourceArtifact

LEMMA SourceJobFits ==
  ASSUME Fits, SourceJob
  PROVE  Fits'
  <1>. DEFINE b == Head(jobs.source)
  <1>1. Running /\ jobs.source # <<>>
    BY JobsAreOfARun DEF Fits, SourceJob
  <1>2. PICK gone \in SUBSET Items(b.items) :
          /\ Suffer(Cardinality(gone))
          /\ bundles' = bundles \cup {Fetched(r, b.artifact) : r \in Items(b.items) \ gone}
    BY DEF SourceJob
  <1>3. /\ jobs' = [jobs EXCEPT !.source = Tail(@)]
        /\ UNCHANGED <<run, built, results, used, lost, file, page, history, runs, catalog, heads, edits>>
    BY DEF SourceJob, outside
  <1>4. jobs' = [engine |-> jobs.engine, source |-> Tail(jobs.source), vmod |-> jobs.vmod]
    <2>1. jobs = [engine |-> jobs.engine, source |-> jobs.source, vmod |-> jobs.vmod]
      BY DEF Fits, JobsFit
    <2>. QED
      BY <2>1, <1>3
  <1>5. /\ jobs'.engine = jobs.engine /\ jobs'.source = Tail(jobs.source) /\ jobs'.vmod = jobs.vmod
        /\ jobs' = [engine |-> jobs'.engine, source |-> jobs'.source, vmod |-> jobs'.vmod]
    BY <1>4
  <1>6. /\ SourcesFit(run.catalog, jobs.source)
        /\ SourcesFit(run.catalog, Tail(jobs.source))
        /\ \A x \in Items(Tail(jobs.source)) : \A q \in Items(b.items), r \in Items(x.items) : q.source # r.source
    BY <1>1, SourcesLeft DEF Fits, JobsFit
  <1>7. b \in Items(jobs.source) /\ Items(jobs.source) = {b} \cup Items(Tail(jobs.source))
    BY <1>1, <1>6, TailFacts DEF SourcesFit
  <1>8. /\ b.items \in Seq(Items(b.items))
        /\ \A r \in Items(b.items) : \E v \in Items(run.catalog.vmods), e \in Items(run.catalog.engines) :
              r.row = v.id /\ r.engine = e.id /\ r.source = SourceArtifact(v, e)
        /\ \A q, r \in Items(b.items) : q.source = r.source => q = r
    BY <1>6, <1>7 DEF SourcesFit
  <1>. HIDE DEF b
  <1>9. \A r \in Items(b.items) :
          LET x == Fetched(r, b.artifact) IN
          /\ x.bundle = b.artifact /\ x.name = r.source
          /\ x.vmod = x.name.vmod /\ x.git = x.name.git /\ x.ref = x.name.ref
          /\ x.commit # NoPin
          /\ x.name.commit # NoPin => x.commit = x.name.commit
    BY <1>1, <1>8, FetchedIs
  <1>10. /\ troubles' \in 0..MaxTroubles
         /\ troubles' = 0 => troubles = 0 /\ gone = {}
    <2>1. IsFiniteSet(gone)
      BY <1>8, ItemsFinite, FS_Subset
    <2>2. Cardinality(gone) \in Nat /\ (Cardinality(gone) = 0 <=> gone = {})
      BY <2>1, FS_CardinalityType, FS_EmptySet
    <2>. QED
      BY <2>2, <1>2, SufferSome DEF Fits
  <1>11. TypeOK'
    <2>1. \A x \in bundles' \cup used' : x.commit # NoPin
      BY <1>2, <1>3, <1>9 DEF Fits, TypeOK
    <2>. QED
      BY <2>1, <1>3, <1>10 DEF Fits, TypeOK, Running
  <1>12. RunFits' /\ TimesFit' /\ FileFits'
    BY <1>3 DEF Fits, RunFits, TimesFit, FileFits, Running
  <1>13. InputsAtHand'
    BY <1>3, <1>10 DEF Fits, InputsAtHand
  <1>14. JobsFit'
    BY <1>1, <1>3, <1>5, <1>6 DEF Fits, JobsFit, Running
  <1>15. EveryCellOnce'
    <2>1. Promised' = Promised
      BY <1>3, PromisedAre
    <2>2. /\ Differ(jobs.engine, jobs.vmod)
          /\ Accounts(KeysOf(jobs.engine, jobs.vmod), results, lost, Promised)
          /\ {<<k.engine, k.target>> : k \in {k \in Promised : k.mode = "package"}} \subseteq run.pairs
      BY <1>1, OnceAre DEF Fits
    <2>. QED
      BY <2>1, <2>2, <1>3, <1>5, OnceStill
  <1>16. BundlesFit'
    <2>1. \A x \in bundles' : \/ x \in bundles
                              \/ \E r \in Items(b.items) : x = Fetched(r, b.artifact)
      BY <1>2
    <2>2. /\ \A x \in bundles :
                /\ x.vmod = x.name.vmod /\ x.git = x.name.git /\ x.ref = x.name.ref
                /\ x.commit # NoPin
                /\ x.name.commit # NoPin => x.commit = x.name.commit
          /\ \A x, y \in bundles : x.name = y.name => x = y
          /\ \A x \in bundles, d \in Items(jobs.source) : \A r \in Items(d.items) : r.source # x.name
      BY DEF Fits, BundlesFit
    <2>3. \A x \in bundles' :
                /\ x.vmod = x.name.vmod /\ x.git = x.name.git /\ x.ref = x.name.ref
                /\ x.commit # NoPin
                /\ x.name.commit # NoPin => x.commit = x.name.commit
      BY <2>1, <2>2, <1>9
    <2>4. ASSUME NEW x \in bundles', NEW y \in bundles', x.name = y.name
          PROVE  x = y
      <3>1. CASE x \in bundles /\ y \in bundles
        BY <3>1, <2>2, <2>4
      <3>2. \A z \in bundles : \A r \in Items(b.items) : Fetched(r, b.artifact).name # z.name
        BY <2>2, <1>7, <1>9
      <3>3. \A q, r \in Items(b.items) : Fetched(q, b.artifact).name = Fetched(r, b.artifact).name => q = r
        BY <1>8, <1>9
      <3>. QED
        BY <3>1, <3>2, <3>3, <2>1, <2>4
    <2>5. ASSUME NEW x \in bundles', NEW d \in Items(Tail(jobs.source)), NEW r \in Items(d.items)
          PROVE  r.source # x.name
      <3>1. CASE x \in bundles
        BY <3>1, <2>2, <1>7
      <3>2. CASE \E q \in Items(b.items) : x = Fetched(q, b.artifact)
        BY <3>2, <1>6, <1>9
      <3>. QED
        BY <3>1, <3>2, <2>1
    <2>. QED
      BY <2>3, <2>4, <2>5, <1>5 DEF BundlesFit
  <1>17. UsedFits'
    <2>1. Promised' = Promised
      BY <1>3, PromisedAre
    <2>2. bundles \subseteq bundles'
      BY <1>2
    <2>. QED
      BY <2>1, <2>2, <1>3 DEF Fits, UsedFits, Running
  <1>18. NothingMissing'
    <2>. SUFFICES ASSUME troubles' = 0
                  PROVE  NothingMissing'
      BY DEF NothingMissing
    <2>1. NothingMissing /\ troubles = 0 /\ gone = {}
      BY <1>10 DEF Fits
    <2>2. \A r \in Items(b.items) : \E s \in bundles' : s.bundle = b.artifact /\ s.name = r.source
      BY <2>1, <1>2, <1>9
    <2>3. bundles \subseteq bundles'
      BY <1>2
    <2>4. ASSUME NEW d \in Items(jobs.vmod), NEW x \in Items(d.items)
          PROVE  \/ \E s \in bundles' : s.bundle \in d.sources /\ s.name = x.source
                 \/ \E y \in Items(Tail(jobs.source)) :
                       y.artifact \in d.sources /\ \E r \in Items(y.items) : r.source = x.source
      <3>1. \/ \E s \in bundles : s.bundle \in d.sources /\ s.name = x.source
            \/ \E y \in Items(jobs.source) :
                  y.artifact \in d.sources /\ \E r \in Items(y.items) : r.source = x.source
        BY <2>1 DEF NothingMissing
      <3>. QED
        BY <3>1, <2>2, <2>3, <1>7
    <2>. QED
      BY <2>1, <2>4, <1>3, <1>5 DEF NothingMissing
  <1>. QED
    BY <1>11, <1>12, <1>13, <1>14, <1>15, <1>16, <1>17, <1>18 DEF Fits

\* A bundle that serves a cell is of the name its VMOD has for its engine;
\* and any of that name that the batch downloads does serve it.
LEMMA SourcesAre ==
  ASSUME Fits, Running, NEW b, NEW c, NEW v \in Items(run.catalog.vmods),
         NEW e \in Items(run.catalog.engines),
         c.row = v.id, c.engine = e.id, c.source = SourceArtifact(v, e)
  PROVE  /\ FindVmod(run.catalog, c.row) = v /\ FindEngine(run.catalog, c.engine) = e
         /\ \A x \in Sources(b, c) : x \in bundles /\ x.name = c.source
         /\ \A x \in bundles : x.bundle \in b.sources /\ x.name = c.source => x \in Sources(b, c)
  <1>1. FindVmod(run.catalog, c.row) = v /\ FindEngine(run.catalog, c.engine) = e
    BY RunFacts, VmodById, EngineById
  <1>2. \A x \in Sources(b, c) : x \in bundles /\ x.name = c.source
    BY DEF Sources
  <1>3. ASSUME NEW x \in bundles, x.bundle \in b.sources, x.name = c.source
        PROVE  x \in Sources(b, c)
    <2>1. /\ x.vmod = x.name.vmod /\ x.git = x.name.git /\ x.ref = x.name.ref
          /\ x.name.commit # NoPin => x.commit = x.name.commit
      BY DEF Fits, BundlesFit
    <2>2. /\ x.name.vmod = v.id /\ x.name.git = v.git /\ x.name.ref = ResolveSource(v, e).ref
          /\ x.name.commit = ResolveSource(v, e).commit
      BY <1>3 DEF SourceArtifact
    <2>. QED
      BY <2>1, <2>2, <1>1, <1>3 DEF Sources
  <1>. QED
    BY <1>1, <1>2, <1>3

\* The verdict on a cell whose engine and source are in `fit'.
StatusOf(c, fit, bad) ==
    IF c \notin fit THEN Infra ELSE IF VmodKey(c) \in DOMAIN bad THEN bad[VmodKey(c)] ELSE "pass"

\* The first n cells of a batch, and those of them that can be built.
FirstCells(b, n) == Items(SubSeq(Hydrate(b), 1, n))
FitCells(b, n)   == {c \in FirstCells(b, n) : <<c.engine, c.target>> \in built /\ Sources(b, c) # {}}

LEMMA VmodJobFits ==
  ASSUME Fits, VmodJob
  PROVE  Fits'
  <1>. DEFINE b   == Head(jobs.vmod)
              all == Hydrate(b)
  <1>1. Running /\ jobs.engine = <<>> /\ jobs.source = <<>> /\ jobs.vmod # <<>>
    BY JobsAreOfARun DEF Fits, VmodJob
  <1>2. PICK n \in 1..Len(all) : \E bad \in Mishaps({VmodKey(c) : c \in FitCells(b, n)}) :
          /\ Suffer(Cardinality(DOMAIN bad) + Cut(n, Len(all)))
          /\ results' = results \cup
                {Report(VmodKey(c), StatusOf(c, FitCells(b, n), bad)) : c \in FirstCells(b, n)}
          /\ used' = used \cup {[key |-> VmodKey(c), commit |-> CommitUsed(b, c)] :
                          c \in {c \in FitCells(b, n) : StatusOf(c, FitCells(b, n), bad) # Infra}}
          /\ lost' = lost \cup (VmodKeys(b) \ {VmodKey(c) : c \in FirstCells(b, n)})
    BY Zenon DEF VmodJob, StatusOf, FitCells, FirstCells
  <1>. DEFINE cells == FirstCells(b, n)
              fit   == FitCells(b, n)
              keys  == {VmodKey(c) : c \in cells}
  <1>3. PICK bad \in Mishaps({VmodKey(c) : c \in fit}) :
          /\ Suffer(Cardinality(DOMAIN bad) + Cut(n, Len(all)))
          /\ results' = results \cup {Report(VmodKey(c), StatusOf(c, fit, bad)) : c \in cells}
          /\ used' = used \cup {[key |-> VmodKey(c), commit |-> CommitUsed(b, c)] :
                          c \in {c \in fit : StatusOf(c, fit, bad) # Infra}}
          /\ lost' = lost \cup (VmodKeys(b) \ keys)
    BY <1>2
  <1>4. /\ jobs' = [jobs EXCEPT !.vmod = Tail(@)]
        /\ UNCHANGED <<run, built, bundles, file, page, history, runs, catalog, heads, edits>>
    BY DEF VmodJob, outside
  <1>5. jobs' = [engine |-> jobs.engine, source |-> jobs.source, vmod |-> Tail(jobs.vmod)]
    <2>1. jobs = [engine |-> jobs.engine, source |-> jobs.source, vmod |-> jobs.vmod]
      BY DEF Fits, JobsFit
    <2>. QED
      BY <2>1, <1>4
  <1>6. VmodsFit(run.catalog, jobs.vmod) /\ VmodsFit(run.catalog, Tail(jobs.vmod))
    BY <1>1, VmodsLeft DEF Fits, JobsFit
  <1>7. b \in Items(jobs.vmod) /\ Items(Tail(jobs.vmod)) \subseteq Items(jobs.vmod)
    BY <1>1, <1>6, TailFacts DEF VmodsFit
  <1>8. b.items \in Seq(Items(b.items)) /\ VmodItemsDiffer(b)
    <2>1. Differ(jobs.engine, jobs.vmod)
      BY <1>1, OnceAre DEF Fits
    <2>. QED
      BY <2>1, <1>6, <1>7 DEF VmodsFit, Differ
  <1>9. PICK e \in Items(run.catalog.engines) :
          /\ b.engine = e.id
          /\ \A x \in Items(b.items) : \E v \in Items(run.catalog.vmods) :
                x.row = v.id /\ x.source = SourceArtifact(v, e)
    BY <1>6, <1>7 DEF VmodsFit
  <1>10. /\ Len(all) \in Nat
         /\ VmodKeys(b) = {VmodKey(c) : c \in Items(all)}
         /\ \A c, d \in Items(all) : VmodKey(c) = VmodKey(d) => c = d
         /\ \A c \in Items(all) : \E x \in Items(b.items) :
               c = [row |-> x.row, source |-> x.source, engine |-> b.engine, target |-> b.target,
                    mode |-> b.mode]
         /\ cells \subseteq Items(all) /\ IsFiniteSet(cells)
         /\ n = Len(all) => cells = Items(all)
    BY <1>8, VmodCells DEF FirstCells
  <1>11. fit \subseteq cells /\ keys \subseteq VmodKeys(b) /\ VmodKeys(b) \subseteq Promised
         /\ Promised \subseteq Keys
    <2>1. VmodKeys(b) \subseteq KeysOf(jobs.engine, jobs.vmod)
      BY <1>7 DEF KeysOf
    <2>2. fit \subseteq cells
      BY DEF FitCells
    <2>3. keys \subseteq VmodKeys(b)
      BY <1>10
    <2>. QED
      BY <2>1, <2>2, <2>3, <1>1, RunFacts
  <1>12. /\ DOMAIN bad \subseteq {VmodKey(c) : c \in fit}
         /\ \A k \in DOMAIN bad : bad[k] \in Verdicts \cup {Infra}
    BY <1>3 DEF Mishaps
  <1>13. \A c \in fit : <<c.engine, c.target>> \in built /\ Sources(b, c) # {}
    BY DEF FitCells
  <1>14. \A c \in cells : c \notin fit => <<c.engine, c.target>> \notin built \/ Sources(b, c) = {}
    BY DEF FitCells
  <1>. HIDE DEF cells, fit, all, b
  <1>15. \A c \in Items(all) : /\ c.engine = b.engine /\ c.target = b.target
                               /\ \E x \in Items(b.items) : x.source = c.source
                               /\ \E v \in Items(run.catalog.vmods) :
                                    c.row = v.id /\ c.source = SourceArtifact(v, e)
    <2>1. ASSUME NEW c \in Items(all)
          PROVE  /\ c.engine = b.engine /\ c.target = b.target
                 /\ \E x \in Items(b.items) : x.source = c.source
                 /\ \E v \in Items(run.catalog.vmods) : c.row = v.id /\ c.source = SourceArtifact(v, e)
      <3>1. PICK x \in Items(b.items) :
               c = [row |-> x.row, source |-> x.source, engine |-> b.engine, target |-> b.target,
                    mode |-> b.mode]
        BY <1>10
      <3>2. c.row = x.row /\ c.source = x.source /\ c.engine = b.engine /\ c.target = b.target
        BY <3>1
      <3>. QED
        BY <3>2, <1>9
    <2>. QED
      BY <2>1
  <1>16. \A c \in Items(all) :
           /\ FindEngine(run.catalog, c.engine) = e
           /\ c.source = SourceArtifact(FindVmod(run.catalog, c.row), e)
           /\ \A x \in Sources(b, c) : x \in bundles /\ x.name = c.source
           /\ \A x \in bundles : x.bundle \in b.sources /\ x.name = c.source => x \in Sources(b, c)
    <2>1. ASSUME NEW c \in Items(all)
          PROVE  /\ FindEngine(run.catalog, c.engine) = e
                 /\ c.source = SourceArtifact(FindVmod(run.catalog, c.row), e)
                 /\ \A x \in Sources(b, c) : x \in bundles /\ x.name = c.source
                 /\ \A x \in bundles : x.bundle \in b.sources /\ x.name = c.source => x \in Sources(b, c)
      <3>1. PICK v \in Items(run.catalog.vmods) : c.row = v.id /\ c.source = SourceArtifact(v, e)
        BY <1>15
      <3>2. c.engine = e.id
        BY <1>9, <1>15
      <3>. QED
        BY <3>1, <3>2, <1>1, SourcesAre
    <2>. QED
      BY <2>1
  <1>17. \A c \in fit : CommitUsed(b, c) # NoPin /\ \E x \in bundles :
            x.commit = CommitUsed(b, c) /\ x.name = c.source
    <2>1. ASSUME NEW c \in fit
          PROVE  CommitUsed(b, c) # NoPin /\ \E x \in bundles : x.commit = CommitUsed(b, c) /\ x.name = c.source
      <3>. DEFINE x == CHOOSE x \in Sources(b, c) : TRUE
      <3>1. x \in Sources(b, c)
        BY <1>13
      <3>2. x \in bundles /\ x.name = c.source
        BY <3>1, <1>10, <1>11, <1>16
      <3>3. x.commit # NoPin
        BY <3>2 DEF Fits, BundlesFit
      <3>4. CommitUsed(b, c) = x.commit
        BY DEF CommitUsed
      <3>. HIDE DEF x
      <3>. QED
        BY <3>2, <3>3, <3>4
    <2>. QED
      BY <2>1
  <1>. DEFINE status == [k \in keys |-> StatusOf(CHOOSE c \in cells : VmodKey(c) = k, fit, bad)]
              new    == {Report(VmodKey(c), StatusOf(c, fit, bad)) : c \in cells}
  <1>18. \A c \in cells : VmodKey(c) \in keys /\ status[VmodKey(c)] = StatusOf(c, fit, bad)
    <2>1. ASSUME NEW c \in cells
          PROVE  VmodKey(c) \in keys /\ status[VmodKey(c)] = StatusOf(c, fit, bad)
      <3>1. c = CHOOSE d \in cells : VmodKey(d) = VmodKey(c)
        BY <1>10
      <3>. QED
        BY <3>1
    <2>. QED
      BY <2>1
  <1>19. \A c \in cells : /\ StatusOf(c, fit, bad) \in Verdicts \cup {Infra}
                          /\ c \in fit /\ DOMAIN bad = {} => StatusOf(c, fit, bad) = "pass"
    BY <1>12, PlanAssumption DEF StatusOf
  <1>20. DOMAIN status = keys /\ \A k \in keys : \E c \in cells : k = VmodKey(c)
    OBVIOUS
  <1>21. results' = results \cup new
    BY <1>3
  <1>22. /\ \A c \in cells : Report(VmodKey(c), StatusOf(c, fit, bad)) \in new
         /\ \A r \in new : \E c \in cells : r = Report(VmodKey(c), StatusOf(c, fit, bad))
    OBVIOUS
  <1>23. IsFiniteSet(keys)
    <2>. DEFINE f == [c \in cells |-> VmodKey(c)]
    <2>1. DOMAIN f = cells /\ {f[c] : c \in cells} = keys
      OBVIOUS
    <2>. HIDE DEF f, keys
    <2>. QED
      BY <2>1, <1>10, ImageFinite
  <1>. HIDE DEF status, new, keys
  <1>24. /\ new \subseteq Cell /\ {c.key : c \in new} = keys
         /\ \A c, d \in new : c.key = d.key => c = d
         /\ \A c \in new : c.time = runs
         /\ IsFiniteSet(new)
    <2>1. ReportsOf(new, keys, status)
      <3>1. \A k \in keys : \E c \in cells : k = VmodKey(c) /\ status[k] = StatusOf(c, fit, bad)
        BY <1>18, <1>20
      <3>2. \A k \in keys : Report(k, status[k]) \in new /\ status[k] \in Verdicts \cup {Infra}
        BY <3>1, <1>19, <1>22
      <3>3. \A r \in new : \E k \in keys : r = Report(k, status[k])
        BY <1>18, <1>22
      <3>. QED
        BY <3>2, <3>3, <1>20 DEF ReportsOf
    <2>2. keys \subseteq Keys /\ TypeOK
      BY <1>11 DEF Fits
    <2>. QED
      BY <2>1, <2>2, <1>23, ReportsAre
  <1>25. /\ troubles' \in 0..MaxTroubles
         /\ troubles' = 0 => troubles = 0 /\ DOMAIN bad = {} /\ n = Len(all)
    <2>1. DOMAIN bad \subseteq keys
      BY <1>11, <1>12 DEF keys
    <2>2. IsFiniteSet(DOMAIN bad)
      BY <2>1, <1>23, FS_Subset
    <2>. QED
      BY <2>2, <1>3, <1>10, SufferFacts DEF Fits
  <1>26. ASSUME troubles' = 0
         PROVE  \A c \in new : c.status # Infra
    <2>1. troubles = 0 /\ DOMAIN bad = {} /\ cells = Items(all) /\ NothingMissing
      BY <1>10, <1>25, <1>26 DEF Fits
    <2>2. <<b.engine, b.target>> \in built
      BY <2>1, <1>1, <1>7, NothingToDo DEF NothingMissing
    <2>3. \A x \in Items(b.items) : \E s \in bundles : s.bundle \in b.sources /\ s.name = x.source
      BY <2>1, <1>1, <1>7, NothingToDo DEF NothingMissing
    <2>4. ASSUME NEW c \in cells
          PROVE  c \in fit
      <3>1. <<c.engine, c.target>> \in built
        BY <2>1, <2>2, <1>15
      <3>2. \E s \in bundles : s.bundle \in b.sources /\ s.name = c.source
        BY <2>1, <2>3, <1>15
      <3>3. Sources(b, c) # {}
        BY <3>2, <2>1, <1>16
      <3>. QED
        BY <3>1, <3>3, <1>14
    <2>5. \A c \in cells : StatusOf(c, fit, bad) = "pass"
      BY <2>1, <2>4, <1>19
    <2>6. \A r \in new : r.status = "pass"
      BY <2>5, <1>22 DEF Report
    <2>. QED
      BY <2>6, PlanAssumption, CellAssumption
  <1>27. \A u \in used' : \/ u \in used
                          \/ \E c \in fit : u.key = VmodKey(c) /\ u.commit = CommitUsed(b, c)
    BY <1>3
  <1>28. TypeOK' /\ RunFits' /\ InputsAtHand' /\ TimesFit' /\ FileFits'
    <2>1. \A x \in used' : x.commit # NoPin
      BY <1>17, <1>27 DEF Fits, TypeOK
    <2>. QED
      BY <1>1, <1>4, <1>21, <1>24, <1>25, <1>26, <2>1, ReportsFit
  <1>29. JobsFit'
    BY <1>1, <1>4, <1>5, <1>6 DEF Fits, JobsFit, Running
  <1>30. EveryCellOnce'
    <2>1. jobs'.engine = jobs.engine /\ jobs'.vmod = Tail(jobs.vmod)
      BY <1>5
    <2>2. lost' = lost \cup (VmodKeys(b) \ {c.key : c \in new})
      BY <1>3, <1>24 DEF keys
    <2>. QED
      BY <1>1, <1>4, <1>11, <1>21, <1>24, <2>1, <2>2, VmodAccounts DEF b
  <1>31. BundlesFit'
    BY <1>4, <1>5 DEF Fits, BundlesFit
  <1>32. UsedFits'
    <2>1. Promised' = Promised
      BY <1>4, PromisedAre
    <2>2. ASSUME NEW u \in used'
          PROVE  /\ u.key \in Promised
                 /\ \E x \in bundles : /\ x.commit = u.commit
                                       /\ x.name = SourceArtifact(FindVmod(run.catalog, u.key.row),
                                                                  FindEngine(run.catalog, u.key.engine))
      <3>1. CASE u \in used
        BY <3>1, <1>1 DEF Fits, UsedFits
      <3>2. CASE \E c \in fit : u.key = VmodKey(c) /\ u.commit = CommitUsed(b, c)
        <4>1. PICK c \in fit : u.key = VmodKey(c) /\ u.commit = CommitUsed(b, c)
          BY <3>2
        <4>2. c \in Items(all) /\ u.key \in Promised
          BY <4>1, <1>10, <1>11 DEF keys
        <4>3. u.key.row = c.row /\ u.key.engine = c.engine
          BY <4>1 DEF VmodKey, Key
        <4>4. c.source = SourceArtifact(FindVmod(run.catalog, u.key.row), FindEngine(run.catalog, u.key.engine))
          BY <4>2, <4>3, <1>16
        <4>. QED
          BY <4>1, <4>2, <4>4, <1>17
      <3>. QED
        BY <3>1, <3>2, <1>27
    <2>. QED
      BY <2>1, <2>2, <1>4 DEF UsedFits
  <1>33. NothingMissing'
    <2>1. Items(jobs'.vmod) \subseteq Items(jobs.vmod) /\ jobs'.engine = jobs.engine /\ jobs'.source = jobs.source
      BY <1>5, <1>7
    <2>. QED
      BY <2>1, <1>4, <1>25 DEF Fits, NothingMissing
  <1>. QED
    BY <1>28, <1>29, <1>30, <1>31, <1>32, <1>33 DEF Fits

LEMMA RunnerLostFits ==
  ASSUME Fits, RunnerLost
  PROVE  Fits'
  <1>1. /\ Running
        /\ UNCHANGED <<run, built, bundles, results, used, file, page, history, runs, catalog, heads, edits>>
    BY JobsAreOfARun DEF Fits, RunnerLost, outside
  <1>2. troubles' \in 0..MaxTroubles /\ troubles' # 0
    <2>1. Suffer(1)
      BY DEF RunnerLost
    <2>. QED
      BY <2>1, SufferSome DEF Fits
  <1>3. TypeOK' /\ RunFits' /\ InputsAtHand' /\ TimesFit' /\ FileFits'
    <2>1. results' = results \cup {} /\ {} \subseteq Cell /\ IsFiniteSet({})
      BY <1>1, FS_EmptySet
    <2>2. \A x \in used' : x.commit # NoPin
      BY <1>1 DEF Fits, TypeOK
    <2>. QED
      BY <2>1, <2>2, <1>1, <1>2, ReportsFit
  <1>4. NothingMissing'
    BY <1>2 DEF NothingMissing
  <1>5. UsedFits'
    <2>1. Promised' = Promised
      BY <1>1, PromisedAre
    <2>. QED
      BY <2>1, <1>1 DEF Fits, UsedFits, Running
  <1>6. jobs = [engine |-> jobs.engine, source |-> jobs.source, vmod |-> jobs.vmod]
    BY DEF Fits, JobsFit
  <1>7. EnginesFit(jobs.engine) /\ SourcesFit(run.catalog, jobs.source) /\ VmodsFit(run.catalog, jobs.vmod)
    BY DEF Fits, JobsFit
  <1>8. JobsFit' /\ EveryCellOnce' /\ BundlesFit'
    <2>1. CASE /\ jobs.engine # <<>>
               /\ lost' = lost \cup EngineKeys(Head(jobs.engine))
               /\ jobs' = [jobs EXCEPT !.engine = Tail(@)]
      <3>1. /\ jobs' = [engine |-> Tail(jobs.engine), source |-> jobs.source, vmod |-> jobs.vmod]
            /\ jobs'.engine = Tail(jobs.engine) /\ jobs'.source = jobs.source /\ jobs'.vmod = jobs.vmod
        BY <2>1, <1>6
      <3>2. JobsFit'
        BY <1>1, <1>7, <2>1, <3>1, EnginesLeft DEF JobsFit, Running
      <3>3. EveryCellOnce'
        <4>. DEFINE new == {}
        <4>1. /\ {c.key : c \in new} = {}
              /\ \A c, d \in new : c.key = d.key => c = d
              /\ results' = results \cup new
          BY <1>1
        <4>. HIDE DEF new
        <4>2. /\ {c.key : c \in new} \subseteq EngineKeys(Head(jobs.engine))
              /\ lost' = lost \cup (EngineKeys(Head(jobs.engine)) \ {c.key : c \in new})
          BY <2>1, <4>1
        <4>. QED
          BY <4>1, <4>2, <1>1, <2>1, <3>1, EngineAccounts
      <3>4. BundlesFit'
        BY <1>1, <3>1 DEF Fits, BundlesFit
      <3>. QED
        BY <3>2, <3>3, <3>4
    <2>2. CASE /\ jobs.engine = <<>> /\ jobs.source # <<>>
               /\ lost' = lost
               /\ jobs' = [jobs EXCEPT !.source = Tail(@)]
      <3>1. /\ jobs' = [engine |-> jobs.engine, source |-> Tail(jobs.source), vmod |-> jobs.vmod]
            /\ jobs'.engine = jobs.engine /\ jobs'.source = Tail(jobs.source) /\ jobs'.vmod = jobs.vmod
        BY <2>2, <1>6
      <3>2. JobsFit'
        <4>1. SourcesFit(run.catalog, Tail(jobs.source))
          BY <1>7, <2>2, SourcesLeft
        <4>. QED
          BY <4>1, <1>1, <1>7, <3>1 DEF JobsFit, Running
      <3>3. EveryCellOnce'
        <4>1. Promised' = Promised
          BY <1>1, PromisedAre
        <4>2. /\ Differ(jobs.engine, jobs.vmod)
              /\ Accounts(KeysOf(jobs.engine, jobs.vmod), results, lost, Promised)
              /\ {<<k.engine, k.target>> : k \in {k \in Promised : k.mode = "package"}} \subseteq run.pairs
          BY <1>1, OnceAre DEF Fits
        <4>. QED
          BY <4>1, <4>2, <1>1, <2>2, <3>1, OnceStill
      <3>4. Items(jobs'.source) \subseteq Items(jobs.source)
        BY <1>7, <2>2, <3>1, TailFacts DEF SourcesFit
      <3>5. BundlesFit'
        BY <1>1, <3>4 DEF Fits, BundlesFit
      <3>. QED
        BY <3>2, <3>3, <3>5
    <2>3. CASE /\ jobs.vmod # <<>>
               /\ lost' = lost \cup VmodKeys(Head(jobs.vmod))
               /\ jobs' = [jobs EXCEPT !.vmod = Tail(@)]
      <3>1. /\ jobs' = [engine |-> jobs.engine, source |-> jobs.source, vmod |-> Tail(jobs.vmod)]
            /\ jobs'.engine = jobs.engine /\ jobs'.source = jobs.source /\ jobs'.vmod = Tail(jobs.vmod)
        BY <2>3, <1>6
      <3>2. JobsFit'
        BY <1>1, <1>7, <2>3, <3>1, VmodsLeft DEF JobsFit, Running
      <3>3. EveryCellOnce'
        <4>. DEFINE new == {}
        <4>1. /\ {c.key : c \in new} = {}
              /\ \A c, d \in new : c.key = d.key => c = d
              /\ results' = results \cup new
          BY <1>1
        <4>. HIDE DEF new
        <4>2. /\ {c.key : c \in new} \subseteq VmodKeys(Head(jobs.vmod))
              /\ lost' = lost \cup (VmodKeys(Head(jobs.vmod)) \ {c.key : c \in new})
          BY <2>3, <4>1
        <4>. QED
          BY <4>1, <4>2, <1>1, <2>3, <3>1, VmodAccounts
      <3>4. BundlesFit'
        BY <1>1, <3>1 DEF Fits, BundlesFit
      <3>. QED
        BY <3>2, <3>3, <3>4
    <2>. QED
      BY <2>1, <2>2, <2>3 DEF RunnerLost
  <1>. QED
    BY <1>3, <1>4, <1>5, <1>8 DEF Fits

\* The end of a run: nothing of it counts any more.
LEMMA RunOver ==
  ASSUME Fits, jobs = NoJobs, run' = NoRun, jobs' = jobs, bundles' = bundles, troubles' = troubles,
         results' = results
  PROVE  RunFits' /\ JobsFit' /\ EveryCellOnce' /\ BundlesFit' /\ UsedFits' /\ InputsAtHand' /\ NothingMissing'
  <1>1. ~Running'
    BY DEF Running
  <1>2. jobs'.engine = <<>> /\ jobs'.source = <<>> /\ jobs'.vmod = <<>> /\ Items(<<>>) = {}
    BY NothingToDo
  <1>3. RunFits' /\ EveryCellOnce' /\ UsedFits'
    BY <1>1 DEF RunFits, EveryCellOnce, UsedFits
  <1>4. JobsFit'
    BY <1>1, <1>2, NothingToDo DEF JobsFit
  <1>5. BundlesFit'
    BY <1>2 DEF Fits, BundlesFit
  <1>6. InputsAtHand' /\ NothingMissing'
    BY <1>2 DEF Fits, InputsAtHand, NothingMissing
  <1>. QED
    BY <1>3, <1>4, <1>5, <1>6

LEMMA OverFits ==
  ASSUME Fits, Over
  PROVE  Fits'
  <1>1. /\ jobs = NoJobs /\ run' = NoRun
        /\ UNCHANGED <<jobs, built, bundles, results, used, lost, file, page, history, runs,
                       troubles, catalog, heads, edits>>
    BY DEF Over, outside
  <1>2. RunFits' /\ JobsFit' /\ EveryCellOnce' /\ BundlesFit' /\ UsedFits' /\ InputsAtHand' /\ NothingMissing'
    BY <1>1, RunOver
  <1>3. TypeOK'
    BY <1>1 DEF Fits, TypeOK, Running
  <1>4. TimesFit' /\ FileFits'
    BY <1>1 DEF Fits, TimesFit, FileFits, Running
  <1>. QED
    BY <1>2, <1>3, <1>4 DEF Fits

\* What is outside a run may change at any time.
LEMMA OutsideFits ==
  ASSUME Fits, catalog' \in Catalogs, heads' \in [Upstreams -> 0..MaxMoves], edits' \in 0..MaxEdits,
         UNCHANGED <<run, jobs, built, bundles, results, used, lost, file, history, runs, troubles>>
  PROVE  Fits'
  <1>1. TypeOK' /\ RunFits' /\ JobsFit' /\ TimesFit' /\ FileFits' /\ BundlesFit' /\ InputsAtHand' /\ NothingMissing'
    BY DEF Fits, TypeOK, RunFits, JobsFit, TimesFit, FileFits, BundlesFit, InputsAtHand, NothingMissing, Running
  <1>2. Promised' = Promised
    BY PromisedAre
  <1>3. UsedFits'
    BY <1>2 DEF Fits, UsedFits, Running
  <1>4. EveryCellOnce'
    <2>1. Running => /\ Differ(jobs.engine, jobs.vmod)
                     /\ Accounts(KeysOf(jobs.engine, jobs.vmod), results, lost, Promised)
                     /\ {<<k.engine, k.target>> : k \in {k \in Promised : k.mode = "package"}} \subseteq run.pairs
      BY OnceAre DEF Fits
    <2>. QED
      BY <1>2, <2>1, OnceStill DEF Running
  <1>. QED
    BY <1>1, <1>3, <1>4 DEF Fits

LEMMA RenderFits ==
  ASSUME Fits, RenderPages
  PROVE  Fits'
  <1>1. UNCHANGED <<run, jobs, built, bundles, results, used, lost, file, history, runs, troubles,
                    catalog, heads, edits>>
    BY DEF RenderPages, outside
  <1>. QED
    BY <1>1, OutsideFits DEF Fits, TypeOK

LEMMA EditFits ==
  ASSUME Fits, Edit
  PROVE  Fits'
  <1>1. edits' \in 0..MaxEdits
    BY PlanAssumption DEF Fits, TypeOK, Edit
  <1>2. /\ catalog' \in Catalogs /\ heads' = heads
        /\ UNCHANGED <<run, jobs, built, bundles, results, used, lost, file, history, runs, troubles>>
    BY DEF Edit
  <1>. QED
    BY <1>1, <1>2, OutsideFits DEF Fits, TypeOK

LEMMA MoveFits ==
  ASSUME Fits, NEW git \in Upstreams, Move(git)
  PROVE  Fits'
  <1>1. heads' \in [Upstreams -> 0..MaxMoves]
    BY PlanAssumption DEF Fits, TypeOK, Move
  <1>2. /\ catalog' = catalog /\ edits' = edits
        /\ UNCHANGED <<run, jobs, built, bundles, results, used, lost, file, history, runs, troubles>>
    BY DEF Move
  <1>. QED
    BY <1>1, <1>2, OutsideFits DEF Fits, TypeOK

-----------------------------------------------------------------------------
(* All results of a run, merged one after the other *)

OneOf(s) == CHOOSE x \in s : TRUE

\* What stands for set s, given what stands for the smaller sets.
Turn(g, base, s) == IF s = {} THEN base ELSE MergeCell(g[s \ {OneOf(s)}], OneOf(s))

LEMMA Fewer ==
  ASSUME NEW S, IsFiniteSet(S), NEW s \in SUBSET S
  PROVE  /\ Cardinality(s) \in 0..Cardinality(S) /\ Cardinality(S) \in Nat
         /\ Cardinality(s) = 0 <=> s = {}
         /\ s # {} => /\ OneOf(s) \in s /\ s \ {OneOf(s)} \in SUBSET S
                      /\ Cardinality(s \ {OneOf(s)}) = Cardinality(s) - 1
  <1>1. IsFiniteSet(s) /\ Cardinality(s) <= Cardinality(S)
    BY FS_Subset
  <1>2. Cardinality(s) \in Nat /\ Cardinality(S) \in Nat /\ (Cardinality(s) = 0 <=> s = {})
    BY <1>1, FS_CardinalityType, FS_EmptySet
  <1>3. s # {} => OneOf(s) \in s
    BY DEF OneOf
  <1>4. s # {} => Cardinality(s \ {OneOf(s)}) = Cardinality(s) - 1
    BY <1>1, <1>3, FS_RemoveElement
  <1>. QED
    BY <1>1, <1>2, <1>3, <1>4

Folded(S, base, g) ==
    g = [s \in SUBSET S |-> IF s = {} THEN base ELSE MergeCell(g[s \ {OneOf(s)}], OneOf(s))]

LEMMA FoldExists ==
  ASSUME NEW S, IsFiniteSet(S), NEW base
  PROVE  \E g : Folded(S, base, g)
  <1>. DEFINE N       == Cardinality(S)
              Upto(g, n) == /\ g = [s \in SUBSET S |-> g[s]]
                            /\ \A s \in SUBSET S : Cardinality(s) <= n => g[s] = Turn(g, base, s)
              Good(n) == \E g : Upto(g, n)
              Bad     == {n \in 0..N : ~Good(n)}
  <1>1. N \in Nat
    BY FS_CardinalityType
  <1>2. \A s \in SUBSET S : Cardinality(s) \in 0..N /\ (Cardinality(s) = 0 <=> s = {})
    BY Fewer
  <1>. HIDE DEF N
  <1>3. Good(0)
    <2>. DEFINE g == [s \in SUBSET S |-> base]
    <2>1. ASSUME NEW s \in SUBSET S, Cardinality(s) <= 0
          PROVE  g[s] = Turn(g, base, s)
      <3>1. s = {}
        BY <1>1, <1>2, <2>1
      <3>. QED
        BY <3>1 DEF Turn
    <2>2. Upto(g, 0)
      BY <2>1
    <2>. QED
      BY <2>2
  <1>4. ASSUME NEW n \in 0..N, Good(n)
        PROVE  Good(n+1)
    <2>1. PICK g : Upto(g, n)
      BY <1>4
    <2>. DEFINE h == [s \in SUBSET S |-> IF Cardinality(s) <= n THEN g[s] ELSE Turn(g, base, s)]
    <2>2. \A s \in SUBSET S : h[s] = IF Cardinality(s) <= n THEN g[s] ELSE Turn(g, base, s)
      OBVIOUS
    <2>3. h = [s \in SUBSET S |-> h[s]]
      OBVIOUS
    <2>. HIDE DEF h
    <2>4. ASSUME NEW s \in SUBSET S, Cardinality(s) <= n + 1
          PROVE  h[s] = Turn(h, base, s)
      <3>1. s # {} => /\ s \ {OneOf(s)} \in SUBSET S
                      /\ Cardinality(s \ {OneOf(s)}) <= n
        BY <1>1, <1>2, <2>4, Fewer
      <3>2. Turn(h, base, s) = Turn(g, base, s)
        BY <3>1, <2>2 DEF Turn
      <3>3. h[s] = Turn(g, base, s)
        BY <2>1, <2>2
      <3>. QED
        BY <3>2, <3>3
    <2>5. Upto(h, n+1)
      BY <2>3, <2>4
    <2>. QED
      BY <2>5
  <1>5. ASSUME Bad # {}
        PROVE  FALSE
    <2>0. Bad \in SUBSET Nat
      BY <1>1
    <2>1. PICK n \in Bad : \A k \in Bad : n <= k
      BY <2>0, <1>5, Least
    <2>2. n \in 0..N /\ n # 0 /\ ~Good(n)
      BY <2>1, <1>3
    <2>3. n - 1 \in 0..N /\ (n - 1) + 1 = n /\ ~(n <= n - 1)
      BY <2>2, <1>1
    <2>4. Good(n-1)
      BY <2>1, <2>3
    <2>. HIDE DEF Good
    <2>5. Good((n-1)+1)
      BY <2>3, <2>4, <1>4
    <2>. QED
      BY <2>2, <2>3, <2>5
  <1>6. PICK g : Upto(g, N)
    <2>1. N \in 0..N
      BY <1>1
    <2>. HIDE DEF Upto
    <2>. QED
      BY <2>1, <1>5
  <1>7. \A s \in SUBSET S : g[s] = Turn(g, base, s)
    <2>1. \A s \in SUBSET S : Cardinality(s) <= N
      BY <1>1, <1>2
    <2>. QED
      BY <2>1, <1>6
  <1>8. Folded(S, base, g)
    BY <1>6, <1>7 DEF Folded, Turn
  <1>. QED
    BY <1>8

\* A file that tells its past tells of the results of a run when they are merged.
LEMMA MergeAll ==
  ASSUME NEW base \in State, NEW past \in SUBSET Cell, Tells(base, past),
         NEW S \in SUBSET Cell, IsFiniteSet(S)
  PROVE  LET after == FoldSet(LAMBDA c, f : MergeCell(f, c), base, S) IN
         after \in State /\ Tells(after, past \cup S)
  <1>. DEFINE iter[s \in SUBSET S] == IF s = {} THEN base ELSE MergeCell(iter[s \ {OneOf(s)}], OneOf(s))
  <1>1. iter = [s \in SUBSET S |-> IF s = {} THEN base ELSE MergeCell(iter[s \ {OneOf(s)}], OneOf(s))]
    <2>1. \E g : Folded(S, base, g)
      BY FoldExists
    <2>. QED
      BY <2>1 DEF Folded
  <1>2. FoldSet(LAMBDA c, f : MergeCell(f, c), base, S) = iter[S]
    BY DEF FoldSet, MapThenFoldSet, OneOf
  <1>. HIDE DEF iter
  <1>. DEFINE Good(s) == iter[s] \in State /\ Tells(iter[s], past \cup s)
              N       == Cardinality(S)
              Bad     == {n \in 0..N : \E s \in SUBSET S : Cardinality(s) = n /\ ~Good(s)}
  <1>3. Good({})
    BY <1>1
  <1>4. ASSUME NEW s \in SUBSET S, s # {}, Good(s \ {OneOf(s)})
        PROVE  Good(s)
    <2>1. OneOf(s) \in s /\ s \ {OneOf(s)} \in SUBSET S
      BY <1>4, Fewer
    <2>2. iter[s] = MergeCell(iter[s \ {OneOf(s)}], OneOf(s))
      BY <1>1, <1>4
    <2>3. (past \cup (s \ {OneOf(s)})) \cup {OneOf(s)} = past \cup s
      BY <2>1
    <2>4. past \cup (s \ {OneOf(s)}) \in SUBSET Cell /\ OneOf(s) \in Cell
      BY <2>1
    <2>. QED
      BY <1>4, <2>2, <2>3, <2>4, MergeTells
  <1>5. N \in Nat
    BY FS_CardinalityType
  <1>6. ASSUME Bad # {}
        PROVE  FALSE
    <2>0. Bad \in SUBSET Nat
      BY <1>5
    <2>1. PICK n \in Bad : \A k \in Bad : n <= k
      BY <2>0, <1>6, Least
    <2>2. PICK s \in SUBSET S : Cardinality(s) = n /\ ~Good(s)
      BY <2>1
    <2>3. s # {}
      BY <2>2, <1>3
    <2>4. s \ {OneOf(s)} \in SUBSET S /\ Cardinality(s \ {OneOf(s)}) = n - 1 /\ n \in 0..N /\ n # 0
      BY <2>2, <2>3, Fewer
    <2>5. n - 1 \in 0..N /\ ~(n <= n - 1)
      BY <2>4, <1>5
    <2>. HIDE DEF Good
    <2>6. Good(s \ {OneOf(s)})
      BY <2>1, <2>4, <2>5
    <2>. QED
      BY <2>2, <2>3, <2>6, <1>4
  <1>7. Good(S)
    <2>1. N \in 0..N
      BY <1>5
    <2>. HIDE DEF Good
    <2>. QED
      BY <2>1, <1>6
  <1>. QED
    BY <1>2, <1>7

LEMMA PublishFits ==
  ASSUME Fits, Publish
  PROVE  Fits'
  <1>1. /\ Running /\ jobs = NoJobs /\ run' = NoRun
        /\ file' = FoldSet(LAMBDA c, f : MergeCell(f, c), file, results)
        /\ history' = history \cup results
        /\ UNCHANGED <<jobs, built, bundles, results, used, lost, runs, troubles, catalog, heads, edits>>
    BY DEF Publish, outside
  <1>2. RunFits' /\ JobsFit' /\ EveryCellOnce' /\ BundlesFit' /\ UsedFits' /\ InputsAtHand' /\ NothingMissing'
    BY <1>1, RunOver
  <1>3. FileFits'
    <2>1. /\ file \in State /\ Tells(file, history) /\ history \in SUBSET Cell
          /\ results \in SUBSET Cell /\ IsFiniteSet(results)
      BY DEF Fits, FileFits, TypeOK, TimesFit
    <2>. DEFINE after == FoldSet(LAMBDA c, f : MergeCell(f, c), file, results)
    <2>2. after \in State /\ Tells(after, history \cup results)
      BY <2>1, MergeAll
    <2>3. file' = after
      BY <1>1
    <2>. HIDE DEF after
    <2>. QED
      BY <2>2, <2>3, <1>1 DEF FileFits
  <1>4. TypeOK'
    <2>1. Sound(file'.cells) /\ Sound(file'.infra)
      BY <1>3, MapShape DEF FileFits, State, Sound
    <2>2. history' \subseteq Cell /\ results' \subseteq Cell
      BY <1>1 DEF Fits, TypeOK
    <2>3. ~Running'
      BY <1>1 DEF Running
    <2>. QED
      BY <2>1, <2>2, <2>3, <1>1 DEF Fits, TypeOK
  <1>5. TimesFit'
    <2>1. \A c \in history \cup results : c.time \in Nat
      BY CellAssumption DEF Fits, TypeOK, Cell
    <2>2. runs \in Nat
      BY PlanAssumption DEF Fits, TypeOK
    <2>3. \A c, d \in results : c.key = d.key => c = d
      BY <1>1 DEF Fits, EveryCellOnce
    <2>4. /\ \A c \in results : c.time = runs
          /\ \A c \in history : c.time < runs
          /\ \A c, d \in history : c.key = d.key /\ c.time = d.time => c = d
      BY <1>1 DEF Fits, TimesFit
    <2>5. \A c \in history' : c.time <= runs
      <3>1. ASSUME NEW c \in history
            PROVE  c.time <= runs
        <4>1. c.time \in Nat /\ c.time < runs
          BY <2>1, <2>4
        <4>. QED
          BY <4>1, <2>2
      <3>2. ASSUME NEW c \in results
            PROVE  c.time <= runs
        <4>1. c.time = runs
          BY <2>4
        <4>. QED
          BY <4>1, <2>2
      <3>. QED
        BY <3>1, <3>2, <1>1
    <2>6. \A c, d \in history' : c.key = d.key /\ c.time = d.time => c = d
      <3>1. \A c \in history, d \in results : c.time # d.time
        BY <2>1, <2>2, <2>4
      <3>. QED
        BY <3>1, <2>3, <2>4, <1>1
    <2>7. ~Running'
      BY <1>1 DEF Running
    <2>. QED
      BY <2>5, <2>6, <2>7, <1>1 DEF Fits, TimesFit
  <1>. QED
    BY <1>2, <1>3, <1>4, <1>5 DEF Fits

LEMMA FitsInductive == Fits /\ [Next]_vars => Fits'
  <1>. SUFFICES ASSUME Fits, [Next]_vars
                PROVE  Fits'
    OBVIOUS
  <1>1. ASSUME NEW w \in Workflows, NEW only \in Selections \cup {{}}, Dispatch(w, only)
        PROVE  Fits'
    BY <1>1, DispatchFits
  <1>2. CASE EngineJob
    BY <1>2, EngineJobFits
  <1>3. CASE SourceJob
    BY <1>3, SourceJobFits
  <1>4. CASE VmodJob
    BY <1>4, VmodJobFits
  <1>5. CASE RunnerLost
    BY <1>5, RunnerLostFits
  <1>6. CASE Publish
    BY <1>6, PublishFits
  <1>7. CASE Over
    BY <1>7, OverFits
  <1>8. CASE RenderPages
    BY <1>8, RenderFits
  <1>9. CASE Edit
    BY <1>9, EditFits
  <1>10. ASSUME NEW g \in Upstreams, Move(g)
         PROVE  Fits'
    BY <1>10, MoveFits
  <1>11. CASE UNCHANGED vars
    <2>1. UNCHANGED <<run, jobs, built, bundles, results, used, lost, file, history, runs, troubles,
                      catalog, heads, edits>>
      BY <1>11 DEF vars
    <2>. QED
      BY <2>1, OutsideFits DEF Fits, TypeOK
  <1>. QED
    BY <1>1, <1>2, <1>3, <1>4, <1>5, <1>6, <1>7, <1>8, <1>9, <1>10, <1>11 DEF Next

\* The invariant holds in every state of the runs.
THEOREM Invariant == Spec => []Fits
  BY InitFits, FitsInductive, PTL DEF Spec

\* What a run holds stays of its shape, and its times and counters in range.
THEOREM TypeCorrect == Spec => []TypeOK
  <1>1. Fits => TypeOK
    BY DEF Fits
  <1>. QED
    BY <1>1, Invariant, PTL

\* expand promises each cell once; whatever is cut off or lost, each is still
\* due in just one job, reported once, or lost with its job.
THEOREM CellsOnce == Spec => []EveryCellOnce
  <1>1. Fits => EveryCellOnce
    BY DEF Fits
  <1>. QED
    BY <1>1, Invariant, PTL

\* While nothing has gone wrong, every batch finds the engine and the sources
\* that it names: no cell is infra_failed.
THEOREM InputsCome == Spec => []InputsAtHand
  <1>1. Fits => InputsAtHand
    BY DEF Fits
  <1>. QED
    BY <1>1, Invariant, PTL

\* A package that a run owes is of a VMOD that is promoted, and so pinned.
LEMMA PackagesPinned ==
  ASSUME NEW c, IsCatalog(c), Loads(c), NEW w \in Workflows, NEW only,
         NEW k \in Promises(c, w, only), k.mode = "package"
  PROVE  ResolveSource(FindVmod(c, k.row), FindEngine(c, k.engine)).commit # NoPin
  <1>0. PICK e \in Items(c.engines), v \in Items(c.vmods) : \E t :
          /\ k = Key(v.id, e.id, t, "package") /\ PackageEligible(v, e, t)
          /\ e.kind = Lane(w) /\ w \in {"matrix", "release"}
    <2>1. \A row, id, t : Key(row, id, t, "engine").mode = "engine" /\ Key(row, id, t, "compat").mode = "compat"
      BY DEF Key
    <2>. QED
      BY <2>1 DEF Promises
  <1>1. PICK t :
          /\ k = Key(v.id, e.id, t, "package") /\ PackageEligible(v, e, t)
          /\ e.kind = Lane(w) /\ w \in {"matrix", "release"}
    BY <1>0
  <1>2. FindVmod(c, k.row) = v /\ FindEngine(c, k.engine) = e
    <2>1. k.row = v.id /\ k.engine = e.id
      BY <1>1 DEF Key
    <2>. QED
      BY <2>1, VmodById, EngineById DEF Loads
  <1>3. e.kind = "release"
    BY <1>1 DEF Lane
  <1>4. \A entry \in ReleaseEntries(v) : entry.commit # NoPin
    BY <1>1 DEF Loads, VmodsLoad, PackageLoads, PackageEligible
  <1>5. ResolveSource(v, e) \in ReleaseEntries(v)
    BY <1>3 DEF ResolveSource, ReleaseEntries
  <1>. QED
    BY <1>2, <1>4, <1>5

LEMMA SourceIsOne == Fits => OneSource
  <1>. SUFFICES ASSUME Fits, Running
                PROVE  OneSource
    BY DEF OneSource
  <1>. DEFINE v(u)   == FindVmod(run.catalog, u.key.row)
              e(u)   == FindEngine(run.catalog, u.key.engine)
              src(u) == ResolveSource(v(u), e(u))
  <1>1. \A u \in used : \E x \in bundles : /\ x.commit = u.commit
                                           /\ x.name = SourceArtifact(v(u), e(u))
    BY DEF Fits, UsedFits
  <1>2. \A u : SourceArtifact(v(u), e(u)) = [vmod |-> v(u).id, git |-> v(u).git, ref |-> src(u).ref,
                                              commit |-> src(u).commit]
    BY DEF SourceArtifact
  <1>3. /\ \A x, y \in bundles : x.name = y.name => x = y
        /\ \A x \in bundles : x.name.commit # NoPin => x.commit = x.name.commit
    BY DEF Fits, BundlesFit
  <1>4. \A u \in used : u.key.mode = "package" => src(u).commit # NoPin
    <2>1. ASSUME NEW u \in used, u.key.mode = "package"
          PROVE  src(u).commit # NoPin
      <3>1. u.key \in Promises(run.catalog, run.workflow, run.only)
        BY PromisedAre DEF Fits, UsedFits
      <3>2. Loads(run.catalog) /\ IsCatalog(run.catalog) /\ run.workflow \in Workflows
        BY RunFacts DEF Fits, RunFits
      <3>. QED
        BY <2>1, <3>1, <3>2, PackagesPinned
    <2>. QED
      BY <2>1
  <1>. HIDE DEF v, e, src
  <1>5. \A u \in used : src(u).commit # NoPin => u.commit = src(u).commit
    <2>1. ASSUME NEW u \in used, src(u).commit # NoPin
          PROVE  u.commit = src(u).commit
      <3>1. PICK x \in bundles : x.commit = u.commit /\ x.name = SourceArtifact(v(u), e(u))
        BY <1>1
      <3>2. x.name.commit = src(u).commit
        BY <3>1, <1>2
      <3>. QED
        BY <2>1, <3>1, <3>2, <1>3
    <2>. QED
      BY <2>1
  <1>6. ASSUME NEW u \in used, NEW x \in used, v(u) = v(x), src(u) = src(x)
        PROVE  u.commit = x.commit
    <2>1. PICK p \in bundles : p.commit = u.commit /\ p.name = SourceArtifact(v(u), e(u))
      BY <1>1
    <2>2. PICK q \in bundles : q.commit = x.commit /\ q.name = SourceArtifact(v(x), e(x))
      BY <1>1
    <2>3. SourceArtifact(v(u), e(u)) = SourceArtifact(v(x), e(x))
      BY <1>2, <1>6
    <2>. QED
      BY <2>1, <2>2, <2>3, <1>3
  <1>. QED
    BY <1>4, <1>5, <1>6 DEF OneSource, v, e, src

\* Whatever moves upstream during a run: the cells of a VMOD that resolve to one
\* source are built from one commit, a pin is honoured, and a package has one.
THEOREM SourceStays == Spec => []OneSource
  BY SourceIsOne, Invariant, PTL

-----------------------------------------------------------------------------
(* The page *)

\* One cell of the page, against the results of its group.
GridTells(cell, seen, t, row, col) ==
    LET past  == {c \in seen : c.key.target = t /\ c.key.engine = col /\ DisplayRow(c.key) = row}
        keys  == {c.key : c \in past}
        newest(k) == {c \in past : Newest(c, Concluded(past, k))} IN
    /\ (cell.bucket = "MISSING") <=> (past = {})
    /\ (cell.bucket = "PASS") <=>
           (past # {} /\ \A k \in keys : \E c \in newest(k) : c.status = "pass")
    /\ (cell.bucket = "FAIL") <=> (\E k \in keys : \E c \in newest(k) : c.status # "pass")
    /\ cell.told = {k.mode : k \in {k \in keys : \E c \in newest(k) :
                                       \E d \in Interrupted(past, k) : d.time > c.time}}

\* What the file holds of a key, and what the results of a group say of it.
LEMMA KeyTold ==
  ASSUME NEW f \in State, NEW seen \in SUBSET Cell, Tells(f, seen),
         \A c, d \in seen : c.key = d.key /\ c.time = d.time => c = d,
         NEW past \in SUBSET seen, NEW k \in Keys, \A c \in seen : c.key = k => c \in past
  PROVE  /\ k \in DOMAIN f.cells <=> k \in {c.key : c \in past}
         /\ k \in DOMAIN f.cells => /\ f.cells[k] \in Cell
                                    /\ \A c : c \in past /\ Newest(c, Concluded(past, k)) <=>
                                              c = f.cells[k] /\ f.cells[k].status # Infra
         /\ (k \in DOMAIN f.cells /\ f.cells[k].status # Infra) =>
               ((\E d \in Interrupted(past, k) : d.time > f.cells[k].time) <=>
                   (k \in DOMAIN f.infra /\ f.infra[k].time > f.cells[k].time))
         /\ (k \in DOMAIN f.cells /\ f.cells[k].status = Infra) => k \notin DOMAIN f.infra
  <1>1. Concluded(past, k) = Concluded(seen, k) /\ Interrupted(past, k) = Interrupted(seen, k)
    BY DEF Concluded, Interrupted
  <1>2. ShowsAt(f, seen, k) /\ KeepsAt(f, seen, k)
    BY DEF Tells, ShowsNewest, KeepsInterruption
  <1>3. /\ \A c \in Concluded(seen, k) : c \in seen /\ c.key = k /\ c.status # Infra
        /\ \A c \in Interrupted(seen, k) : c \in seen /\ c.key = k /\ c.status = Infra
        /\ \A c \in seen : c.key = k => c \in Concluded(seen, k) \cup Interrupted(seen, k)
    BY DEF Concluded, Interrupted
  <1>4. \A c \in seen : c.time \in Nat
    BY CellAssumption DEF Cell
  <1>5. k \in DOMAIN f.cells <=> k \in {c.key : c \in past}
    BY <1>2, <1>3 DEF ShowsAt
  <1>6. ASSUME k \in DOMAIN f.cells
        PROVE  /\ f.cells[k] \in seen
               /\ f.cells[k].status # Infra => Newest(f.cells[k], Concluded(seen, k))
               /\ f.cells[k].status = Infra => Concluded(seen, k) = {}
    BY <1>2, <1>3, <1>6 DEF ShowsAt, Newest
  <1>7. ASSUME k \in DOMAIN f.cells, NEW c, c \in past, Newest(c, Concluded(past, k))
        PROVE  c = f.cells[k] /\ f.cells[k].status # Infra
    <2>1. c \in Concluded(seen, k) /\ \A d \in Concluded(seen, k) : d.time <= c.time
      BY <1>1, <1>7 DEF Newest
    <2>2. f.cells[k].status # Infra
      BY <2>1, <1>6, <1>7
    <2>3. f.cells[k] \in Concluded(seen, k) /\ c.time <= f.cells[k].time
      BY <2>1, <2>2, <1>6, <1>7 DEF Newest
    <2>4. c.time = f.cells[k].time
      BY <2>1, <2>3, <1>3, <1>4
    <2>. QED
      BY <2>1, <2>2, <2>3, <2>4, <1>3
  <1>8. ASSUME k \in DOMAIN f.cells, f.cells[k].status # Infra
        PROVE  f.cells[k] \in past /\ Newest(f.cells[k], Concluded(past, k))
    BY <1>1, <1>3, <1>6, <1>8 DEF Newest
  <1>9. ASSUME k \in DOMAIN f.cells, f.cells[k].status # Infra
        PROVE  (\E d \in Interrupted(past, k) : d.time > f.cells[k].time) <=>
                  (k \in DOMAIN f.infra /\ f.infra[k].time > f.cells[k].time)
    <2>1. Concluded(seen, k) # {}
      BY <1>6, <1>9 DEF Newest
    <2>2. Since(f, seen, k) = {d \in Interrupted(seen, k) : d.time > f.cells[k].time}
      BY <2>1 DEF Since
    <2>3. CASE Since(f, seen, k) = {}
      BY <2>2, <2>3, <1>1, <1>2 DEF KeepsAt
    <2>4. CASE Since(f, seen, k) # {}
      <3>1. k \in DOMAIN f.infra /\ f.infra[k] \in Since(f, seen, k)
        BY <2>4, <1>2 DEF KeepsAt, Newest
      <3>. QED
        BY <3>1, <2>2, <1>1
    <2>. QED
      BY <2>3, <2>4
  <1>10. ASSUME k \in DOMAIN f.cells, f.cells[k].status = Infra
         PROVE  k \notin DOMAIN f.infra
    BY <1>2, <1>6, <1>10 DEF KeepsAt, Since
  <1>. QED
    BY <1>5, <1>6, <1>7, <1>8, <1>9, <1>10

LEMMA WorstIs ==
  ASSUME NEW f, NEW group, group # {}
  PROVE  /\ Worst(f, group) \in {"PASS", "INFRA", "FAIL"}
         /\ (Worst(f, group) = "PASS") <=> \A k \in group : f.cells[k].status = "pass"
         /\ (Worst(f, group) = "FAIL") <=> \E k \in group : f.cells[k].status \notin {"pass", Infra}
  <1>. DEFINE bucket(k) == Classify(f.cells[k].status)
              all       == {bucket(k) : k \in group}
              IsWorst(b) == b \in all /\ \A k \in group : Rank(bucket(k)) <= Rank(b)
  <1>1. \A k \in group : /\ bucket(k) \in {"PASS", "INFRA", "FAIL"}
                         /\ bucket(k) = "PASS" <=> f.cells[k].status = "pass"
                         /\ bucket(k) = "FAIL" <=> f.cells[k].status \notin {"pass", Infra}
    BY DEF Classify, Infra
  <1>2. Rank("PASS") = 1 /\ Rank("INFRA") = 2 /\ Rank("FAIL") = 3
    BY DEF Rank
  <1>3. all # {} /\ all \subseteq {"PASS", "INFRA", "FAIL"} /\ \A b \in all : \E k \in group : b = bucket(k)
    BY <1>1
  <1>4. \A k \in group : bucket(k) \in all
    OBVIOUS
  <1>5. Worst(f, group) = CHOOSE b : IsWorst(b)
    BY DEF Worst
  <1>. HIDE DEF bucket, all
  <1>6. \E b : IsWorst(b)
    <2>1. CASE "FAIL" \in all
      <3>1. \A k \in group : Rank(bucket(k)) <= Rank("FAIL")
        BY <1>1, <1>2
      <3>. QED
        BY <2>1, <3>1
    <2>2. CASE "FAIL" \notin all /\ "INFRA" \in all
      <3>1. \A k \in group : Rank(bucket(k)) <= Rank("INFRA")
        BY <2>2, <1>1, <1>2, <1>4
      <3>. QED
        BY <2>2, <3>1
    <2>3. CASE "FAIL" \notin all /\ "INFRA" \notin all
      <3>1. "PASS" \in all
        BY <2>3, <1>3
      <3>2. \A k \in group : Rank(bucket(k)) <= Rank("PASS")
        BY <2>3, <1>1, <1>2, <1>4
      <3>. QED
        BY <3>1, <3>2
    <2>. QED
      BY <2>1, <2>2, <2>3
  <1>. DEFINE w == Worst(f, group)
  <1>7. w \in all /\ \A k \in group : Rank(bucket(k)) <= Rank(w)
    <2>. HIDE DEF IsWorst
    <2>1. IsWorst(w)
      BY <1>5, <1>6
    <2>. QED
      BY <2>1 DEF IsWorst
  <1>. HIDE DEF w
  <1>8. w = "PASS" <=> \A k \in group : bucket(k) = "PASS"
    <2>1. ASSUME w = "PASS", NEW k \in group
          PROVE  bucket(k) = "PASS"
      BY <2>1, <1>1, <1>2, <1>7
    <2>. QED
      BY <2>1, <1>3, <1>7
  <1>9. w = "FAIL" <=> \E k \in group : bucket(k) = "FAIL"
    <2>1. ASSUME NEW k \in group, bucket(k) = "FAIL"
          PROVE  w = "FAIL"
      BY <2>1, <1>2, <1>3, <1>7
    <2>. QED
      BY <2>1, <1>3, <1>7
  <1>. QED
    BY <1>1, <1>3, <1>7, <1>8, <1>9 DEF w

LEMMA CellTold ==
  ASSUME NEW f \in State, NEW seen \in SUBSET Cell, Tells(f, seen),
         \A c, d \in seen : c.key = d.key /\ c.time = d.time => c = d,
         NEW t, NEW row, NEW col
  PROVE  LET group == Group(f, t, row, col) IN
         GridTells(IF group = {} THEN [bucket |-> "MISSING", told |-> {}]
                   ELSE [bucket |-> Worst(f, group), told |-> Told(f, group)], seen, t, row, col)
  <1>. DEFINE group == Group(f, t, row, col)
              past  == {c \in seen : c.key.target = t /\ c.key.engine = col /\ DisplayRow(c.key) = row}
              keys  == {c.key : c \in past}
              newest(k) == {c \in past : Newest(c, Concluded(past, k))}
              fits(k)   == k.target = t /\ k.engine = col /\ DisplayRow(k) = row
              cell == IF group = {} THEN [bucket |-> "MISSING", told |-> {}]
                      ELSE [bucket |-> Worst(f, group), told |-> Told(f, group)]
  <1>1. /\ group = {k \in DOMAIN f.cells : fits(k)}
        /\ past = {c \in seen : fits(c.key)}
    BY DEF Group
  <1>2. DOMAIN f.cells \subseteq Keys /\ \A c \in seen : c.key \in Keys
    BY MapShape DEF State, Cell
  <1>3. \A k : k \in keys <=> \E c \in past : c.key = k
    OBVIOUS
  <1>4. \A k, c : c \in newest(k) <=> c \in past /\ Newest(c, Concluded(past, k))
    OBVIOUS
  <1>. HIDE DEF group, past, keys, newest, fits
  <1>5. \A k \in Keys : fits(k) => past \subseteq seen /\ \A c \in seen : c.key = k => c \in past
    BY <1>1
  <1>6. ASSUME NEW k \in Keys, fits(k)
        PROVE  /\ k \in DOMAIN f.cells <=> k \in keys
               /\ k \in DOMAIN f.cells =>
                     /\ f.cells[k].status # Infra => newest(k) = {f.cells[k]}
                     /\ f.cells[k].status = Infra => newest(k) = {} /\ k \notin DOMAIN f.infra
                     /\ f.cells[k].status # Infra =>
                           ((\E d \in Interrupted(past, k) : d.time > f.cells[k].time) <=>
                               (k \in DOMAIN f.infra /\ f.infra[k].time > f.cells[k].time))
    <2>1. /\ k \in DOMAIN f.cells <=> k \in {c.key : c \in past}
          /\ k \in DOMAIN f.cells => \A c : c \in past /\ Newest(c, Concluded(past, k)) <=>
                                              c = f.cells[k] /\ f.cells[k].status # Infra
          /\ (k \in DOMAIN f.cells /\ f.cells[k].status # Infra) =>
                ((\E d \in Interrupted(past, k) : d.time > f.cells[k].time) <=>
                    (k \in DOMAIN f.infra /\ f.infra[k].time > f.cells[k].time))
          /\ (k \in DOMAIN f.cells /\ f.cells[k].status = Infra) => k \notin DOMAIN f.infra
      <3>1. past \in SUBSET seen /\ \A c \in seen : c.key = k => c \in past
        BY <1>5, <1>6
      <3>. QED
        BY <3>1, KeyTold
    <2>2. k \in DOMAIN f.cells <=> k \in keys
      BY <2>1, <1>3
    <2>3. k \in DOMAIN f.cells => \A c : c \in newest(k) <=> c = f.cells[k] /\ f.cells[k].status # Infra
      BY <2>1, <1>4
    <2>. QED
      BY <2>1, <2>2, <2>3
  <1>7. group = keys
    <2>1. \A k \in keys : k \in Keys /\ fits(k)
      BY <1>1, <1>2, <1>3
    <2>. QED
      BY <2>1, <1>1, <1>2, <1>6
  <1>8. past = {} <=> group = {}
    BY <1>3, <1>7
  <1>9. ASSUME NEW k \in group
        PROVE  /\ f.cells[k].status # Infra => newest(k) = {f.cells[k]}
               /\ f.cells[k].status = Infra => newest(k) = {} /\ k \notin DOMAIN f.infra
               /\ f.cells[k].status # Infra =>
                     ((\E d \in Interrupted(past, k) : d.time > f.cells[k].time) <=>
                         (k \in DOMAIN f.infra /\ f.infra[k].time > f.cells[k].time))
    BY <1>1, <1>2, <1>6
  <1>10. \A k \in group :
            /\ (\E c \in newest(k) : c.status = "pass") <=> f.cells[k].status = "pass"
            /\ (\E c \in newest(k) : c.status # "pass") <=> f.cells[k].status \notin {"pass", Infra}
            /\ (\E c \in newest(k) : \E d \in Interrupted(past, k) : d.time > c.time) <=>
                  (k \in DOMAIN f.infra /\ f.infra[k].time > f.cells[k].time)
    BY <1>9 DEF Infra
  <1>11. cell.bucket = (IF group = {} THEN "MISSING" ELSE Worst(f, group))
    OBVIOUS
  <1>12. cell.told = Told(f, group)
    BY DEF Told
  <1>. HIDE DEF cell
  <1>13. /\ (cell.bucket = "MISSING") <=> (past = {})
         /\ (cell.bucket = "PASS") <=>
                (past # {} /\ \A k \in keys : \E c \in newest(k) : c.status = "pass")
         /\ (cell.bucket = "FAIL") <=> (\E k \in keys : \E c \in newest(k) : c.status # "pass")
    <2>1. CASE group = {}
      BY <2>1, <1>7, <1>8, <1>11
    <2>2. CASE group # {}
      <3>1. /\ Worst(f, group) \in {"PASS", "INFRA", "FAIL"}
            /\ (Worst(f, group) = "PASS") <=> \A k \in group : f.cells[k].status = "pass"
            /\ (Worst(f, group) = "FAIL") <=> \E k \in group : f.cells[k].status \notin {"pass", Infra}
        BY <2>2, WorstIs
      <3>. QED
        BY <2>2, <3>1, <1>7, <1>8, <1>10, <1>11
    <2>. QED
      BY <2>1, <2>2
  <1>14. cell.told = {k.mode : k \in {k \in keys : \E c \in newest(k) :
                                          \E d \in Interrupted(past, k) : d.time > c.time}}
    BY <1>7, <1>10, <1>12 DEF Told
  <1>. QED
    BY <1>13, <1>14, Zenon DEF GridTells, cell, newest, keys, past, group

LEMMA PageIs ==
  ASSUME NEW f \in State, NEW seen \in SUBSET Cell, Tells(f, seen),
         \A c, d \in seen : c.key = d.key /\ c.time = d.time => c = d,
         NEW c, NEW t \in DOMAIN Render(f, c), NEW at \in DOMAIN Render(f, c)[t]
  PROVE  GridTells(Render(f, c)[t][at], seen, t, at[1], at[2])
  <1>. DEFINE group == Group(f, t, at[1], at[2])
  <1>1. Render(f, c)[t] = BuildGrid(f, t, c)
    BY DEF Render
  <1>2. Render(f, c)[t][at] = IF group = {} THEN [bucket |-> "MISSING", told |-> {}]
                              ELSE [bucket |-> Worst(f, group), told |-> Told(f, group)]
    BY <1>1 DEF BuildGrid
  <1>. QED
    BY <1>2, CellTold

\* A page rendered from a file says what the results it has seen say.
LEMMA PageRendered ==
  ASSUME Fits', NEW c, page' = [grids |-> Render(file', c), seen |-> history']
  PROVE  PageTells'
  <1>1. /\ file' \in State /\ history' \in SUBSET Cell /\ Tells(file', history')
        /\ \A b, d \in history' : b.key = d.key /\ b.time = d.time => b = d
    BY DEF Fits, FileFits, TypeOK, TimesFit
  <1>2. page'.grids = Render(file', c) /\ page'.seen = history'
    OBVIOUS
  <1>3. \A t \in DOMAIN Render(file', c) : \A at \in DOMAIN Render(file', c)[t] :
           GridTells(Render(file', c)[t][at], history', t, at[1], at[2])
    BY <1>1, PageIs
  <1>4. \A t \in DOMAIN page'.grids : \A at \in DOMAIN page'.grids[t] :
           GridTells(page'.grids[t][at], page'.seen, t, at[1], at[2])
    BY <1>2, <1>3
  <1>. QED
    BY <1>4, Zenon DEF PageTells, GridTells

LEMMA PageInductive == Fits /\ Fits' /\ PageTells /\ [Next]_vars => PageTells'
  <1>. SUFFICES ASSUME Fits, Fits', PageTells, [Next]_vars
                PROVE  PageTells'
    OBVIOUS
  <1>1. CASE page' = page
    <2>1. \A t \in DOMAIN page.grids : \A at \in DOMAIN page.grids[t] :
             GridTells(page.grids[t][at], page.seen, t, at[1], at[2])
      BY Zenon DEF PageTells, GridTells
    <2>2. \A t \in DOMAIN page'.grids : \A at \in DOMAIN page'.grids[t] :
             GridTells(page'.grids[t][at], page'.seen, t, at[1], at[2])
      BY <1>1, <2>1
    <2>. QED
      BY <2>2, Zenon DEF PageTells, GridTells
  <1>2. CASE Publish
    <2>1. page' = [grids |-> Render(file', run.catalog), seen |-> history']
      BY <1>2 DEF Publish
    <2>. QED
      BY <2>1, PageRendered
  <1>3. CASE RenderPages
    <2>1. page' = [grids |-> Render(file', catalog), seen |-> history']
      BY <1>3 DEF RenderPages
    <2>. QED
      BY <2>1, PageRendered
  <1>4. page' = page \/ Publish \/ RenderPages
    BY DEF Next, Dispatch, EngineJob, SourceJob, VmodJob, RunnerLost, Over, Edit, Move, vars
  <1>. QED
    BY <1>1, <1>2, <1>3, <1>4

\* Green only where every mode passed when it last concluded, red where one did
\* not, with a word where a newer attempt was interrupted: whatever mixture of
\* catalogs, lanes and runs is behind the page.
THEOREM PageTrue == Spec => []PageTells
  <1>1. Init => PageTells
    <2>1. DOMAIN <<>> = {}
      OBVIOUS
    <2>. QED
      BY <2>1 DEF Init, NoPage, PageTells
  <1>. QED
    BY <1>1, Invariant, PageInductive, PTL DEF Spec
=============================================================================
