------------------------- MODULE MatrixCellsProofs -------------------------
(***************************************************************************)
(* What merging one result does to the state file, for every set of keys,  *)
(* verdicts and times; and before it what the proofs about the catalog and *)
(* about the packages both know of lists.                                  *)
(***************************************************************************)
EXTENDS MatrixCells, SequencesExt, FiniteSetTheorems, TLAPS

-----------------------------------------------------------------------------
(* Lists *)

\* Induction over data goes by the least counterexample.
LEMMA Least ==
  ASSUME NEW T \in SUBSET Nat, T # {}
  PROVE  \E x \in T : \A y \in T : x <= y
  <1>1. IsWellFoundedOn(OpToRel(<, Nat), Nat)
    BY NatLessThanWellFounded
  <1>2. PICK x \in T : \A y \in T : ~(<<y, x>> \in OpToRel(<, Nat))
    BY <1>1, WFMin
  <1>3. \A y \in T : ~(y < x)
    BY <1>2 DEF OpToRel
  <1>. QED
    BY <1>3

LEMMA ListOf ==
  ASSUME NEW S, NEW n \in Nat, NEW seq \in [1..n -> S]
  PROVE  seq \in Seq(S) /\ Len(seq) = n
  OBVIOUS

LEMMA ListWiden ==
  ASSUME NEW S, NEW T, S \subseteq T, NEW seq \in Seq(S)
  PROVE  seq \in Seq(T)
  <1>1. Len(seq) \in Nat /\ seq \in [1..Len(seq) -> T]
    OBVIOUS
  <1>. QED
    BY <1>1, ListOf

\* What FlattenSeq has joined after n sequences.
Joined(seqs, g, n) ==
    g = [i \in 1..n |-> IF i = 1 THEN seqs[i] ELSE g[i-1] \o seqs[i]]

LEMMA JoinExists ==
  ASSUME NEW S, NEW seqs \in Seq(Seq(S)), NEW m \in 0..Len(seqs)
  PROVE  \E g \in [1..m -> Seq(S)] : Joined(seqs, g, m)
  <1>. DEFINE Good(n) == \E g \in [1..n -> Seq(S)] : Joined(seqs, g, n)
              Bad     == {n \in 0..Len(seqs) : ~Good(n)}
  <1>0. Len(seqs) \in Nat /\ \A i \in 1..Len(seqs) : seqs[i] \in Seq(S)
    OBVIOUS
  <1>1. Good(0)
    <2>. DEFINE g == [i \in 1..0 |-> seqs[i]]
    <2>1. g \in [1..0 -> Seq(S)] /\ Joined(seqs, g, 0)
      BY DEF Joined
    <2>. QED
      BY <2>1
  <1>2. ASSUME NEW n \in 1..Len(seqs), Good(n-1)
        PROVE  Good(n)
    <2>1. PICK g \in [1..(n-1) -> Seq(S)] : Joined(seqs, g, n-1)
      BY <1>2
    <2>. DEFINE h == [i \in 1..n |-> IF i < n THEN g[i]
                                    ELSE IF n = 1 THEN seqs[n] ELSE g[n-1] \o seqs[n]]
    <2>2. n \in Nat /\ n >= 1 /\ seqs[n] \in Seq(S)
      BY <1>0
    <2>3. \A i \in 1..n : i < n => i \in 1..(n-1)
      BY <2>2
    <2>4. n > 1 => g[n-1] \o seqs[n] \in Seq(S)
      BY <2>2
    <2>5. h \in [1..n -> Seq(S)]
      BY <2>2, <2>3, <2>4
    <2>6. ASSUME NEW i \in 1..n
          PROVE  h[i] = IF i = 1 THEN seqs[i] ELSE h[i-1] \o seqs[i]
      <3>1. CASE i = n
        BY <3>1, <2>2
      <3>2. CASE i < n
        <4>1. i \in 1..(n-1) /\ (i # 1 => i - 1 \in 1..(n-1) /\ h[i-1] = g[i-1])
          BY <3>2, <2>2
        <4>2. g[i] = IF i = 1 THEN seqs[i] ELSE g[i-1] \o seqs[i]
          BY <4>1, <2>1 DEF Joined
        <4>. QED
          BY <4>1, <4>2, <3>2
      <3>. QED
        BY <3>1, <3>2, <2>2
    <2>7. Joined(seqs, h, n)
      BY <2>6 DEF Joined
    <2>. QED
      BY <2>5, <2>7
  <1>3. ASSUME Bad # {}
        PROVE  FALSE
    <2>1. Bad \in SUBSET Nat
      BY <1>0
    <2>2. PICK n \in Bad : \A k \in Bad : n <= k
      BY <2>1, <1>3, Least
    <2>3. n \in 0..Len(seqs) /\ n # 0 /\ ~Good(n)
      BY <2>2, <1>1
    <2>4. n \in 1..Len(seqs) /\ n - 1 \in 0..Len(seqs) /\ ~(n <= n - 1)
      BY <2>3, <1>0
    <2>5. Good(n-1)
      BY <2>2, <2>4
    <2>. QED
      BY <1>2, <2>3, <2>4, <2>5
  <1>. QED
    BY <1>3

JoinedAt(seqs, g) ==
    \A i \in 1..Len(seqs) : g[i] = IF i = 1 THEN seqs[i] ELSE g[i-1] \o seqs[i]

LEMMA FlattenSteps ==
  ASSUME NEW S, NEW seqs \in Seq(Seq(S)), seqs # <<>>
  PROVE  \E g : FlattenSeq(seqs) = g[Len(seqs)] /\ JoinedAt(seqs, g)
  <1>. DEFINE N == Len(seqs)
              flatten[i \in 1..N] == IF i = 1 THEN seqs[i] ELSE flatten[i-1] \o seqs[i]
  <1>1. N \in Nat /\ N # 0 /\ N \in 0..N
    OBVIOUS
  <1>2. \E g \in [1..N -> Seq(S)] : Joined(seqs, g, N)
    BY <1>1, JoinExists
  <1>3. flatten = [i \in 1..N |-> IF i = 1 THEN seqs[i] ELSE flatten[i-1] \o seqs[i]]
    BY <1>2 DEF Joined
  <1>4. FlattenSeq(seqs) = flatten[N]
    BY <1>1 DEF FlattenSeq
  <1>. HIDE DEF flatten
  <1>5. JoinedAt(seqs, flatten)
    BY <1>3 DEF JoinedAt
  <1>. QED
    BY <1>4, <1>5

-----------------------------------------------------------------------------
(* One result *)

\* What a map of the file is, without the union over its domains.
LEMMA MapShape ==
    \A m : m \in Maps <=> /\ DOMAIN m \subseteq Keys
                          /\ m \in [DOMAIN m -> Cell]
                          /\ \A k \in DOMAIN m : m[k].key = k
  BY DEF Maps

\* The two maps agree on every key but one.
SameBut(m, n, k) == \A j \in Keys : j # k => /\ j \in DOMAIN n <=> j \in DOMAIN m
                                             /\ j \in DOMAIN m => n[j] = m[j]

LEMMA PutShape ==
    ASSUME NEW m \in Maps, NEW c \in Cell
    PROVE  /\ Put(m, c) \in Maps
           /\ SameBut(m, Put(m, c), c.key)
           /\ c.key \in DOMAIN Put(m, c) /\ Put(m, c)[c.key] = c
  BY MapShape DEF Put, Cell, SameBut

LEMMA DropShape ==
    ASSUME NEW m \in Maps, NEW k
    PROVE  /\ Drop(m, k) \in Maps
           /\ SameBut(m, Drop(m, k), k)
           /\ k \notin DOMAIN Drop(m, k)
  BY MapShape DEF Drop, SameBut

LEMMA AsideShape ==
    ASSUME NEW s \in State, NEW c \in Cell
    PROVE  /\ SetAside(s, c) \in Maps
           /\ SameBut(s.infra, SetAside(s, c), c.key)
<1>1. CASE SetAside(s, c) = s.infra
  BY <1>1 DEF SameBut, State
<1>2. CASE c.key \in DOMAIN s.cells /\ SetAside(s, c) = Put(s.infra, s.cells[c.key])
  <2>1. s.cells[c.key] \in Cell /\ s.cells[c.key].key = c.key
    BY <1>2, MapShape DEF State
  <2> QED BY <1>2, <2>1, PutShape DEF State
<1> QED BY <1>1, <1>2 DEF SetAside

\* One merge keeps the file well formed and touches one key.
LEMMA MergeShape ==
    ASSUME NEW s \in State, NEW c \in Cell
    PROVE  /\ MergeCell(s, c) \in State
           /\ SameBut(s.cells, MergeCell(s, c).cells, c.key)
           /\ SameBut(s.infra, MergeCell(s, c).infra, c.key)
<1>1. s.cells \in Maps /\ s.infra \in Maps /\ s = [cells |-> s.cells, infra |-> s.infra]
  BY DEF State
<1>2. CASE c.status = Infra
  <2>1. \/ MergeCell(s, c) = s
        \/ MergeCell(s, c) = [cells |-> Put(s.cells, c), infra |-> s.infra]
        \/ MergeCell(s, c) = [cells |-> s.cells, infra |-> Put(s.infra, c)]
    BY <1>1, <1>2 DEF MergeCell, MergeInterruption
  <2> QED BY <2>1, <1>1, PutShape DEF SameBut, State
<1>3. CASE c.status # Infra
  <2> DEFINE kept == SetAside(s, c)
  <2>1. kept \in Maps /\ SameBut(s.infra, kept, c.key)
    BY AsideShape
  <2>2. \/ MergeCell(s, c) = s
        \/ MergeCell(s, c) = [cells |-> Put(s.cells, c), infra |-> kept]
        \/ MergeCell(s, c) = [cells |-> Put(s.cells, c), infra |-> Drop(kept, c.key)]
    BY <1>3 DEF MergeCell, MergeConclusion
  <2> HIDE DEF kept
  <2>3. Drop(kept, c.key) \in Maps /\ SameBut(s.infra, Drop(kept, c.key), c.key)
    <3>1. Drop(kept, c.key) \in Maps /\ SameBut(kept, Drop(kept, c.key), c.key)
      BY <2>1, DropShape
    <3> QED BY <3>1, <2>1 DEF SameBut
  <2> QED BY <2>1, <2>2, <2>3, <1>1, PutShape DEF SameBut, State
<1> QED BY <1>2, <1>3

\* What is merged under one key says nothing of another.
LEMMA OtherKey ==
    ASSUME NEW s \in State, NEW past \in SUBSET Cell, NEW c \in Cell,
           NEW k \in Keys, k # c.key, ShowsAt(s, past, k), KeepsAt(s, past, k)
    PROVE  /\ ShowsAt(MergeCell(s, c), past \cup {c}, k)
           /\ KeepsAt(MergeCell(s, c), past \cup {c}, k)
<1> DEFINE t == MergeCell(s, c)
<1>1. /\ k \in DOMAIN t.cells <=> k \in DOMAIN s.cells
      /\ k \in DOMAIN s.cells => t.cells[k] = s.cells[k]
      /\ k \in DOMAIN t.infra <=> k \in DOMAIN s.infra
      /\ k \in DOMAIN s.infra => t.infra[k] = s.infra[k]
  BY MergeShape DEF SameBut
<1>2. /\ Concluded(past \cup {c}, k) = Concluded(past, k)
      /\ Interrupted(past \cup {c}, k) = Interrupted(past, k)
  BY DEF Concluded, Interrupted
<1> HIDE DEF t
<1>3. Since(t, past \cup {c}, k) = Since(s, past, k)
  BY <1>1, <1>2 DEF Since, ShowsAt
<1> QED BY <1>1, <1>2, <1>3 DEF ShowsAt, KeepsAt, t

\* An interruption merged under its key.
LEMMA InterruptionSound ==
    ASSUME NEW s \in State, NEW past \in SUBSET Cell, NEW c \in Cell, c.status = Infra,
           ShowsAt(s, past, c.key), KeepsAt(s, past, c.key)
    PROVE  /\ ShowsAt(MergeCell(s, c), past \cup {c}, c.key)
           /\ KeepsAt(MergeCell(s, c), past \cup {c}, c.key)
<1> DEFINE k == c.key
           t == MergeCell(s, c)
<1> USE CellAssumption
<1>1. /\ Concluded(past \cup {c}, k) = Concluded(past, k)
      /\ Interrupted(past \cup {c}, k) = Interrupted(past, k) \cup {c}
  BY DEF Concluded, Interrupted
<1>2. s.cells \in Maps /\ s.infra \in Maps /\ \A d \in Cell : d.time \in Nat
  BY DEF State, Cell
<1>3. CASE Concluded(past, k) # {}
  <2>1. k \in DOMAIN s.cells /\ s.cells[k].status # Infra /\ s.cells[k].time \in Nat
    BY <1>3, <1>2, MapShape DEF ShowsAt, Newest, Concluded
  <2>2. t.cells = s.cells
    BY <2>1 DEF MergeCell, MergeInterruption, State
  <2>3. ShowsAt(t, past \cup {c}, k)
    BY <1>3, <1>1, <2>2 DEF ShowsAt
  <2>4. Since(t, past \cup {c}, k) =
          Since(s, past, k) \cup (IF c.time > s.cells[k].time THEN {c} ELSE {})
    BY <1>3, <1>1, <2>2 DEF Since
  <2>5. \A d \in Since(s, past, k) : d.time \in Nat
    BY <1>2 DEF Since, Interrupted
  <2>6. CASE c.time > s.cells[k].time /\ Yields(s.infra, c)
    <3>1. t.infra = Put(s.infra, c)
      BY <2>1, <2>6 DEF MergeCell, MergeInterruption, State
    <3>2. k \in DOMAIN t.infra /\ t.infra[k] = c
      BY <3>1, <1>2, PutShape
    <3>3. \A d \in Since(s, past, k) : d.time <= c.time
      BY <2>5, <2>6, <1>2, MapShape DEF KeepsAt, Newest, Yields
    <3>4. Newest(c, Since(s, past, k) \cup {c})
      BY <3>3, <1>2 DEF Newest
    <3>5. KeepsAt(t, past \cup {c}, k)
      BY <2>4, <2>6, <3>2, <3>4 DEF KeepsAt
    <3> QED BY <2>3, <3>5
  <2>7. CASE ~(c.time > s.cells[k].time /\ Yields(s.infra, c))
    <3>1. t.infra = s.infra
      BY <2>1, <2>7 DEF MergeCell, MergeInterruption, State
    <3>2. CASE ~(c.time > s.cells[k].time)
      BY <3>1, <3>2, <2>3, <2>4 DEF KeepsAt
    <3>3. CASE c.time > s.cells[k].time /\ ~Yields(s.infra, c)
      <4>1. k \in DOMAIN s.infra /\ c.time <= s.infra[k].time
        BY <3>3, <1>2, MapShape DEF Yields
      <4> QED BY <3>1, <3>3, <4>1, <2>3, <2>4 DEF KeepsAt, Newest
    <3> QED BY <2>7, <3>2, <3>3
  <2> QED BY <2>6, <2>7
<1>4. CASE Concluded(past, k) = {}
  <2>1. k \in DOMAIN s.cells => s.cells[k].status = Infra /\ s.cells[k].time \in Nat
    BY <1>4, <1>2, MapShape DEF ShowsAt, Newest, Interrupted
  <2>2. t.infra = s.infra /\ k \notin DOMAIN s.infra
    BY <2>1, <1>4 DEF MergeCell, MergeInterruption, State, KeepsAt, Since
  <2>3. KeepsAt(t, past \cup {c}, k)
    BY <2>2, <1>1, <1>4 DEF KeepsAt, Since
  <2>4. CASE Yields(s.cells, c)
    <3>1. t.cells = Put(s.cells, c)
      BY <2>1, <2>4 DEF MergeCell, MergeInterruption, State
    <3>2. k \in DOMAIN t.cells /\ t.cells[k] = c
      BY <3>1, <1>2, PutShape
    <3>3. \A d \in Interrupted(past, k) : d.time <= c.time
      BY <2>1, <2>4, <1>2, <1>4 DEF ShowsAt, Newest, Yields, Interrupted
    <3>4. Newest(c, Interrupted(past, k) \cup {c})
      BY <3>3, <1>2 DEF Newest
    <3>5. ShowsAt(t, past \cup {c}, k)
      BY <1>1, <1>4, <3>2, <3>4 DEF ShowsAt
    <3> QED BY <2>3, <3>5
  <2>5. CASE ~Yields(s.cells, c)
    <3>1. t.cells = s.cells
      BY <2>1, <2>5 DEF MergeCell, MergeInterruption, State
    <3>2. k \in DOMAIN s.cells /\ c.time <= s.cells[k].time
      BY <2>1, <2>5, <1>2 DEF Yields
    <3> QED BY <2>3, <3>1, <3>2, <1>1, <1>4 DEF ShowsAt, Newest
  <2> QED BY <2>4, <2>5
<1> QED BY <1>3, <1>4

\* A conclusion merged under its key.
LEMMA ConclusionSound ==
    ASSUME NEW s \in State, NEW past \in SUBSET Cell, NEW c \in Cell, c.status # Infra,
           ShowsAt(s, past, c.key), KeepsAt(s, past, c.key)
    PROVE  /\ ShowsAt(MergeCell(s, c), past \cup {c}, c.key)
           /\ KeepsAt(MergeCell(s, c), past \cup {c}, c.key)
<1> DEFINE k == c.key
           t == MergeCell(s, c)
           kept == SetAside(s, c)
<1> USE CellAssumption
<1>1. /\ Concluded(past \cup {c}, k) = Concluded(past, k) \cup {c}
      /\ Interrupted(past \cup {c}, k) = Interrupted(past, k)
  BY DEF Concluded, Interrupted
<1>2. s.cells \in Maps /\ s.infra \in Maps /\ \A d \in Cell : d.time \in Nat
  BY DEF State, Cell
<1>3. c.time \in Nat /\ \A d \in past : d.time \in Nat
  BY <1>2
<1>4. Interrupted(past, k) \subseteq past /\ Concluded(past, k) \subseteq past
  BY DEF Interrupted, Concluded
\* The conclusion shown is newer and stays.
<1>5. CASE Concluded(past, k) # {} /\ ~Yields(s.cells, c)
  <2>1. k \in DOMAIN s.cells /\ Newest(s.cells[k], Concluded(past, k))
    BY <1>5 DEF ShowsAt
  <2>2. s.cells[k].status # Infra /\ s.cells[k].time \in Nat
    BY <2>1, <1>3, <1>4 DEF Newest, Concluded
  <2>3. t = s
    BY <1>5, <2>2 DEF MergeCell, MergeConclusion
  <2>4. c.time <= s.cells[k].time
    BY <1>5, <2>2, <1>3 DEF Yields
  <2>5. Newest(s.cells[k], Concluded(past, k) \cup {c})
    BY <2>1, <2>4 DEF Newest
  <2>6. Since(s, past \cup {c}, k) = Since(s, past, k)
    BY <1>1, <1>5 DEF Since
  <2> QED BY <2>1, <2>3, <2>5, <2>6, <1>1 DEF ShowsAt, KeepsAt
\* Otherwise this one takes the cell.
<1>6. CASE Concluded(past, k) = {} \/ Yields(s.cells, c)
  <2>1. Newest(c, Concluded(past, k) \cup {c})
    <3>1. CASE Concluded(past, k) = {}
      BY <3>1, <1>3 DEF Newest
    <3>2. CASE Concluded(past, k) # {} /\ Yields(s.cells, c)
      <4>1. k \in DOMAIN s.cells /\ Newest(s.cells[k], Concluded(past, k))
        BY <3>2 DEF ShowsAt
      <4>2. s.cells[k].time <= c.time /\ s.cells[k].time \in Nat
        BY <3>2, <4>1, <1>3, <1>4 DEF Yields, Newest
      <4> QED BY <4>1, <4>2, <1>3, <1>4 DEF Newest
    <3> QED BY <1>6, <3>1, <3>2
  <2>2. Concluded(past, k) = {} /\ k \in DOMAIN s.cells =>
          s.cells[k].status = Infra /\ Newest(s.cells[k], Interrupted(past, k))
    BY DEF ShowsAt, Newest, Interrupted
  <2>3. t = [cells |-> Put(s.cells, c),
             infra |-> IF Outdated(kept, c) THEN Drop(kept, k) ELSE kept]
    BY <1>6, <2>2 DEF MergeCell, MergeConclusion, Yields
  <2>4. k \in DOMAIN t.cells /\ t.cells[k] = c
    BY <2>3, <1>2, PutShape
  <2>5. ShowsAt(t, past \cup {c}, k)
    BY <1>1, <2>1, <2>4 DEF ShowsAt
  <2>6. Since(t, past \cup {c}, k) = {d \in Interrupted(past, k) : d.time > c.time}
    BY <1>1, <2>4 DEF Since
  \* Before it is thinned out, `kept' holds the newest interruption of all
  \* that can still matter.
  <2>7. /\ k \in DOMAIN kept => kept[k] \in Interrupted(past, k) /\ kept[k].time \in Nat
        /\ \A d \in Interrupted(past, k) : d.time > c.time =>
              k \in DOMAIN kept /\ d.time <= kept[k].time
    <3>1. CASE Concluded(past, k) = {}
      <4>1. k \notin DOMAIN s.infra
        BY <3>1 DEF KeepsAt, Since
      <4>2. CASE k \notin DOMAIN s.cells
        <5>1. Interrupted(past, k) = {}
          BY <3>1, <4>2 DEF ShowsAt
        <5>2. kept = s.infra
          BY <4>2 DEF SetAside
        <5> QED BY <5>1, <5>2, <4>1
      <4>3. CASE k \in DOMAIN s.cells /\ s.cells[k].time > c.time
        <5>1. s.cells[k] \in Cell /\ s.cells[k].key = k
          BY <4>3, <1>2, MapShape
        <5>2. kept = Put(s.infra, s.cells[k])
          BY <4>3, <2>2, <3>1, <4>1, <5>1 DEF SetAside, Yields
        <5>3. k \in DOMAIN kept /\ kept[k] = s.cells[k]
          BY <5>1, <5>2, <1>2, PutShape
        <5> QED BY <5>3, <2>2, <3>1, <4>3, <1>3, <1>4 DEF Newest
      <4>4. CASE k \in DOMAIN s.cells /\ ~(s.cells[k].time > c.time)
        <5>1. kept = s.infra
          BY <4>4 DEF SetAside
        <5>2. \A d \in Interrupted(past, k) : ~(d.time > c.time)
          BY <4>4, <2>2, <3>1, <1>3, <1>4 DEF Newest
        <5> QED BY <5>1, <5>2, <4>1
      <4> QED BY <4>2, <4>3, <4>4
    <3>2. CASE Concluded(past, k) # {}
      <4>1. k \in DOMAIN s.cells /\ Newest(s.cells[k], Concluded(past, k))
        BY <3>2 DEF ShowsAt
      <4>2. s.cells[k].status # Infra /\ s.cells[k].time \in Nat /\ s.cells[k].time <= c.time
        BY <3>2, <4>1, <1>3, <1>4, <1>6 DEF Newest, Concluded, Yields
      <4>3. kept = s.infra
        BY <4>2 DEF SetAside
      <4>4. k \in DOMAIN kept => Newest(kept[k], Since(s, past, k))
        BY <4>3 DEF KeepsAt
      <4>5. \A d \in Interrupted(past, k) : d.time > c.time => d \in Since(s, past, k)
        BY <3>2, <4>2, <1>3, <1>4 DEF Since
      <4>6. Since(s, past, k) # {} => k \in DOMAIN kept
        BY <4>3 DEF KeepsAt
      <4>7. Since(s, past, k) \subseteq Interrupted(past, k)
        BY DEF Since
      <4> QED BY <4>4, <4>5, <4>6, <4>7, <1>3, <1>4 DEF Newest
    <3> QED BY <3>1, <3>2
  <2>8. KeepsAt(t, past \cup {c}, k)
    <3>1. kept \in Maps
      BY AsideShape
    <3> HIDE DEF kept
    <3>2. CASE Outdated(kept, c)
      <4>1. k \notin DOMAIN t.infra
        BY <2>3, <3>1, <3>2, DropShape
      <4>2. \A d \in Interrupted(past, k) : ~(d.time > c.time)
        BY <2>7, <3>2, <1>3, <1>4 DEF Outdated
      <4> QED BY <4>1, <4>2, <2>6 DEF KeepsAt
    <3>3. CASE ~Outdated(kept, c)
      <4>1. t.infra = kept
        BY <2>3, <3>3
      <4>2. k \in DOMAIN kept => kept[k].time > c.time
        BY <2>7, <3>3, <1>3 DEF Outdated
      <4> QED BY <4>1, <4>2, <2>6, <2>7 DEF KeepsAt, Newest
    <3> QED BY <3>2, <3>3
  <2> QED BY <2>5, <2>8
<1> QED BY <1>5, <1>6

-----------------------------------------------------------------------------
\* The file says of the results of `past' what they say.
Tells(file, past) == ShowsNewest(file, past) /\ KeepsInterruption(file, past)

\* A file that tells its past still does with one result more, whichever it
\* is: newer or older, of another key, or merged before.
THEOREM MergeTells ==
    ASSUME NEW s \in State, NEW past \in SUBSET Cell, NEW c \in Cell, Tells(s, past)
    PROVE  MergeCell(s, c) \in State /\ Tells(MergeCell(s, c), past \cup {c})
<1> USE DEF Tells, ShowsNewest, KeepsInterruption
<1>1. ASSUME NEW k \in Keys
      PROVE  ShowsAt(MergeCell(s, c), past \cup {c}, k) /\ KeepsAt(MergeCell(s, c), past \cup {c}, k)
  <2>1. CASE k # c.key
    BY <2>1, OtherKey
  <2>2. CASE k = c.key
    BY <2>2, InterruptionSound, ConclusionSound
  <2> QED BY <2>1, <2>2
<1> QED BY <1>1, MergeShape

LEMMA EmptyTells == EmptyState \in State /\ Tells(EmptyState, {})
<1> USE DEF EmptyState
<1>1. EmptyState \in State
  BY MapShape DEF State
<1>2. \A k \in Keys : Concluded({}, k) = {} /\ Interrupted({}, k) = {}
  BY DEF Concluded, Interrupted
<1> QED BY <1>1, <1>2 DEF Tells, ShowsNewest, KeepsInterruption, ShowsAt, KeepsAt, Since
=============================================================================
