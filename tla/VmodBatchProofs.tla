-------------------------- MODULE VmodBatchProofs --------------------------
(* What a batch reports and what it caches, for every batch, every number  *)
(* of runs, and every version of the inputs.                               *)
EXTENDS VmodBatch, TLAPS, WellFoundedInduction, SequenceTheorems

\* Inside a cell there is a result, and save_cell has one that it accepts.
SaveSteps == {"manifest", "result", "packages", "copy"}

Underway ==
    /\ step # "build" => next <= Len(Order) /\ results[Cell] # {}
    /\ step \in SaveSteps => /\ Eligible(Cell)
                             /\ \A r \in results[Cell] : r.status \in Conclusive

TypeInv == TypeOK /\ Underway

-----------------------------------------------------------------------------
(* The newest of some snapshots *)

Above == {p \in Nat \X Nat : p[1] < p[2]}

LEMMA AboveWellFounded == IsWellFoundedOn(Above, Nat)
<1>1. \A i, j \in Nat : <<i, j>> \in OpToRel(<, Nat) <=> <<i, j>> \in Above
  BY Zenon DEF OpToRel, Above
<1>2. IsWellFoundedOn(OpToRel(<, Nat), Nat)
  BY NatLessThanWellFounded, Zenon
<1> QED BY <1>1, <1>2, Zenon DEF OpToRel, Above

\* A set of positions that is not empty has a last one.
LEMMA NewestExists ==
    ASSUME NEW n \in Nat, NEW is \in SUBSET (1..n), is # {}
    PROVE  Newest(is) \in is
<1> DEFINE back == {k \in Nat : n - k \in is}
<1>1. back \subseteq Nat /\ back # {}
  <2>1. \A i \in is : n - i \in Nat /\ n - (n - i) = i
    OBVIOUS
  <2> QED BY <2>1
<1>2. PICK m \in back : \A k \in back : ~(<<k, m>> \in Above)
  BY <1>1, AboveWellFounded, WFMin, Zenon
<1>3. \A k, l \in Nat : k < l => <<k, l>> \in Above
  BY Zenon DEF Above
<1>4. \A k \in back : ~(k < m)
  BY <1>1, <1>2, <1>3
<1>5. n - m \in is /\ \A j \in is : j <= n - m
  <2>1. \A j \in is : n - j \in Nat /\ n - (n - j) = j
    OBVIOUS
  <2> QED BY <1>4, <2>1
<1> QED BY <1>5 DEF Newest

\* actions/cache hands out a saved directory or none.
LEMMA RestoredShape ==
    ASSUME NEW key, Len(store) \in Nat
    PROVE  /\ Restored(key).hit \in {"exact", "prefix", "none"}
           /\ \/ Restored(key).dir = NoCells
              \/ \E i \in 1..Len(store) : Restored(key).dir = store[i].dir
<1>1. CASE Exact(key) # {}
  <2>1. Newest(Exact(key)) \in 1..Len(store)
    BY <1>1, NewestExists DEF Exact
  <2> QED BY <1>1, <2>1 DEF Restored
<1>2. CASE Exact(key) = {} /\ Prefix(key) # {}
  <2>1. Newest(Prefix(key)) \in 1..Len(store)
    BY <1>2, NewestExists DEF Prefix
  <2> QED BY <1>2, <2>1 DEF Restored
<1>3. CASE Exact(key) = {} /\ Prefix(key) = {}
  BY <1>3 DEF Restored
<1> QED BY <1>1, <1>2, <1>3

\* What is left of the store once a snapshot is dropped was there before.
Without(s, i) == SubSeq(s, 1, i - 1) \o SubSeq(s, i + 1, Len(s))

LEMMA EvictedShape ==
    ASSUME NEW s \in Seq(Snapshot), NEW i \in 1..Len(s)
    PROVE  /\ Without(s, i) \in Seq(Snapshot)
           /\ \A j \in 1..Len(Without(s, i)) : \E k \in 1..Len(s) : Without(s, i)[j] = s[k]
<1> DEFINE t == Without(s, i)
           u == SubSeq(s, 1, i - 1)
           v == SubSeq(s, i + 1, Len(s))
<1>1. u \in Seq(Snapshot) /\ Len(u) = i - 1 /\ \A j \in 1..Len(u) : u[j] = s[j]
  OBVIOUS
<1>2. v \in Seq(Snapshot) /\ Len(v) = Len(s) - i /\ \A j \in 1..Len(v) : v[j] = s[i + j]
  OBVIOUS
<1> HIDE DEF t, u, v
<1>3. /\ t \in Seq(Snapshot) /\ Len(t) = Len(u) + Len(v)
      /\ \A j \in 1..Len(u) + Len(v) : t[j] = IF j <= Len(u) THEN u[j] ELSE v[j - Len(u)]
  <2>1. t = u \o v
    BY DEF t, u, v, Without
  <2>2. u \in Seq(Snapshot) /\ v \in Seq(Snapshot)
    BY <1>1, <1>2
  <2>3. /\ u \o v \in Seq(Snapshot)
        /\ Len(u \o v) = Len(u) + Len(v)
        /\ \A j \in 1..Len(u) + Len(v) :
              (u \o v)[j] = IF j <= Len(u) THEN u[j] ELSE v[j - Len(u)]
    BY <2>2, ConcatProperties, Zenon
  <2> QED BY <2>1, <2>3
<1>4. Len(u) \in Nat /\ Len(v) \in Nat
  BY <1>1, <1>2
<1>5. ASSUME NEW j \in 1..Len(t) PROVE \E k \in 1..Len(s) : t[j] = s[k]
  <2> Len(s) \in Nat
    OBVIOUS
  <2> j \in 1..Len(u) + Len(v)
    BY <1>3, Zenon
  <2>1. CASE j <= Len(u)
    BY <1>1, <1>3, <2>1
  <2>2. CASE ~(j <= Len(u))
    <3>1. j - Len(u) \in 1..Len(v)
      BY <1>4, <2>2
    <3>2. t[j] = s[i + (j - Len(u))]
      BY <1>2, <1>3, <2>2, <3>1
    <3>3. i + (j - Len(u)) \in 1..Len(s)
      BY <1>2, <3>1
    <3> QED BY <3>2, <3>3
  <2> QED BY <2>1, <2>2
<1> QED BY <1>3, <1>5 DEF t

-----------------------------------------------------------------------------
(* Types *)

LEMMA FingerprintType ==
    ASSUME TypeOK, NEW c \in Cells
    PROVE  /\ Fingerprint(c) \in Inputs /\ Real(c) \in Inputs
           /\ <<>> \in Inputs /\ Torn \in Inputs
<1>1. contract \in Contracts /\ commit \in Commits /\ seen[c] \in Versions \cup {Missing}
  BY DEF TypeOK
<1>2. CommitIn(engine) \in Commits \cup {Unnamed}
  BY <1>1 DEF CommitIn
<1> QED BY <1>1, <1>2 DEF Inputs, Fingerprint, Real

LEMMA CellType ==
    ASSUME TypeOK, next <= Len(Order)
    PROVE  Cell \in Cells
BY BatchAssumption DEF TypeOK, Cell

\* The result at work, and what the directory had before.
LEMMA FreshType ==
    ASSUME TypeInv, step # "build"
    PROVE  /\ Cell \in Cells
           /\ Fresh(Cell) \in results[Cell] /\ Fresh(Cell) \in Shown
           /\ \A r \in results[Cell] : r = Fresh(Cell)
           /\ step \in SaveSteps => Fresh(Cell).status \in Conclusive
<1>1. Cell \in Cells
  BY CellType DEF TypeInv, Underway
<1>2. Fresh(Cell) \in results[Cell]
  BY DEF TypeInv, Underway, Fresh
<1>3. results[Cell] \subseteq Shown /\ AtMostOne(results[Cell])
  BY <1>1 DEF Outcomes, TypeInv, TypeOK
<1> QED BY <1>1, <1>2, <1>3 DEF TypeInv, Underway, AtMostOne

LEMMA KeptType ==
    ASSUME TypeOK, NEW c \in Cells
    PROVE  /\ Kept(c).status \in Conclusive \cup {"none"}
           /\ Kept(c).of \in Inputs /\ Kept(c).packages \in Inputs
           /\ \A e \in dir[c] : e = Kept(c)
<1>1. <<>> \in Inputs /\ dir[c] \subseteq Saved /\ AtMostOne(dir[c])
  BY FingerprintType DEF Dirs, TypeOK
<1>2. CASE dir[c] = {}
  BY <1>1, <1>2 DEF Kept, NoVerdict
<1>3. CASE dir[c] # {}
  <2>1. Kept(c) \in dir[c]
    BY <1>3 DEF Kept
  <2> QED BY <1>1, <2>1 DEF Saved, AtMostOne
<1> QED BY <1>2, <1>3

LEMMA CollectedType ==
    ASSUME TypeInv, step # "build"
    PROVE  /\ Collected \in Shown
           /\ Collected.status = Fresh(Cell).status /\ Collected.of = Fresh(Cell).of
           /\ Collected.packages = IF step = "restore" THEN Kept(Cell).packages
                                   ELSE IF mode = "package" /\ Fresh(Cell).status = "pass"
                                        THEN Real(Cell) ELSE <<>>
<1>1. Cell \in Cells /\ Fresh(Cell) \in Shown
  BY FreshType
<1>2. Kept(Cell).packages \in Inputs /\ Real(Cell) \in Inputs /\ <<>> \in Inputs
  BY <1>1, KeptType, FingerprintType DEF TypeInv
<1> QED BY <1>1, <1>2 DEF Collected, Shown

LEMMA EntryType ==
    ASSUME TypeOK, Cell \in Cells, NEW fingerprint \in Inputs, NEW packages \in Inputs,
           NEW verdict, verdict.status \in Conclusive \cup {"none"}, verdict.of \in Inputs
    PROVE  [dir EXCEPT ![Cell] = Entry(fingerprint, verdict, packages)] \in Dirs
<1>1. /\ Entry(fingerprint, verdict, packages) \subseteq Saved
      /\ AtMostOne(Entry(fingerprint, verdict, packages))
  BY DEF Entry, Saved, AtMostOne
<1> QED BY <1>1 DEF TypeOK, Dirs

LEMMA HalfSavedType ==
    ASSUME TypeInv, step \in SaveSteps
    PROVE  [dir EXCEPT ![Cell] = HalfSaved] \in Dirs
<1>1. /\ Cell \in Cells /\ Fresh(Cell) \in Shown /\ Fresh(Cell).status \in Conclusive
      /\ step # "build"
  BY FreshType DEF SaveSteps
<1>2. /\ Fingerprint(Cell) \in Inputs /\ <<>> \in Inputs /\ Torn \in Inputs
      /\ Kept(Cell).status \in Conclusive \cup {"none"}
      /\ Kept(Cell).of \in Inputs /\ Kept(Cell).packages \in Inputs
  BY <1>1, FingerprintType, KeptType DEF TypeInv
<1>3. /\ Fresh(Cell).of \in Inputs
      /\ NoVerdict.status \in Conclusive \cup {"none"} /\ NoVerdict.of \in Inputs
  BY <1>1, <1>2 DEF Shown, NoVerdict
<1>4. CASE step = "manifest"
  <2>1. HalfSaved = Entry(<<>>, Kept(Cell), Kept(Cell).packages)
    BY <1>4 DEF HalfSaved
  <2> QED BY <1>1, <1>2, <2>1, EntryType DEF TypeInv
<1>5. CASE step = "result"
  <2>1. HalfSaved = Entry(Fingerprint(Cell), NoVerdict, Kept(Cell).packages)
    BY <1>5 DEF HalfSaved
  <2> QED BY <1>1, <1>2, <1>3, <2>1, EntryType DEF TypeInv
<1>6. CASE step \in {"packages", "copy"}
  <2>1. PICK p \in Inputs : HalfSaved = Entry(Fingerprint(Cell), Fresh(Cell), p)
    <3>1. CASE step = "packages"
      BY <1>2, <3>1 DEF HalfSaved
    <3>2. CASE step = "copy"
      BY <1>2, <3>2 DEF HalfSaved
    <3> QED BY <1>6, <3>1, <3>2
  <2> QED BY <1>1, <1>2, <1>3, <2>1, EntryType DEF TypeInv
<1> QED BY <1>4, <1>5, <1>6 DEF SaveSteps

LEMMA ResultType ==
    ASSUME TypeOK, NEW c \in Cells, NEW R, R \subseteq Shown, AtMostOne(R)
    PROVE  [results EXCEPT ![c] = R] \in Outcomes
BY DEF TypeOK, Outcomes

LEMMA VerdictType ==
    ASSUME TypeOK, Cell \in Cells, NEW status \in Conclusive \cup {"infra_failed"}
    PROVE  [results EXCEPT ![Cell] = Verdict(Cell, status)] \in Outcomes
<1>1. Verdict(Cell, status) \subseteq Shown /\ AtMostOne(Verdict(Cell, status))
  BY FingerprintType DEF Verdict, Shown, AtMostOne
<1> QED BY <1>1, ResultType

LEMMA NothingYet == NoCells \in Dirs /\ NoCells \in Outcomes
  BY DEF NoCells, Dirs, Outcomes, AtMostOne

LEMMA StoreShape ==
    ASSUME TypeOK
    PROVE  /\ Len(store) \in Nat
           /\ \A i \in 1..Len(store) : store[i] \in Snapshot /\ store[i].dir \in Dirs
<1>1. store \in Seq(Snapshot)
  BY DEF TypeOK
<1>2. Len(store) \in Nat /\ \A i \in 1..Len(store) : store[i] \in Snapshot
  BY <1>1
<1> QED BY <1>2 DEF Snapshot

LEMMA TypeInit == Init => TypeInv
<1> SUFFICES ASSUME Init PROVE TypeInv
  OBVIOUS
<1>1. seen \in [Cells -> Versions \cup {Missing}] /\ store \in Seq(Snapshot)
  BY DEF Init
<1>2. dir \in Dirs /\ results \in Outcomes
  BY NothingYet DEF Init
<1>3. runs \in 0..MaxRuns /\ slow \in 0..JobLimit /\ next \in 1..Len(Order) + 1
  BY BatchAssumption DEF Init
<1>4. mode \in {"package", "compat"}
  BY BatchAssumption DEF Init
<1> QED BY <1>1, <1>2, <1>3, <1>4 DEF Init, TypeInv, TypeOK, Underway, SaveSteps

LEMMA TypeStep == TypeInv /\ [Next]_vars => TypeInv'
<1> SUFFICES ASSUME TypeInv, [Next]_vars PROVE TypeInv'
  OBVIOUS
<1> USE DEF TypeInv
<1>1. Len(Order) \in Nat /\ MaxRuns \in Nat /\ JobLimit \in Nat
  BY BatchAssumption
<1>2. CASE Change
  BY <1>2 DEF Change, TypeOK, Underway, Eligible, Cell, job
<1>3. CASE Evict
  <2>1. store' \in Seq(Snapshot)
    BY <1>3, EvictedShape DEF Evict, TypeOK, Without
  <2> QED BY <1>3, <2>1 DEF Evict, TypeOK, Underway, Eligible, Cell, job, world
<1>4. CASE Start
  <2>1. /\ engine' \in {"whole", "part", "none"} /\ seen' \in [Cells -> Versions \cup {Missing}]
        /\ runs' \in 0..MaxRuns
    BY <1>1, <1>4, BatchAssumption DEF Start, TypeOK
  <2>2. Len(store) \in Nat /\ \A i \in 1..Len(store) : store[i].dir \in Dirs
    BY StoreShape
  <2>3. hit' \in {"exact", "prefix", "none"} /\ dir' \in Dirs
    BY <1>4, <2>2, RestoredShape, NothingYet DEF Start
  <2> QED BY <1>1, <1>4, <2>1, <2>3, NothingYet DEF Start, TypeOK, Underway, SaveSteps, world
<1>5. CASE Hit
  <2>1. Cell \in Cells
    BY <1>5, CellType DEF Hit, Driving
  <2> DEFINE shown == {[status |-> e.status, of |-> e.of, packages |-> <<>>] : e \in dir[Cell]}
  <2>2. dir[Cell] \subseteq Saved /\ AtMostOne(dir[Cell]) /\ dir[Cell] # {}
    BY <1>5, <2>1 DEF TypeOK, Dirs, Hit, Usable
  <2>3. \A e \in dir[Cell] : e.status \in Conclusive
    BY <1>5, <2>2 DEF Hit, Usable, AtMostOne
  <2>4. shown \subseteq Shown /\ AtMostOne(shown) /\ shown # {}
    <3>1. PICK e \in dir[Cell] : TRUE
      BY <2>2
    <3>2. shown = {[status |-> e.status, of |-> e.of, packages |-> <<>>]}
      BY <2>2, <3>1 DEF AtMostOne
    <3>3. e \in Saved /\ e.status \in Conclusive /\ <<>> \in Inputs
      BY <2>2, <2>3, <3>1 DEF Inputs
    <3>4. [status |-> e.status, of |-> e.of, packages |-> <<>>] \in Shown
      BY <3>3 DEF Saved, Shown
    <3> QED BY <3>2, <3>4 DEF AtMostOne
  <2>5. results' = [results EXCEPT ![Cell] = shown]
    BY <1>5 DEF Hit
  <2> HIDE DEF shown
  <2>6. results' \in Outcomes /\ results'[Cell] # {}
    BY <2>1, <2>4, <2>5, ResultType DEF TypeOK, Outcomes
  <2> QED BY <1>5, <2>6 DEF Hit, Driving, TypeOK, Underway, SaveSteps, Cell, world, job
<1>6. CASE Restore
  <2>1. Collected \in Shown /\ Cell \in Cells
    BY <1>6, CollectedType, FreshType DEF Restore, Driving
  <2>2. results' \in Outcomes
    BY <1>6, <2>1, ResultType DEF Restore, AtMostOne
  <2>3. next' \in 1..Len(Order) + 1
    BY <1>1, <1>6 DEF Restore, Driving, GoOn, TypeOK
  <2> QED BY <1>6, <2>2, <2>3 DEF Restore, GoOn, TypeOK, Underway, SaveSteps, world, job
<1>7. CASE Build \/ TimeOut
  <2>1. Cell \in Cells
    BY <1>7, CellType DEF Build, TimeOut, Driving
  <2>2. PICK status \in Conclusive \cup {"infra_failed"} :
          results' = [results EXCEPT ![Cell] = Verdict(Cell, status)]
    BY <1>7 DEF Build, TimeOut
  <2>3. results' \in Outcomes /\ results'[Cell] # {}
    BY <2>1, <2>2, VerdictType DEF TypeOK, Outcomes, Verdict
  <2>4. slow' \in 0..JobLimit
    BY <1>1, <1>7 DEF Build, TimeOut, TypeOK
  <2> QED BY <1>7, <2>3, <2>4
          DEF Build, TimeOut, Driving, TypeOK, Underway, SaveSteps, Cell, world, job
<1>8. CASE Collect
  <2>1. Collected \in Shown /\ Cell \in Cells
    BY <1>8, CollectedType, FreshType DEF Collect, Driving
  <2>2. results' \in Outcomes /\ results'[Cell] = {Collected}
    BY <1>8, <2>1, ResultType DEF Collect, AtMostOne, TypeOK, Outcomes
  <2>3. next' \in 1..Len(Order) + 1
    BY <1>1, <1>8 DEF Collect, Driving, GoOn, TypeOK
  <2>4. Underway'
    <3>1. CASE Savable(Collected)
      BY <1>8, <2>2, <3>1 DEF Collect, Driving, Underway, Eligible, Savable, Cell, job
    <3>2. CASE ~Savable(Collected)
      BY <1>8, <3>2 DEF Collect, GoOn, Underway, SaveSteps
    <3> QED BY <3>1, <3>2
  <2>5. step' \in {"build", "manifest"}
    BY <1>8 DEF Collect, GoOn
  <2> QED BY <1>8, <2>2, <2>3, <2>4, <2>5 DEF Collect, TypeOK, world, job
<1>9. CASE SaveManifest \/ SaveResult \/ RemovePackages
  <2>1. step \in SaveSteps /\ step' \in SaveSteps /\ step # "build"
    BY <1>9 DEF SaveManifest, SaveResult, RemovePackages, Driving, SaveSteps
  <2>2. /\ Cell \in Cells /\ Fresh(Cell).status \in Conclusive /\ Fresh(Cell).of \in Inputs
        /\ Fingerprint(Cell) \in Inputs /\ <<>> \in Inputs
    BY <2>1, FreshType, FingerprintType DEF Shown
  <2>3. dir' \in Dirs
    BY <1>9, <2>2, KeptType, EntryType DEF SaveManifest, SaveResult, RemovePackages
  <2>4. step' \in {"result", "packages", "copy"}
    BY <1>9 DEF SaveManifest, SaveResult, RemovePackages
  <2> QED BY <1>9, <2>1, <2>3, <2>4
          DEF SaveManifest, SaveResult, RemovePackages, TypeOK, Underway, Eligible, Cell, world, job
<1>10. CASE SavePackages
  <2>1. step \in SaveSteps /\ step # "build"
    BY <1>10 DEF SavePackages, Driving, SaveSteps
  <2>2. dir' \in Dirs
    BY <1>10, <2>1, FreshType, FingerprintType, EntryType DEF SavePackages, Shown
  <2>3. next' \in 1..Len(Order) + 1
    BY <1>1, <1>10 DEF SavePackages, Driving, GoOn, TypeOK
  <2> QED BY <1>10, <2>2, <2>3 DEF SavePackages, GoOn, TypeOK, Underway, SaveSteps, world, job
<1>11. CASE Raise
  <2>1. dir' \in Dirs
    BY <1>11, HalfSavedType DEF Raise, SaveSteps, TypeOK
  <2>2. /\ results' \in Outcomes
        /\ results' = results \/ (step \notin SaveSteps /\ results'[Cell] # {})
    <3>1. CASE results' = results
      BY <3>1 DEF TypeOK
    <3>2. CASE results' # results
      <4>1. /\ step \in {"restore", "collect"}
            /\ results' = [results EXCEPT ![Cell] = {[Collected EXCEPT !.packages = Torn]}]
        BY <1>11, <3>2 DEF Raise
      <4>2. Cell \in Cells /\ Collected \in Shown /\ Torn \in Inputs
        BY <4>1, FreshType, CollectedType, FingerprintType
      <4>3. [Collected EXCEPT !.packages = Torn] \in Shown
        BY <4>2 DEF Shown
      <4> QED BY <4>1, <4>2, <4>3, ResultType DEF AtMostOne, SaveSteps, TypeOK, Outcomes
    <3> QED BY <3>1, <3>2
  <2> QED BY <1>11, <2>1, <2>2 DEF Raise, TypeOK, Underway, Eligible, Cell, world, job
<1>12. CASE JobTimeout \/ DriverEnds
  BY <1>12 DEF JobTimeout, DriverEnds, TypeOK, Underway, Eligible, Cell, world, job
<1>13. CASE SaveSnapshot
  <2>1. [key |-> Key, dir |-> dir, clean |-> Clean] \in Snapshot
    BY DEF Key, KeyOf, CommitIn, Keys, Snapshot, Clean, TypeOK
  <2>2. store' \in Seq(Snapshot)
    BY <1>13, <2>1 DEF SaveSnapshot, TypeOK
  <2> QED BY <1>13, <2>2 DEF SaveSnapshot, TypeOK, Underway, Eligible, Cell, world, job
<1>14. CASE Upload
  <2>1. seen' \in [Cells -> Versions \cup {Missing}]
    BY <1>14 DEF Upload, TypeOK
  <2>2. next' \in 1..Len(Order) + 1 /\ slow' \in 0..JobLimit
    BY <1>1, <1>14 DEF Upload
  <2>3. dir' \in Dirs /\ results' \in Outcomes
    BY <1>14, NothingYet DEF Upload
  <2> QED BY <1>14, <2>1, <2>2, <2>3 DEF Upload, TypeOK, Underway, SaveSteps, world
<1>15. CASE UNCHANGED vars
  BY <1>15 DEF vars, world, job, TypeOK, Underway, Eligible, Cell
<1> QED
  BY <1>2, <1>3, <1>4, <1>5, <1>6, <1>7, <1>8, <1>9, <1>10, <1>11, <1>12, <1>13, <1>14, <1>15
  DEF Next

\* In every run of every batch the variables keep their types.
THEOREM TypeCorrect == Spec => []TypeOK
<1>1. TypeInv => TypeOK
  BY DEF TypeInv
<1> QED BY TypeInit, TypeStep, <1>1, PTL DEF Spec

-----------------------------------------------------------------------------
(* Between runs *)

\* Nothing of a run is left when it is over.
AtRest == pc = "idle" => dir = NoCells /\ results = NoCells /\ step = "build"

LEMMA AtRestStep == AtRest /\ [Next]_vars => AtRest'
<1> SUFFICES ASSUME AtRest, [Next]_vars, pc' = "idle"
             PROVE  dir' = NoCells /\ results' = NoCells /\ step' = "build"
  BY DEF AtRest
<1>1. CASE Upload
  BY <1>1 DEF Upload
<1>2. CASE pc = "idle" /\ UNCHANGED <<dir, results, step>>
  BY <1>2 DEF AtRest
<1> QED
  BY <1>1, <1>2 DEF Next, vars, world, job, Change, Evict, Start, Hit, Restore, Build,
     TimeOut, Collect, SaveManifest, SaveResult, RemovePackages, SavePackages, Raise,
     JobTimeout, DriverEnds, SaveSnapshot, Driving

\* What a run works on, once it has started.
Given == UNCHANGED <<mode, contract, commit, engine, seen>>

\* No other cell is touched.
Alone == \A c \in Cells : c # Cell => dir'[c] = dir[c] /\ results'[c] = results[c]

LEMMA GivenKept ==
    ASSUME Given
    PROVE  \A c \in Cells : /\ Fingerprint(c)' = Fingerprint(c) /\ Real(c)' = Real(c)
                            /\ Eligible(c)' = Eligible(c)
BY DEF Given, Fingerprint, Real, CommitIn, Eligible

\* With a whole engine the fingerprint says what a build is made of.
LEMMA FingerprintFits ==
    ASSUME NEW c \in Cells, Eligible(c)
    PROVE  Fingerprint(c) = Real(c) /\ Real(c) # <<>>
BY DEF Eligible, Fingerprint, Real, CommitIn

-----------------------------------------------------------------------------
(* Snapshots, wherever the driver may raise *)

\* The one cell whose result is not in the directory yet.
Unsaved == {"collect"} \cup SaveSteps
Pending(c) == step \in Unsaved /\ c = Cell

\* A verdict among the results R is in the entry D as well.
Holds(c, R, D) ==
    engine = "whole" /\ (\E r \in R : r.status \in Conclusive) =>
        \E e \in D : e.status \in Conclusive /\ e.fingerprint = Fingerprint(c)

DirHolds == \A c \in Cells : ~Pending(c) => Holds(c, results[c], dir[c])

\* Nothing is concluded of a cell without its source.
SourceSeen == \A c \in Cells : \A r \in results[c] : r.status \in Conclusive => seen[c] # Missing

HoldsInv == DirHolds /\ SourceSeen

WholeInv == TypeInv /\ AtRest /\ HoldsInv /\ SnapshotsWhole

\* What a step of the driver has to show of its cell.
LEMMA HoldsStep ==
    ASSUME HoldsInv, Cell \in Cells, Given, Alone,
           \A r \in results'[Cell] : r.status \in Conclusive => seen[Cell] # Missing,
           \/ step' \in Unsaved /\ next' = next
           \/ Holds(Cell, results'[Cell], dir'[Cell])
    PROVE  HoldsInv'
<1>1. \A c \in Cells : c # Cell => Holds(c, results[c], dir[c])
  BY DEF HoldsInv, DirHolds, Pending
<1>2. \A c \in Cells : ~Pending(c)' => Holds(c, results'[c], dir'[c])
  <2> SUFFICES ASSUME NEW c \in Cells, ~Pending(c)' PROVE Holds(c, results'[c], dir'[c])
    OBVIOUS
  <2>1. CASE c # Cell
    BY <1>1, <2>1 DEF Alone
  <2>2. CASE c = Cell
    BY <2>2 DEF Pending, Cell
  <2> QED BY <2>1, <2>2
<1>3. DirHolds'
  BY <1>2, GivenKept DEF DirHolds, Holds, Given
<1>4. SourceSeen'
  BY DEF HoldsInv, SourceSeen, Alone, Given
<1> QED BY <1>3, <1>4 DEF HoldsInv

LEMMA HoldsSame ==
    ASSUME HoldsInv, Given, UNCHANGED <<dir, results, next, step>>
    PROVE  HoldsInv'
<1>1. \A c \in Cells : Pending(c)' = Pending(c)
  BY DEF Pending, Cell
<1>2. DirHolds'
  BY <1>1, GivenKept DEF HoldsInv, DirHolds, Holds, Given
<1> QED BY <1>2 DEF HoldsInv, SourceSeen, Given

LEMMA HoldsNothing ==
    ASSUME results' = NoCells, step' = "build"
    PROVE  HoldsInv'
BY DEF HoldsInv, DirHolds, SourceSeen, Holds, NoCells

LEMMA HoldsNext ==
    ASSUME WholeInv, [Next]_vars
    PROVE  HoldsInv'
<1> USE DEF WholeInv
<1>1. HoldsInv /\ TypeInv /\ TypeOK
  BY DEF TypeInv
<1>2. ASSUME Cell \in Cells
      PROVE  /\ \A R : results' = [results EXCEPT ![Cell] = R] => results'[Cell] = R
             /\ \A D : dir' = [dir EXCEPT ![Cell] = D] => dir'[Cell] = D
             /\ \A R, D : /\ results' = results \/ results' = [results EXCEPT ![Cell] = R]
                          /\ dir' = dir \/ dir' = [dir EXCEPT ![Cell] = D]
                          => Alone
  BY <1>1, <1>2 DEF TypeOK, Outcomes, Dirs, Alone
<1>3. CASE Change \/ Evict
  <2>1. results' = NoCells /\ step' = "build"
    BY <1>3 DEF Change, Evict, AtRest, job
  <2> QED BY <2>1, HoldsNothing
<1>4. CASE Start \/ Upload
  BY <1>4, HoldsNothing DEF Start, Upload
<1>5. CASE Hit
  <2>1. Cell \in Cells /\ Eligible(Cell)
    BY <1>1, <1>5, CellType DEF Hit, Driving, Usable
  <2>2. Given /\ Alone /\ dir' = dir
    BY <1>2, <1>5, <2>1 DEF Hit, Given, world, job
  <2>3. Holds(Cell, results'[Cell], dir'[Cell])
    BY <1>5, <2>2 DEF Hit, Usable, Holds
  <2>4. seen[Cell] # Missing
    BY <2>1 DEF Eligible
  <2> QED BY <1>1, <2>1, <2>2, <2>3, <2>4, HoldsStep
<1>6. CASE Restore
  <2>1. /\ Cell \in Cells /\ Fresh(Cell) \in results[Cell]
        /\ Collected.status = Fresh(Cell).status
    BY <1>1, <1>6, FreshType, CollectedType DEF Restore, Driving
  <2>2. Given /\ Alone /\ dir' = dir /\ results'[Cell] = {Collected}
    BY <1>2, <1>6, <2>1 DEF Restore, Given, world, job
  <2>3. Holds(Cell, results[Cell], dir[Cell])
    BY <1>1, <1>6, <2>1 DEF Restore, Driving, HoldsInv, DirHolds, Pending, Unsaved, SaveSteps
  <2>4. Holds(Cell, results'[Cell], dir'[Cell])
    BY <2>1, <2>2, <2>3 DEF Holds
  <2> QED BY <1>1, <2>1, <2>2, <2>4, HoldsStep DEF HoldsInv, SourceSeen
<1>7. CASE Build \/ TimeOut
  <2>1. Cell \in Cells
    BY <1>1, <1>7, CellType DEF Build, TimeOut, Driving
  <2>2. PICK status \in Conclusive \cup {"infra_failed"} :
          /\ results' = [results EXCEPT ![Cell] = Verdict(Cell, status)]
          /\ ~Buildable(Cell) => status = "infra_failed"
    BY <1>7 DEF Build, TimeOut
  <2>3. Given /\ Alone /\ results'[Cell] = Verdict(Cell, status)
    BY <1>2, <1>7, <2>1, <2>2 DEF Build, TimeOut, Given, world, job
  <2>4. \A r \in results'[Cell] : r.status \in Conclusive => seen[Cell] # Missing
    BY <2>2, <2>3 DEF Verdict, Conclusive, Buildable
  <2>5. step' \in Unsaved /\ next' = next
    BY <1>7 DEF Build, TimeOut, Unsaved
  <2> QED BY <1>1, <2>1, <2>3, <2>4, <2>5, HoldsStep
<1>8. CASE Collect
  <2>1. /\ Cell \in Cells /\ Fresh(Cell) \in results[Cell]
        /\ Collected.status = Fresh(Cell).status
        /\ mode = "package" /\ Collected.status = "pass" => Collected.packages = Real(Cell)
    BY <1>1, <1>8, FreshType, CollectedType DEF Collect, Driving
  <2>2. Given /\ Alone /\ results'[Cell] = {Collected}
    BY <1>2, <1>8, <2>1 DEF Collect, Given, world, job
  <2>3. Collected.status \in Conclusive => seen[Cell] # Missing
    BY <1>1, <2>1 DEF HoldsInv, SourceSeen
  <2>4. CASE Savable(Collected)
    <3>1. step' \in Unsaved /\ next' = next
      BY <1>8, <2>4 DEF Collect, Unsaved, SaveSteps
    <3> QED BY <1>1, <2>1, <2>2, <2>3, <3>1, HoldsStep
  <2>5. CASE ~Savable(Collected)
    <3>1. Real(Cell) # <<>>
      BY DEF Real
    <3>2. ~(engine = "whole" /\ Collected.status \in Conclusive)
      BY <2>1, <2>3, <2>5, <3>1 DEF Savable, HasPayload, Eligible
    <3>3. Holds(Cell, results'[Cell], dir'[Cell])
      BY <2>2, <3>2 DEF Holds
    <3> QED BY <1>1, <2>1, <2>2, <2>3, <3>3, HoldsStep
  <2> QED BY <2>4, <2>5
<1>9. CASE SaveManifest \/ SaveResult \/ RemovePackages
  <2>1. step # "build" /\ step' \in Unsaved /\ next' = next /\ results' = results
    BY <1>9 DEF SaveManifest, SaveResult, RemovePackages, Driving, Unsaved, SaveSteps
  <2>2. Cell \in Cells
    BY <1>1, <2>1, FreshType
  <2>3. Given /\ Alone
    BY <1>2, <1>9, <2>2 DEF SaveManifest, SaveResult, RemovePackages, Given, world, job
  <2> QED BY <1>1, <2>1, <2>2, <2>3, HoldsStep DEF HoldsInv, SourceSeen
<1>10. CASE SavePackages
  <2>1. /\ Cell \in Cells /\ Fresh(Cell).status \in Conclusive
    BY <1>1, <1>10, FreshType DEF SavePackages, Driving, SaveSteps
  <2>2. /\ Given /\ Alone /\ results' = results
        /\ dir'[Cell] = Entry(Fingerprint(Cell), Fresh(Cell), Fresh(Cell).packages)
    BY <1>2, <1>10, <2>1 DEF SavePackages, Given, world, job
  <2>3. Holds(Cell, results'[Cell], dir'[Cell])
    BY <2>1, <2>2 DEF Holds, Entry
  <2> QED BY <1>1, <2>1, <2>2, <2>3, HoldsStep DEF HoldsInv, SourceSeen
<1>11. CASE Raise
  <2>1. Cell \in Cells /\ next' = next /\ step' = step
    BY <1>1, <1>11, CellType DEF Raise
  <2>2. Given /\ Alone
    BY <1>2, <1>11, <2>1 DEF Raise, Given, world, job
  <2>3. CASE results' = results
    <3>1. dir' = dir \/ step \in SaveSteps
      BY <1>11 DEF Raise, SaveSteps
    <3>2. step \in Unsaved \/ Holds(Cell, results'[Cell], dir'[Cell])
      BY <1>1, <2>1, <2>3, <3>1 DEF HoldsInv, DirHolds, Pending, Unsaved
    <3> QED BY <1>1, <2>1, <2>2, <2>3, <3>2, HoldsStep DEF HoldsInv, SourceSeen
  <2>4. CASE results' # results
    <3>1. /\ step \in {"restore", "collect"} /\ dir' = dir
          /\ results' = [results EXCEPT ![Cell] = {[Collected EXCEPT !.packages = Torn]}]
      BY <1>11, <2>4 DEF Raise
    <3>2. /\ Fresh(Cell) \in results[Cell] /\ Collected.status = Fresh(Cell).status
          /\ Collected \in Shown
      BY <1>1, <3>1, FreshType, CollectedType
    <3>3. \A r \in results'[Cell] : r.status = Fresh(Cell).status
      BY <1>2, <2>1, <3>1, <3>2 DEF Shown
    <3>4. step \in Unsaved \/ Holds(Cell, results'[Cell], dir'[Cell])
      BY <1>1, <2>1, <3>1, <3>2, <3>3 DEF HoldsInv, DirHolds, Holds, Pending, Unsaved
    <3> QED BY <1>1, <2>1, <2>2, <3>2, <3>3, <3>4, HoldsStep DEF HoldsInv, SourceSeen
  <2> QED BY <2>3, <2>4
<1>12. CASE JobTimeout \/ DriverEnds \/ SaveSnapshot \/ UNCHANGED vars
  BY <1>1, <1>12, HoldsSame
  DEF JobTimeout, DriverEnds, SaveSnapshot, vars, world, job, Given
<1> QED
  BY <1>3, <1>4, <1>5, <1>6, <1>7, <1>8, <1>9, <1>10, <1>11, <1>12 DEF Next

\* The store loses a snapshot, keeps what it has, or gains the one of this run.
LEMMA StoreMoves ==
    ASSUME TypeOK, [Next]_vars
    PROVE  /\ \A i \in 1..Len(store') :
                 \/ \E k \in 1..Len(store) : store'[i] = store[k]
                 \/ /\ SaveSnapshot /\ Cacheable
                    /\ store'[i] = [key |-> Key, dir |-> dir, clean |-> Clean]
<1>1. store \in Seq(Snapshot)
  BY DEF TypeOK
<1>2. CASE Evict
  <2>1. PICK i \in 1..Len(store) : store' = Without(store, i)
    BY <1>2 DEF Evict, Without
  <2> QED BY <1>1, <2>1, EvictedShape
<1>3. CASE SaveSnapshot /\ store' # store
  <2> DEFINE new == [key |-> Key, dir |-> dir, clean |-> Clean]
  <2>1. Cacheable /\ store' = Append(store, new)
    BY <1>3 DEF SaveSnapshot, Saves
  <2> HIDE DEF new
  <2>2. /\ Len(store) \in Nat /\ Len(store') = Len(store) + 1
        /\ \A i \in 1..Len(store) : store'[i] = store[i]
        /\ store'[Len(store) + 1] = new
    BY <1>1, <2>1
  <2>3. \A i \in 1..Len(store') : i \in 1..Len(store) \/ i = Len(store) + 1
    BY <2>2
  <2> QED BY <1>3, <2>1, <2>2, <2>3 DEF new
<1>4. CASE store' = store
  BY <1>4
<1> QED
  BY <1>2, <1>3, <1>4 DEF Next, vars, world, Change, Start, Hit, Restore, Build, TimeOut,
     Collect, SaveManifest, SaveResult, RemovePackages, SavePackages, Raise, JobTimeout,
     DriverEnds, Upload

LEMMA WholeNext ==
    ASSUME WholeInv, [Next]_vars
    PROVE  SnapshotsWhole'
<1> SUFFICES ASSUME NEW i \in 1..Len(store'), store'[i].clean PROVE HoldsItsKey(store'[i])
  BY DEF SnapshotsWhole, HoldsItsKey
<1>1. CASE \E k \in 1..Len(store) : store'[i] = store[k]
  BY <1>1 DEF WholeInv, SnapshotsWhole
<1>2. CASE Cacheable /\ store'[i] = [key |-> Key, dir |-> dir, clean |-> Clean]
  <2>1. engine = "whole" /\ step \in {"build", "restore"}
    <3>1. store'[i].clean = Clean
      BY <1>2
    <3> QED BY <3>1, Zenon DEF Clean
  <2>2. \A c \in Cells : Holds(c, results[c], dir[c]) /\ \E r \in results[c] : r.status \in Conclusive
    BY <1>2, <2>1
    DEF WholeInv, HoldsInv, DirHolds, Pending, Unsaved, SaveSteps, Cacheable
  <2>3. \A c \in Cells : \E e \in dir[c] : e.status \in Conclusive /\ e.fingerprint = Fingerprint(c)
    BY <2>1, <2>2 DEF Holds
  <2>4. store'[i].dir = dir
        /\ \A c \in Cells : <<store'[i].key.contract, store'[i].key.commit,
                              store'[i].key.cells[c]>> = Fingerprint(c)
    BY <1>2 DEF Key, KeyOf, Fingerprint
  <2> QED BY <2>3, <2>4 DEF HoldsItsKey
<1> QED BY <1>1, <1>2, StoreMoves DEF WholeInv, TypeInv

LEMMA WholeInit == Init => WholeInv
<1> SUFFICES ASSUME Init PROVE WholeInv
  OBVIOUS
<1>1. \A c \in Cells : dir[c] = {} /\ results[c] = {}
  BY DEF Init, NoCells
<1>2. HoldsInv /\ AtRest
  BY <1>1 DEF Init, HoldsInv, DirHolds, SourceSeen, Holds, AtRest
<1>3. Len(store) = 0
  BY DEF Init
<1>4. SnapshotsWhole
  BY <1>3 DEF SnapshotsWhole
<1> QED BY <1>2, <1>4, TypeInit DEF WholeInv

\* Wherever exceptions and timeouts stop the driver, and whatever was restored
\* or not downloaded: a snapshot of a run whose engine was whole, and that was not
\* stopped between a cell's result and its entry, holds a verdict for every
\* cell of its key.
THEOREM BatchCaches == Spec => []SnapshotsWhole
<1>1. WholeInv /\ [Next]_vars => WholeInv'
  BY TypeStep, AtRestStep, HoldsNext, WholeNext DEF WholeInv
<1>2. WholeInv => SnapshotsWhole
  BY DEF WholeInv
<1> QED BY WholeInit, <1>1, <1>2, PTL DEF Spec

-----------------------------------------------------------------------------
(* Verdicts, when save_cell is not stopped between its files *)

\* Between the manifest and the packages an entry does not belong together.
FileSteps == {"result", "packages", "copy"}
Writing(c) == step \in FileSteps /\ c = Cell

\* An entry that is of what it says, if it says anything.
Sound(e) ==
    e.status \in Conclusive /\ e.fingerprint # <<>> =>
        /\ e.of = e.fingerprint
        /\ mode = "package" /\ e.status = "pass" => e.packages = e.fingerprint

DirSound   == \A c \in Cells : ~Writing(c) => \A e \in dir[c] : Sound(e)
StoreSound == \A i \in 1..Len(store) : \A c \in Cells : \A e \in store[i].dir[c] : Sound(e)

\* A result that was just restored is the one of the entry.
Restoring == step = "restore" => Usable(Cell) /\ Fresh(Cell).status = Kept(Cell).status

AtWork == pc # "driver" => step \notin FileSteps

FitInv == VerdictsFit /\ DirSound

ReportInv == TypeInv /\ AtRest /\ AtWork /\ Restoring /\ FitInv /\ StoreSound

\* What a step of the driver has to show of its cell.
LEMMA FitStep ==
    ASSUME FitInv, Cell \in Cells, Given, Alone,
           \A r \in results'[Cell] : r.status \in Conclusive =>
               /\ r.of = Real(Cell)
               /\ mode = "package" /\ r.status = "pass" =>
                     \/ r.packages = Real(Cell)
                     \/ step' \in {"restore", "collect"} /\ next' = next,
           \/ step' \in FileSteps /\ next' = next
           \/ \A e \in dir'[Cell] : Sound(e)
    PROVE  FitInv'
<1>1. \A c \in Cells : Real(c)' = Real(c)
  BY GivenKept
<1>2. next' = next => Cell' = Cell
  BY DEF Cell
<1>3. VerdictsFit'
  <2> SUFFICES ASSUME NEW c \in Cells, NEW r \in results'[c], r.status \in Conclusive
               PROVE  /\ r.of = Real(c)
                      /\ mode = "package" /\ r.status = "pass" =>
                            r.packages = Real(c) \/ Collecting(c)'
    BY <1>1 DEF VerdictsFit, Given
  <2>1. CASE c = Cell
    BY <1>2, <2>1 DEF Collecting
  <2>2. CASE c # Cell
    BY <2>2 DEF FitInv, VerdictsFit, Collecting, Alone
  <2> QED BY <2>1, <2>2
<1>4. DirSound'
  <2> SUFFICES ASSUME NEW c \in Cells, ~Writing(c)', NEW e \in dir'[c]
               PROVE  Sound(e)
    BY DEF DirSound, Sound, Given
  <2>1. CASE c = Cell
    BY <1>2, <2>1 DEF Writing
  <2>2. CASE c # Cell
    BY <2>2 DEF FitInv, DirSound, Writing, Alone
  <2> QED BY <2>1, <2>2
<1> QED BY <1>3, <1>4 DEF FitInv

LEMMA FitSame ==
    ASSUME FitInv, Given, UNCHANGED <<dir, results, next, step>>
    PROVE  FitInv'
<1>1. \A c \in Cells : /\ Real(c)' = Real(c) /\ Writing(c)' = Writing(c)
                       /\ Collecting(c)' = Collecting(c)
  BY GivenKept DEF Writing, Collecting, Cell
<1>2. VerdictsFit'
  BY <1>1 DEF FitInv, VerdictsFit, Given
<1>3. DirSound'
  BY <1>1 DEF FitInv, DirSound, Sound, Given
<1> QED BY <1>2, <1>3 DEF FitInv

\* A run that reports nothing makes no claim.
LEMMA FitNothing ==
    ASSUME results' = NoCells, mode' = mode, \A c \in Cells : \A e \in dir'[c] : Sound(e)
    PROVE  FitInv'
BY DEF FitInv, VerdictsFit, DirSound, Sound, NoCells

LEMMA FitNext ==
    ASSUME RaisesAt \cap FileSteps = {}, ReportInv, [Next]_vars
    PROVE  FitInv'
<1> USE DEF ReportInv
<1>1. FitInv /\ TypeInv /\ TypeOK
  BY DEF TypeInv
<1>2. ASSUME Cell \in Cells
      PROVE  /\ \A R : results' = [results EXCEPT ![Cell] = R] => results'[Cell] = R
             /\ \A D : dir' = [dir EXCEPT ![Cell] = D] => dir'[Cell] = D
             /\ \A R, D : /\ results' = results \/ results' = [results EXCEPT ![Cell] = R]
                          /\ dir' = dir \/ dir' = [dir EXCEPT ![Cell] = D]
                          => Alone
  BY <1>1, <1>2 DEF TypeOK, Outcomes, Dirs, Alone
<1>3. CASE Change \/ Evict \/ Upload
  <2>1. /\ results' = NoCells /\ dir' = NoCells /\ mode' = mode
    BY <1>3 DEF Change, Evict, Upload, AtRest, job, world
  <2> QED BY <2>1, FitNothing DEF NoCells
<1>4. CASE Start
  <2>1. dir' = NoCells \/ \E i \in 1..Len(store) : dir' = store[i].dir
    BY <1>1, <1>4, StoreShape, RestoredShape DEF Start
  <2>2. \A c \in Cells : \A e \in dir'[c] : Sound(e)
    BY <2>1 DEF StoreSound, NoCells
  <2> QED BY <1>4, <2>2, FitNothing DEF Start, world
<1>5. CASE Hit
  <2>1. Cell \in Cells /\ Eligible(Cell) /\ step = "build" /\ step' = "restore" /\ next' = next
    BY <1>1, <1>5, CellType DEF Hit, Driving, Usable
  <2>2. Given /\ Alone /\ dir' = dir
    BY <1>2, <1>5, <2>1 DEF Hit, Given, world, job
  <2>3. AtMostOne(dir[Cell]) /\ \A e \in dir[Cell] : Sound(e)
    BY <1>1, <2>1 DEF TypeOK, Dirs, FitInv, DirSound, Writing, FileSteps
  <2>4. PICK e \in dir[Cell] : e.fingerprint = Real(Cell) /\ e.status \in Conclusive
    BY <1>5, <2>1, FingerprintFits DEF Hit, Usable
  <2>5. e.of = Real(Cell)
    BY <2>1, <2>3, <2>4, FingerprintFits DEF Sound
  <2>6. \A r \in results'[Cell] : r.of = Real(Cell)
    <3> DEFINE shown == {[status |-> d.status, of |-> d.of, packages |-> <<>>] : d \in dir[Cell]}
    <3>1. \A r \in shown : r.of = e.of
      BY <2>3, <2>4 DEF AtMostOne
    <3>2. results' = [results EXCEPT ![Cell] = shown]
      BY <1>5 DEF Hit
    <3> HIDE DEF shown
    <3> QED BY <1>2, <2>1, <2>5, <3>1, <3>2
  <2> QED BY <1>1, <2>1, <2>2, <2>3, <2>6, FitStep
<1>6. CASE Restore
  <2>1. /\ Cell \in Cells /\ Fresh(Cell) \in results[Cell] /\ step = "restore"
        /\ Collected.status = Fresh(Cell).status /\ Collected.of = Fresh(Cell).of
        /\ Collected.packages = Kept(Cell).packages
    BY <1>1, <1>6, FreshType, CollectedType DEF Restore, Driving
  <2>2. Given /\ Alone /\ dir' = dir /\ results'[Cell] = {Collected}
    BY <1>2, <1>6, <2>1 DEF Restore, Given, world, job
  <2>3. \A e \in dir[Cell] : Sound(e)
    BY <1>1, <2>1 DEF FitInv, DirSound, Writing, FileSteps
  <2>4. PICK e \in dir[Cell] : e.fingerprint = Real(Cell) /\ Real(Cell) # <<>>
    BY <2>1, FingerprintFits DEF Restoring, Usable
  <2>5. e = Kept(Cell) /\ Kept(Cell).status = Collected.status
    BY <1>1, <2>1, <2>4, KeptType DEF Restoring
  <2>6. mode = "package" /\ Collected.status = "pass" => Collected.packages = Real(Cell)
    BY <2>1, <2>3, <2>4, <2>5 DEF Sound, Conclusive
  <2>7. Collected.status \in Conclusive => Collected.of = Real(Cell)
    BY <1>1, <2>1 DEF FitInv, VerdictsFit
  <2> QED BY <1>1, <2>1, <2>2, <2>3, <2>6, <2>7, FitStep
<1>7. CASE Build \/ TimeOut
  <2>1. Cell \in Cells /\ step = "build" /\ step' = "collect" /\ next' = next /\ dir' = dir
    BY <1>1, <1>7, CellType DEF Build, TimeOut, Driving
  <2>2. PICK status \in Conclusive \cup {"infra_failed"} :
          results' = [results EXCEPT ![Cell] = Verdict(Cell, status)]
    BY <1>7 DEF Build, TimeOut
  <2>3. Given /\ Alone /\ results'[Cell] = Verdict(Cell, status)
    BY <1>2, <1>7, <2>1, <2>2 DEF Build, TimeOut, Given, world, job
  <2>4. \A r \in results'[Cell] : r.status \in Conclusive => r.of = Real(Cell)
    BY <2>3 DEF Verdict
  <2>5. \A e \in dir[Cell] : Sound(e)
    BY <1>1, <2>1 DEF FitInv, DirSound, Writing, FileSteps
  <2> QED BY <1>1, <2>1, <2>3, <2>4, <2>5, FitStep
<1>8. CASE Collect
  <2>1. /\ Cell \in Cells /\ Fresh(Cell) \in results[Cell] /\ step = "collect" /\ dir' = dir
        /\ Collected.status = Fresh(Cell).status /\ Collected.of = Fresh(Cell).of
        /\ mode = "package" /\ Collected.status = "pass" => Collected.packages = Real(Cell)
    BY <1>1, <1>8, FreshType, CollectedType DEF Collect, Driving
  <2>2. Given /\ Alone /\ results'[Cell] = {Collected}
    BY <1>2, <1>8, <2>1 DEF Collect, Given, world, job
  <2>3. \A e \in dir[Cell] : Sound(e)
    BY <1>1, <2>1 DEF FitInv, DirSound, Writing, FileSteps
  <2>4. Collected.status \in Conclusive => Collected.of = Real(Cell)
    BY <1>1, <2>1 DEF FitInv, VerdictsFit
  <2> QED BY <1>1, <2>1, <2>2, <2>3, <2>4, FitStep
<1>9. CASE SaveManifest \/ SaveResult \/ RemovePackages
  <2>1. /\ step \in SaveSteps /\ step # "build"
        /\ step' \in FileSteps /\ next' = next /\ results' = results
    BY <1>9 DEF SaveManifest, SaveResult, RemovePackages, Driving, FileSteps, SaveSteps
  <2>2. Cell \in Cells
    BY <1>1, <2>1, FreshType
  <2>3. Given /\ Alone
    BY <1>2, <1>9, <2>2 DEF SaveManifest, SaveResult, RemovePackages, Given, world, job
  <2>4. \A r \in results[Cell] : r.status \in Conclusive =>
           /\ r.of = Real(Cell)
           /\ mode = "package" /\ r.status = "pass" => r.packages = Real(Cell)
    BY <1>1, <2>1, <2>2 DEF FitInv, VerdictsFit, Collecting, SaveSteps
  <2> QED BY <1>1, <2>1, <2>2, <2>3, <2>4, FitStep
<1>10. CASE SavePackages
  <2>1. /\ Cell \in Cells /\ Fresh(Cell) \in results[Cell] /\ Fresh(Cell).status \in Conclusive
        /\ Eligible(Cell) /\ step = "copy"
    BY <1>1, <1>10, FreshType DEF SavePackages, Driving, SaveSteps, TypeInv, Underway
  <2>2. /\ Given /\ Alone /\ results' = results
        /\ dir'[Cell] = Entry(Fingerprint(Cell), Fresh(Cell), Fresh(Cell).packages)
    BY <1>2, <1>10, <2>1 DEF SavePackages, Given, world, job
  <2>3. \A r \in results[Cell] : r.status \in Conclusive =>
           /\ r.of = Real(Cell)
           /\ mode = "package" /\ r.status = "pass" => r.packages = Real(Cell)
    BY <1>1, <2>1 DEF FitInv, VerdictsFit, Collecting
  <2>4. Fingerprint(Cell) = Real(Cell)
    BY <2>1, FingerprintFits
  <2>5. \A e \in dir'[Cell] : Sound(e)
    BY <2>1, <2>2, <2>3, <2>4 DEF Entry, Sound
  <2> QED BY <1>1, <2>1, <2>2, <2>3, <2>5, FitStep
<1>11. CASE Raise
  <2>1. Cell \in Cells /\ next' = next /\ step' = step /\ step \notin FileSteps
    BY <1>1, <1>11, CellType DEF Raise
  <2>2. Given /\ Alone
    BY <1>2, <1>11, <2>1 DEF Raise, Given, world, job
  <2>3. \A e \in dir'[Cell] : Sound(e)
    <3>1. \A e \in dir[Cell] : Sound(e)
      BY <1>1, <2>1 DEF FitInv, DirSound, Writing
    <3>2. CASE dir' # dir
      <4>1. step = "manifest" /\ dir' = [dir EXCEPT ![Cell] = HalfSaved]
        BY <1>11, <2>1, <3>2 DEF Raise, FileSteps
      <4>2. \A e \in HalfSaved : e.fingerprint = <<>>
        BY <4>1 DEF HalfSaved, Entry
      <4> QED BY <1>2, <2>1, <4>1, <4>2 DEF Sound
    <3> QED BY <3>1, <3>2
  <2>4. \A r \in results'[Cell] : r.status \in Conclusive =>
           /\ r.of = Real(Cell)
           /\ mode = "package" /\ r.status = "pass" =>
                 r.packages = Real(Cell) \/ step' \in {"restore", "collect"}
    <3>1. CASE results' = results
      BY <1>1, <2>1, <3>1 DEF FitInv, VerdictsFit, Collecting
    <3>2. CASE results' # results
      <4>1. /\ step \in {"restore", "collect"}
            /\ results' = [results EXCEPT ![Cell] = {[Collected EXCEPT !.packages = Torn]}]
        BY <1>11, <3>2 DEF Raise
      <4>2. /\ Fresh(Cell) \in results[Cell] /\ Collected \in Shown
            /\ Collected.status = Fresh(Cell).status /\ Collected.of = Fresh(Cell).of
        BY <1>1, <4>1, FreshType, CollectedType
      <4>3. /\ [Collected EXCEPT !.packages = Torn].status = Fresh(Cell).status
            /\ [Collected EXCEPT !.packages = Torn].of = Fresh(Cell).of
        BY <4>2 DEF Shown
      <4>4. results'[Cell] = {[Collected EXCEPT !.packages = Torn]}
        BY <1>2, <2>1, <4>1
      <4> QED BY <1>1, <2>1, <4>1, <4>2, <4>3, <4>4 DEF FitInv, VerdictsFit
    <3> QED BY <3>1, <3>2
  <2> QED BY <1>1, <2>1, <2>2, <2>3, <2>4, FitStep
<1>12. CASE JobTimeout \/ DriverEnds \/ SaveSnapshot \/ UNCHANGED vars
  BY <1>1, <1>12, FitSame
  DEF JobTimeout, DriverEnds, SaveSnapshot, vars, world, job, Given
<1> QED
  BY <1>3, <1>4, <1>5, <1>6, <1>7, <1>8, <1>9, <1>10, <1>11, <1>12 DEF Next

\* The entry that a result was restored from stays as it is until the next item.
LEMMA RestoringNext ==
    ASSUME ReportInv, [Next]_vars
    PROVE  Restoring'
<1> USE DEF ReportInv
<1>1. CASE Hit
  <2>1. Cell \in Cells /\ Usable(Cell) /\ step' = "restore"
        /\ UNCHANGED <<mode, contract, commit, engine, seen, dir, next>>
    BY <1>1, CellType DEF Hit, Driving, TypeInv, world, job
  <2>2. Cell' = Cell /\ Usable(Cell)' = Usable(Cell) /\ Kept(Cell)' = Kept(Cell)
    BY <2>1 DEF Cell, Usable, Eligible, Fingerprint, CommitIn, HasPayload, Kept
  <2>3. dir[Cell] = {Kept(Cell)}
    BY <2>1, KeptType DEF TypeInv, Usable
  <2>4. results' = [results EXCEPT ![Cell] =
                      {[status |-> e.status, of |-> e.of, packages |-> <<>>] : e \in dir[Cell]}]
    BY <1>1 DEF Hit
  <2>5. results'[Cell] = {[status |-> Kept(Cell).status, of |-> Kept(Cell).of, packages |-> <<>>]}
    BY <2>1, <2>3, <2>4 DEF TypeInv, TypeOK, Outcomes
  <2>6. Fresh(Cell)' = [status |-> Kept(Cell).status, of |-> Kept(Cell).of, packages |-> <<>>]
    BY <2>2, <2>5 DEF Fresh
  <2>7. (Fresh(Cell)').status = Kept(Cell).status
    BY <2>6
  <2> QED BY <2>1, <2>2, <2>7 DEF Restoring
<1>2. CASE Raise /\ step = "restore"
  <2>1. Cell \in Cells /\ Usable(Cell) /\ Fresh(Cell).status = Kept(Cell).status
        /\ Collected \in Shown /\ Collected.status = Fresh(Cell).status
    BY <1>2, FreshType, CollectedType DEF Restoring
  <2>2. dir' = dir /\ UNCHANGED <<mode, contract, commit, engine, seen, next, step>>
    BY <1>2 DEF Raise, world, job
  <2>3. Cell' = Cell /\ Usable(Cell)' = Usable(Cell) /\ Kept(Cell)' = Kept(Cell)
    BY <2>2 DEF Cell, Usable, Eligible, Fingerprint, CommitIn, HasPayload, Kept
  <2>4. (Fresh(Cell)').status = Fresh(Cell).status
    <3>1. CASE results' = results
      BY <2>3, <3>1 DEF Fresh
    <3>2. CASE results' # results
      <4>1. results' = [results EXCEPT ![Cell] = {[Collected EXCEPT !.packages = Torn]}]
        BY <1>2, <3>2 DEF Raise
      <4>2. results'[Cell] = {[Collected EXCEPT !.packages = Torn]}
        BY <2>1, <4>1 DEF TypeInv, TypeOK, Outcomes
      <4>3. Fresh(Cell)' = [Collected EXCEPT !.packages = Torn]
        BY <2>3, <4>2 DEF Fresh
      <4> QED BY <2>1, <4>3 DEF Shown
    <3> QED BY <3>1, <3>2
  <2> QED BY <2>1, <2>2, <2>3, <2>4 DEF Restoring
<1>3. CASE UNCHANGED <<mode, contract, commit, engine, seen, dir, next, step, results>>
  BY <1>3
  DEF Restoring, Cell, Usable, Eligible, Fingerprint, CommitIn, HasPayload, Kept, Fresh
<1>4. CASE step' # "restore"
  BY <1>4 DEF Restoring
<1> QED
  BY <1>1, <1>2, <1>3, <1>4 DEF Next, vars, world, job, AtRest, Change, Evict, Start,
     Restore, Build, TimeOut, Collect, SaveManifest, SaveResult, RemovePackages,
     SavePackages, Raise, JobTimeout, DriverEnds, SaveSnapshot, Upload, Driving, GoOn

LEMMA AtWorkNext ==
    ASSUME RaisesAt \cap FileSteps = {}, ReportInv, [Next]_vars
    PROVE  AtWork'
<1>1. step \in FileSteps => next <= Len(Order)
  BY DEF ReportInv, TypeInv, Underway, FileSteps
<1>2. next > Len(Order) => ~(next <= Len(Order))
  BY BatchAssumption DEF ReportInv, TypeInv, TypeOK
<1> QED
  BY <1>1, <1>2 DEF ReportInv, AtWork, FileSteps, Next, vars, world, job, AtRest, Change,
     Evict, Start, Hit, Restore, Build, TimeOut, Collect, SaveManifest, SaveResult,
     RemovePackages, SavePackages, Raise, JobTimeout, DriverEnds, SaveSnapshot, Upload,
     Driving, GoOn

LEMMA StoreSoundNext ==
    ASSUME ReportInv, [Next]_vars
    PROVE  StoreSound'
<1>1. mode' = mode
  BY DEF Next, vars, world, Change, Evict, Start, Hit, Restore, Build, TimeOut, Collect,
     SaveManifest, SaveResult, RemovePackages, SavePackages, Raise, JobTimeout, DriverEnds,
     SaveSnapshot, Upload
<1> SUFFICES ASSUME NEW i \in 1..Len(store'), NEW c \in Cells, NEW e \in store'[i].dir[c]
             PROVE  Sound(e)
  BY <1>1 DEF StoreSound, Sound
<1>2. CASE \E k \in 1..Len(store) : store'[i] = store[k]
  BY <1>2 DEF ReportInv, StoreSound
<1>3. CASE SaveSnapshot /\ store'[i] = [key |-> Key, dir |-> dir, clean |-> Clean]
  <2>1. store'[i].dir = dir /\ ~Writing(c)
    BY <1>3 DEF SaveSnapshot, ReportInv, AtWork, Writing
  <2> QED BY <2>1 DEF ReportInv, FitInv, DirSound
<1> QED BY <1>2, <1>3, StoreMoves DEF ReportInv, TypeInv

LEMMA ReportInit == Init => ReportInv
<1> SUFFICES ASSUME Init PROVE ReportInv
  OBVIOUS
<1>1. \A c \in Cells : dir[c] = {} /\ results[c] = {}
  BY DEF Init, NoCells
<1>2. FitInv
  BY <1>1 DEF FitInv, VerdictsFit, DirSound
<1>3. AtRest /\ AtWork /\ Restoring
  BY DEF Init, AtRest, AtWork, Restoring, FileSteps
<1>4. StoreSound
  BY DEF Init, StoreSound
<1> QED BY <1>2, <1>3, <1>4, TypeInit DEF ReportInv

\* Unless save_cell is stopped between the manifest and the packages, every
\* verdict that a run reports and every package set that it hands on were built
\* from the inputs the run has, wherever else the driver raises.
THEOREM BatchReports ==
    ASSUME RaisesAt \cap {"result", "packages", "copy"} = {}
    PROVE  Spec => []VerdictsFit
<1>1. RaisesAt \cap FileSteps = {}
  BY DEF FileSteps
<1>2. ReportInv /\ [Next]_vars => ReportInv'
  BY <1>1, TypeStep, AtRestStep, AtWorkNext, RestoringNext, FitNext, StoreSoundNext
  DEF ReportInv
<1>3. ReportInv => VerdictsFit
  BY DEF ReportInv, FitInv
<1> QED BY ReportInit, <1>2, <1>3, PTL DEF Spec
=============================================================================
