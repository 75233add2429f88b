---------------------------- MODULE MatrixCells ----------------------------
(***************************************************************************)
(* The merged state file of the compatibility matrix and how one cell      *)
(* result is folded into it: merge_cells of tools/matrix.py.               *)
(*                                                                         *)
(* A result is its key (row, engine, target and mode in one value), the    *)
(* second it finished in and what it says; every other field only travels  *)
(* with it.  The two maps of the file are functions over the keys present. *)
(***************************************************************************)
EXTENDS Naturals

CONSTANTS Keys,      \* "row/engine/target/mode"
          Verdicts,  \* the conclusive statuses, STATUSES without "infra_failed"
          Times      \* values of finished_at

Infra == "infra_failed"

ASSUME CellAssumption == Infra \notin Verdicts /\ Times \subseteq Nat

Cell  == [key : Keys, time : Times, status : Verdicts \cup {Infra}]
Maps  == UNION {{m \in [K -> Cell] : \A k \in K : m[k].key = k} : K \in SUBSET Keys}
State == [cells : Maps, infra : Maps]

\* load_state without a file.
EmptyState == [cells |-> [k \in {} |-> 0], infra |-> [k \in {} |-> 0]]

Put(map, c)  == [k \in DOMAIN map \cup {c.key} |-> IF k = c.key THEN c ELSE map[k]]

\* Mutant of Drop: the entry is blanked, not deleted.
DropBlanks(map, k) == [map EXCEPT ![k] = [key |-> k, time |-> 0, status |-> Infra]]

Drop(map, k) == [j \in DOMAIN map \ {k} |-> map[j]]

\* Nothing in the map is newer than c; an equal time gives way to c.
Yields(map, c) == c.key \in DOMAIN map => map[c.key].time <= c.time

-----------------------------------------------------------------------------
\* Mutant of MergeInterruption: the old newest-wins rule.
MergeInterruptionNewest(state, c) ==
    IF Yields(state.cells, c)
    THEN [state EXCEPT !.cells = Put(@, c)]
    ELSE state

\* An interruption takes the cell only of a key that never concluded, and is
\* kept aside when it is newer than the conclusion.
MergeInterruption(state, c) ==
    LET concluded == c.key \in DOMAIN state.cells /\ state.cells[c.key].status # Infra IN
    IF ~concluded /\ Yields(state.cells, c)
    THEN [state EXCEPT !.cells = Put(@, c)]
    ELSE IF concluded /\ c.time > state.cells[c.key].time /\ Yields(state.infra, c)
    THEN [state EXCEPT !.infra = Put(@, c)]
    ELSE state

\* Mutant of SetAside: an interruption that loses the cell is forgotten.
SetAsideNever(state, c) == state.infra

\* The interruptions once conclusion c takes the cell of an interruption.
SetAside(state, c) ==
    IF c.key \in DOMAIN state.cells
    THEN LET old == state.cells[c.key] IN
         IF old.status = Infra /\ old.time > c.time /\ Yields(state.infra, old)
         THEN Put(state.infra, old)
         ELSE state.infra
    ELSE state.infra

Outdated(map, c) == c.key \in DOMAIN map /\ map[c.key].time <= c.time

\* Mutant of MergeConclusion: the last one merged wins, whatever its time.
MergeConclusionLast(state, c) ==
    LET infra == SetAside(state, c) IN
    [cells |-> Put(state.cells, c),
     infra |-> IF Outdated(infra, c) THEN Drop(infra, c.key) ELSE infra]

\* A conclusion replaces an interruption of any time and an older conclusion.
MergeConclusion(state, c) ==
    IF \/ c.key \in DOMAIN state.cells /\ state.cells[c.key].status = Infra
       \/ Yields(state.cells, c)
    THEN LET infra == SetAside(state, c) IN
         [cells |-> Put(state.cells, c),
          infra |-> IF Outdated(infra, c) THEN Drop(infra, c.key) ELSE infra]
    ELSE state

\* One turn of the loop of merge_cells.
MergeCell(state, c) ==
    IF c.status = Infra THEN MergeInterruption(state, c) ELSE MergeConclusion(state, c)

-----------------------------------------------------------------------------
(* What the state should be, from the set of results it was made of *)

Concluded(seen, k)   == {c \in seen : c.key = k /\ c.status # Infra}
Interrupted(seen, k) == {c \in seen : c.key = k /\ c.status = Infra}
Newest(c, results)   == c \in results /\ \A d \in results : d.time <= c.time

\* `cells' holds the newest conclusion of a key, or its newest interruption
\* only if it has never concluded.
ShowsAt(state, seen, k) ==
    IF Concluded(seen, k) # {}
    THEN k \in DOMAIN state.cells /\ Newest(state.cells[k], Concluded(seen, k))
    ELSE IF Interrupted(seen, k) # {}
    THEN k \in DOMAIN state.cells /\ Newest(state.cells[k], Interrupted(seen, k))
    ELSE k \notin DOMAIN state.cells

ShowsNewest(state, seen) == \A k \in Keys : ShowsAt(state, seen, k)

\* The interruptions of a key that are newer than the conclusion shown.
Since(state, seen, k) == {c \in Interrupted(seen, k) :
                            Concluded(seen, k) # {} /\ c.time > state.cells[k].time}

\* `infra_failures' holds the newest of them, and nothing if there is none.
KeepsAt(state, seen, k) ==
    IF Since(state, seen, k) # {}
    THEN k \in DOMAIN state.infra /\ Newest(state.infra[k], Since(state, seen, k))
    ELSE k \notin DOMAIN state.infra

KeepsInterruption(state, seen) == \A k \in Keys : KeepsAt(state, seen, k)
=============================================================================
