---------------------------- MODULE MatrixMerge ----------------------------
(***************************************************************************)
(* One state file over its whole life: results of any number of runs are   *)
(* merged into it, in any order, the same result any number of times (a    *)
(* rerun of the publish job merges what it merged before, and a cell       *)
(* restored from a cache brings back an old result with its old time).     *)
(***************************************************************************)
EXTENDS MatrixCells

VARIABLES state,   \* the merged file
          seen     \* the results ever merged into it

TypeOK == state \in State /\ seen \subseteq Cell

Init == state = EmptyState /\ seen = {}

Merge(c) ==
    /\ state' = MergeCell(state, c)
    /\ seen' = seen \cup {c}

Next == \E c \in Cell : Merge(c)

Spec == Init /\ [][Next]_<<state, seen>>
-----------------------------------------------------------------------------
\* DESIGN decision 16: the colour of a cell is what the software last proved,
\* whatever order the results arrived in; an interruption shows only where
\* nothing was ever proved.
NewestConclusionShown == ShowsNewest(state, seen)

\* Decision 16: the newest interruption since the conclusion shown is kept
\* beside it, and a later conclusion clears it.
InterruptionKept == KeepsInterruption(state, seen)

\* No merge takes a conclusion away or replaces it by an older one.
NeverRegresses ==
    [][\A k \in DOMAIN state.cells : state.cells[k].status # Infra =>
          /\ k \in DOMAIN state'.cells
          /\ state'.cells[k].status # Infra
          /\ state'.cells[k].time >= state.cells[k].time]_<<state, seen>>

IInv == TypeOK /\ NewestConclusionShown /\ InterruptionKept
=============================================================================
