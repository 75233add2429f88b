----------------------------- MODULE MatrixGrid -----------------------------
(***************************************************************************)
(* matrix.py render: the grids of the page, built from the state file and  *)
(* the catalog at hand, which need not be the one the results come from.   *)
(* A key of the state file is [row, engine, target, mode].  Links, labels  *)
(* and wording are left out; of the tooltip, the lines that say that a     *)
(* newer attempt was interrupted are kept.                                 *)
(***************************************************************************)
EXTENDS MatrixCells, MatrixCatalog

EngineRow == "(engine)"

\* classify, with the rank of the bucket.
Classify(status) == IF status = "pass" THEN "PASS" ELSE IF status = Infra THEN "INFRA" ELSE "FAIL"
Rank(bucket)     == CASE bucket = "PASS" -> 1 [] bucket = "INFRA" -> 2 [] bucket = "FAIL" -> 3

DisplayRow(key) == IF key.mode = "engine" THEN EngineRow ELSE key.row

MatrixTargets(catalog)    == UNION {Items(e.targets) : e \in Items(catalog.engines)}
Columns(catalog, target)  == {e.id : e \in {e \in Items(catalog.engines) : target \in Items(e.targets)}}
Rows(catalog)             == {EngineRow} \cup Ids(catalog.vmods)

Group(file, target, row, col) ==
    {k \in DOMAIN file.cells : k.target = target /\ k.engine = col /\ DisplayRow(k) = row}

\* Mutant of Worst: the newest result of the group colours the cell.
WorstNewest(file, group) ==
    LET top == CHOOSE k \in group : \A j \in group : file.cells[j].time <= file.cells[k].time
    IN  Classify(file.cells[top].status)

\* The worst result of the group colours the cell.
Worst(file, group) ==
    LET bucket(k) == Classify(file.cells[k].status) IN
    CHOOSE b \in {bucket(k) : k \in group} : \A k \in group : Rank(bucket(k)) <= Rank(b)

\* The modes whose line is followed by one about an interruption.
Told(file, group) ==
    {k.mode : k \in {k \in group : k \in DOMAIN file.infra
                                   /\ file.infra[k].time > file.cells[k].time}}

BuildGrid(file, target, catalog) ==
    [at \in Rows(catalog) \X Columns(catalog, target) |->
        LET group == Group(file, target, at[1], at[2]) IN
        IF group = {} THEN [bucket |-> "MISSING", told |-> {}]
        ELSE [bucket |-> Worst(file, group), told |-> Told(file, group)]]

Render(file, catalog) == [t \in MatrixTargets(catalog) |-> BuildGrid(file, t, catalog)]
=============================================================================
