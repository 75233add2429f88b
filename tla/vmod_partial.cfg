\* A driver that raises after it has collected the result of a cell.
SPECIFICATION Spec
CONSTANTS
    Cells = {"a", "b"}
    Order <- TwoCells
    Versions = {v1, v2}
    Contracts = {h1}
    Commits = {t1}
    Modes = {"package"}
    Downloads = {"whole"}
    JobLimit = 2
    RaisesAt = {"restore", "collect", "manifest"}
    MaxRuns = 2  MaxChanges = 1  MaxTroubles = 1
SYMMETRY Symmetry
CHECK_DEADLOCK FALSE
INVARIANTS SnapshotsComplete
