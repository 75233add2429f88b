\* Two cells, three runs with pins that move between them.
SPECIFICATION Spec
CONSTANTS
    Cells = {"a", "b"}
    Order <- TwoCells
    Versions = {v1, v2}
    Contracts = {h1, h2}
    Commits = {t1, t2}
    Modes = {"package", "compat"}
    Downloads = {"whole", "part", "none"}
    JobLimit = 1
    RaisesAt = {"build", "restore", "collect", "manifest"}
    MaxRuns = 3  MaxChanges = 2  MaxTroubles = 2
SYMMETRY Symmetry
CHECK_DEADLOCK FALSE
INVARIANTS TypeOK VerdictsFit SnapshotsWhole
