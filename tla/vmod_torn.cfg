\* A save_cell that raises between two of its files.
SPECIFICATION Spec
CONSTANTS
    Cells = {"a", "b"}
    Order <- TwoCells
    Versions = {v1, v2}
    Contracts = {h1}
    Commits = {t1}
    Modes = {"package"}
    Downloads = {"whole", "none"}
    JobLimit = 2
    RaisesAt = {"build", "result", "packages", "copy"}
    MaxRuns = 3  MaxChanges = 2  MaxTroubles = 2
SYMMETRY Symmetry
CHECK_DEADLOCK FALSE
INVARIANTS VerdictsFit
