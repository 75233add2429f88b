\* Three catalogs, every workflow, two runs.
SPECIFICATION Spec
CONSTANTS
    p1 = p1  p2 = p2  NoPin = NoPin
    Keys <- MCKeys
    Verdicts = {"pass", "build_failed"}
    Times = {0, 1, 2}
    Catalogs <- MCCatalogs
    Selections = {{"deb"}}
    Upstreams = {"g1"}
    SourceBatchSize = 2  VmodBatchSize = 2  JobLimit = 9
    MaxRuns = 2  MaxEdits = 1  MaxMoves = 1  MaxTroubles = 1
CHECK_DEADLOCK FALSE
INVARIANTS TypeOK EveryCellOnce InputsAtHand OneSource PageTells
