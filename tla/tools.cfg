\* The tools that share no state, one of them in each behaviour.
SPECIFICATION ToolsSpec
CONSTANTS
    Keys = {"dns", "tus"}  Verdicts = {"pass"}  Times = {1, 2, 3}
    FirstDelay = 1  DelayCap = 3  MaxWait = 8  JobLimit = 10
    MaxTook = 2  MaxNamed = 4  MaxLead = 1  Requests = 3
    Batches <- TwoBatches
    BranchOf <- EngineBranch
    NoBranch = "none"
    Packaged = {"r"}
    MaxTip = 2  MaxContract = 2  MaxJobs = 3  MaxMishaps = 2
    Manifests <- TwoManifests
    Slots <- TwoSlots
    RemoteOf <- OneRemote
    TrunkCells <- SomeCells
    FirstPins <- Pinned
    FirstHead = 2  MaxHead = 3
    MaxCalls = 1  MaxErrors = 1  MaxPasses = 3
    Family = "vinyl"
    EngineVersion <- Engine902
    IdOf <- Ids
    UpstreamVersion <- Upstream
    ModulesOf <- Modules
    ArtifactOf <- Artifacts
    Plain = {"ab.0", "doc"}
    PackageTargets <- DebAndRpm
    Revisions <- OneAndTen
    Images <- TwoImages
    TreesOf <- InstallTrees
    MaxRuns = 2  MaxMoves = 2  MaxMisfiled = 1
    FileKinds = {"c", "m4", "vtc", "vsc", "skipped"}
    Words <- SourceWords
    MaxWords = 2  MaxFiles = 2
CHECK_DEADLOCK FALSE
INVARIANTS
    NewestConclusionShown InterruptionKept
    ToolsTypeOK InsideJob BacksOff
    EngineSnapshotsWhole PassIsOfThisJob
    AppliedInOrder
    StagedIsTheCohort FailsForCause
    SourceTranslated
PROPERTIES NeverRegresses OnlyProven
