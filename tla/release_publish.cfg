\* Two tags of a wave, four rival builds, every fault.
SPECIFICATION Spec
CONSTANTS
    t1 = t1  t2 = t2  n1 = n1  n2 = n2  d1 = d1  d2 = d2  c1 = c1  c2 = c2
    Tags = {t1, t2}
    Names = {n1, n2}
    Digests = {d1, d2}
    Commits = {c1, c2}
    Ids = {1, 2, 3}
    Builds <- RivalBuilds
    Mangled = {d2}
    MaxTries = 2  MaxFaults = 2  MaxCalls = 3
CHECK_DEADLOCK FALSE
INVARIANTS TypeOK DoneIsExact OneReleasePerTag OneWave
PROPERTIES ImplementsLedger
