\* One tag: what any partial state allows a further call to do, and a maintainer
\* who edits the repository during a call.
SPECIFICATION EditedFairSpec
CONSTANTS
    t1 = t1  t2 = t2  n1 = n1  n2 = n2  d1 = d1  d2 = d2  c1 = c1  c2 = c2
    Tags = {t1}
    Names = {n1, n2}
    Digests = {d1, d2}
    Commits = {c1, c2}
    Ids = {1, 2}
    Builds <- TwoBuilds
    Mangled = {d2}
    MaxTries = 3  MaxFaults = 3  MaxCalls = 4
    MaxEdits = 2  EditedFaults = 1  EditedCalls = 2
CHECK_DEADLOCK FALSE
INVARIANTS DoneIsExact
PROPERTIES Resumes
