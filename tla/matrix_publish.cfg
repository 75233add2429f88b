\* Three runs and a render, three faults, one rerun.
SPECIFICATION FairSpec
CONSTANTS
    monday = monday  tuesday = tuesday  trunk = trunk  render = render
    Keys = {"dns", "tus", "dns-trunk"}
    Verdicts = {"pass", "build_failed"}
    Times = {1, 2, 3}
    Runs = {monday, tuesday, trunk}
    Renders = {render}
    Results <- Nights
    MaxAttempts = 2  MaxFaults = 3  MaxReruns = 1
CHECK_DEADLOCK FALSE
INVARIANTS TypeOK BranchIsWhole
PROPERTIES PageNeverOlder DoneIsShown EveryRunEnds
