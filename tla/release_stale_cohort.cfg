\* One target, two engines, and runners that are lost during cohort tests.
SPECIFICATION Spec
CONSTANTS
    Engines = {"varnish", "vinyl"}
    Targets = {"deb"}
    Order <- OneTarget
    Losable = {"cohort"}
    MaxTroubles = 3  MaxAttempts = 2
CHECK_DEADLOCK FALSE
INVARIANTS ReleasedAsTested
