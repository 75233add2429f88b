\* One target, two engines: a rerun that builds the target's engines again.
SPECIFICATION Spec
CONSTANTS
    Engines = {"varnish", "vinyl"}
    Targets = {"deb"}
    Order <- OneTarget
    Losable = {}
    MaxTroubles = 2  MaxAttempts = 2
CHECK_DEADLOCK FALSE
INVARIANTS NeverHostage
