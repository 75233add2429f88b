\* Two engines on two targets, three attempts; or three invocations of the
\* scripts of a cell, in directories of their own or in one.
SPECIFICATION PartSpec
CONSTANTS
    Engines = {"varnish", "vinyl"}
    Targets = {"deb", "el10"}
    Order <- TwoByTwo
    Losable = {"engine", "vmod"}
    MaxTroubles = 3  MaxAttempts = 3
    Pins = {p1, p2}
    None = None
    MaxBuilds = 3
SYMMETRY Symmetry
CHECK_DEADLOCK FALSE
INVARIANTS TypeOK ReleasedAsTested GreenMeansAll
           BuildTypeOK PassIsBuilt HonestWhenFresh Provenance
