\* Two manifests, one with two pins at one commit.
SPECIFICATION PinSpec
CONSTANTS
    Manifests <- TwoVmods
    Slots <- TwoSlots
    RemoteOf <- Remote
    TrunkCells <- OneCell
    FirstPins <- Pinned
    FirstHead = 2  MaxHead = 3
    MaxCalls = 2  MaxErrors = 1  MaxPasses = 3
CHECK_DEADLOCK FALSE
INVARIANTS GreenMoves
