SPECIFICATION Spec
CONSTANTS
    Label = {"a", "b"}
    RoundOf <- MCRounds
    Mined = Mined
    BaseWeight = 6
    Interval = 2
    StoreInterval = 4
    Signatures = {1, 2}
    Blocks <- MCBlocks
    Stored <- MCStored
    MaxLen = 6
    MaxAlt = 2
    CanPop = FALSE
    CanRestart = TRUE
    None = None
CHECK_DEADLOCK FALSE
PROPERTY LockedForGood
