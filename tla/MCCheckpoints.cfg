SPECIFICATION Spec
CONSTANTS
    Label = {"a", "b"}
    RoundOf <- MCRounds
    Mined = Mined
    BaseWeight = 6
    Interval = 2
    StoreInterval = 4
    Signatures = {1, 2}
    Blocks <- MCBlocks
    Stored <- MCStored
    MaxLen = 6
    MaxAlt = 2
    CanPop = TRUE
    CanRestart = TRUE
    None = None
INVARIANTS IInv RollbackSucceeds AlternativesOffMain NoneAhead
PROPERTIES  FailedSwitchRestores
