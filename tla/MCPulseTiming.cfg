CONSTANTS
    n0 = n0
    n1 = n1
    Nodes = {n0, n1}
    Skew <- MCSkew
    Lag = 1
    TargetBlockTime = 6
    Adjust = 2
    RoundTime = 3
    StageTime = 0
    MaxRound = 2
    Quorum <- MCQuorum
    Producer <- MCProducer
    Insufficient = {3}
    MaxHeight = 3
    MinerDelay = 1
SPECIFICATION Spec
INVARIANTS
    TypeOK
    IInv
    RoundIsCurrent
    RoundsInStep
    TemplatesVerify
    OneKind
    NeverAhead

    
CHECK_DEADLOCK FALSE
