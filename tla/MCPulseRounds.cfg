CONSTANTS
    n0 = n0
    n1 = n1
    n2 = n2
    n3 = n3
    tipA = tipA
    tipX = tipX
    tipB = tipB
    rv1 = rv1
    rv2 = rv2
    blk1 = blk1
    blk2 = blk2
    None = None
    Nodes = {n0, n1, n2}
    NumValidators = 2
    Required = 2
    MaxRound = 1
    Tips <- MCTips
    HeightOf <- MCHeightOf
    PulsePossible = {tipA}
    Validators <- MC2Validators
    Producer <- MCProducer
    Contents = {blk1}
    RandomValues = {rv1}
    StartTip <- MCStart
    Unsteady = {}
    TimeoutStates = {4, 6, 8, 9, 10, 11}
    Faults = {"clock"}
SPECIFICATION Spec
ACTION_CONSTRAINT PassingFirst
INVARIANTS
    TypeOK
PROPERTIES
    NoBackwardSignature
CHECK_DEADLOCK FALSE
