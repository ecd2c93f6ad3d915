CONSTANTS
    n0 = n0
    n1 = n1
    n2 = n2
    n3 = n3
    tipA = tipA
    tipX = tipX
    tipB = tipB
    rv1 = rv1
    rv2 = rv2
    blk1 = blk1
    blk2 = blk2
    None = None
    Nodes = {n0, n1, n2, n3}
    NumValidators = 3
    Required = 2
    MaxRound = 0
    Tips <- MCTips
    HeightOf <- MCHeightOf
    PulsePossible = {tipA}
    Validators <- MC3Validators
    Producer <- MCProducer
    Contents = {blk1}
    RandomValues = {rv1}
    StartTip <- MCStart
    Unsteady = {}
    TimeoutStates = {8, 9, 10, 11}
    Faults = {"relay", "template", "verify"}
SPECIFICATION Spec
ACTION_CONSTRAINT PassingFirst
INVARIANTS
    StagesOK
    ProducedVerifies
    CommitBeforeReveal
    SignaturesSuffice
CHECK_DEADLOCK FALSE
