CONSTANTS
    n0 = n0
    n1 = n1
    n2 = n2
    n3 = n3
    tipA = tipA
    tipX = tipX
    tipB = tipB
    rv1 = rv1
    rv2 = rv2
    blk1 = blk1
    blk2 = blk2
    None = None
    Nodes = {n0, n1, n2}
    NumValidators = 2
    Required = 2
    MaxRound = 0
    Tips <- MCTips
    HeightOf <- MCHeightOf
    PulsePossible = {tipA}
    Validators <- MC2Validators
    Producer <- MCProducer
    Contents = {blk1}
    RandomValues = {rv1, rv2}
    StartTip <- MCStart
    Unsteady = {n1}
    TimeoutStates = {}
    Faults = {"restart"}
SPECIFICATION Spec
ACTION_CONSTRAINT PassingFirst FewRestarts HandshakesFirst
SYMMETRY MCSymmetry
INVARIANTS
    RevealedAsCommitted
    BlockAgreement
CHECK_DEADLOCK FALSE
