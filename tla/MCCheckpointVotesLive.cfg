SPECIFICATION FairSpec
CONSTANTS
    n1 = n1
    n2 = n2
    n3 = n3
    Nodes = {n1, n2}
    Validators = {n1, n2}
    MinVotes = 2
    Interval = 2
    Buffer = 2
    Lifetime = 2
    Label = {"a"}
    Blocks <- LiveBlocks
    Stored <- LiveStored
    Targets = {0}
    Detaching = {n1}
    Restarting = {n1}
    None = None
PROPERTIES CheckpointForms
CHECK_DEADLOCK FALSE
