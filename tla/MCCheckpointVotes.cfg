SPECIFICATION Spec
CONSTANTS
    n1 = n1
    n2 = n2
    n3 = n3
    Nodes <- MCNodes
    Validators <- MCNodes
    MinVotes = 2
    Interval = 2
    Buffer = 3
    Lifetime = 4
    Label = {"a", "b", "t"}
    Blocks <- MCBlocks
    Stored <- MCStored
    Targets = {0, 9}
    Detaching <- MCDetaching
    Restarting <- MCRestarting
    None = None
ACTION_CONSTRAINT OneListener
INVARIANTS IInv CheckpointsAreVoted VoteOnce OneBackedBlock
PROPERTIES VotesOnlyGrow
