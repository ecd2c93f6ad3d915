---------------------------- MODULE MCCheckpoints ----------------------------
EXTENDS Checkpoints, TLC

MCRounds == [l \in {"a", "b"} |-> IF l = "a" THEN 0 ELSE 2]
MCStored == <<"b", "b">>
MCTips == { <<"b", "b", "b", "b", "b", "b">>, <<"b", "b", "b", "a", "b">> }
MCBlocks == UNION {{SubSeq(t, 1, k) : k \in 1 .. Len(t)} : t \in MCTips}
=============================================================================
