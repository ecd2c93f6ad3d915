-------------------------- MODULE MCCheckpointVotes --------------------------
EXTENDS CheckpointVotes, TLC

CONSTANTS n1, n2, n3

MCNodes == {n1, n2, n3}
MCDetaching == {n1, n2}
MCRestarting == {n2}
MCStored == <<"t", "t", "t">>
FirstTip == <<"t", "t", "t", "a", "a">>
SecondTip == <<"t", "t", "t", "b", "b">>
MCTips == {FirstTip, SecondTip}
MCBlocks == UNION {{SubSeq(t, 1, k) : k \in 1 .. Len(t)} : t \in MCTips}

LiveTip == <<"a", "a", "a", "a">>
LiveBlocks == {SubSeq(LiveTip, 1, k) : k \in 1 .. Len(LiveTip)}
LiveStored == <<"a", "a">>

State(n) == <<chain[n], last[n], pool[n], jobs[n], cp[n], steady[n]>>
Moves(n) == State(n) # State(n)'
AtTop(n) == Len(chain[n]) = 5
AtStart(n) == chain[n] = Stored /\ last[n] = 0 /\ steady[n] /\ pool[n] = {} /\ jobs[n] = {}

(* Only n1 receives votes and checkpoints: the network may lose those to   *)
(* the others.  What n2 and n3 do then depends on nobody else, so they go  *)
(* first, and n2 ends on the second branch, where it can always go without *)
(* voting, and with a restart unless it is steady.  n3                     *)
(* takes the first branch, n1 goes back to the fork at most.               *)
OneListener ==
    /\ jobs'[n2] = {} /\ jobs'[n3] = {} /\ Cardinality(jobs'[n1]) <= 2
    /\ \A n \in {n2, n3}, h \in Heights : cp'[n][h] = None
    /\ Moves(n3) => /\ AtStart(n2) /\ AtStart(n1) /\ Len(chain[n3]) < Len(chain'[n3])
                    /\ chain'[n3] \in {BlockAt(FirstTip, k) : k \in 4 .. 5}
    /\ Moves(n2) => AtTop(n3) /\ AtStart(n1) /\ Len(chain'[n2]) >= 2
    /\ Moves(n1) => /\ AtTop(n3) /\ chain[n2] = SecondTip
                    /\ steady[n2] \/ last[n2] = 0
                    /\ Len(chain'[n1]) >= 3
=============================================================================
