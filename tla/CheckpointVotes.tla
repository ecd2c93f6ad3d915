--------------------------- MODULE CheckpointVotes ---------------------------
(***************************************************************************)
(* How service nodes vote for checkpoints and turn votes into checkpoints. *)
(* Sources: cryptonote_core/service_node_quorum_cop.cpp (process_quorums,  *)
(* handle_vote, handle_checkpoint_vote, block_add, blockchain_detached)    *)
(* and service_node_voting.cpp (the voting pool, verify_vote_age,          *)
(* verify_checkpoint), with the chains of the nodes as far as they matter. *)
(*                                                                         *)
(* Votes are lost, duplicated and reordered by the network.  A node        *)
(* handles votes in several threads while its chain changes in another:    *)
(* the age of a vote is tested, the vote is added to the pool, and the     *)
(* table of checkpoints is updated, in three steps.                        *)
(*                                                                         *)
(* Blocks are as in Checkpoints.tla: the path from the genesis block.      *)
(***************************************************************************)
EXTENDS Integers, Sequences, FiniteSets

CONSTANTS
    Nodes,          \* the daemons
    Validators,     \* those in the checkpoint quorum
    MinVotes,       \* CHECKPOINT_MIN_VOTES
    Interval,       \* CHECKPOINT_INTERVAL
    Buffer,         \* REORG_SAFETY_BUFFER_BLOCKS_POST_HF12
    Lifetime,       \* VOTE_LIFETIME
    Label,          \* what tells a block from its siblings
    Blocks,         \* the blocks anybody ever makes
    Stored,         \* the chain all nodes start with
    Targets,        \* the heights a node may be synchronising to
    Detaching,      \* the nodes whose chain may lose blocks
    Restarting,     \* the nodes that may restart
    None

VARIABLES
    chain,   \* per node: its main chain
    last,    \* per node: m_last_checkpointed_height
    pool,    \* per node: the votes in m_checkpoint_pool
    jobs,    \* per node: the votes its threads handle; with the voters for
             \* the same block once it is in the pool, and with {} before
    cp,      \* per node: the table of checkpoints
    sent,    \* the votes that were ever signed
    steady   \* per node: it never restarted nor lost as many blocks as Buffer

vars == <<chain, last, pool, jobs, cp, sent, steady>>

Chains == Blocks \cup {<<>>}
Heights == {Len(b) : b \in Blocks}
Votable == {b \in Blocks : Len(b) % Interval = 0}
Vote == [voter : Validators, block : Votable]
Checkpoint == [block : Votable, voters : SUBSET Validators]
Job == [vote : Vote, votes : SUBSET Validators]

ASSUME ParametersAssumption ==
    /\ IsFiniteSet(Validators) /\ Validators \subseteq Nodes
    /\ MinVotes \in Nat \ {0} /\ Interval \in Nat \ {0}
    /\ Buffer \in Nat \ {0} /\ Lifetime \in Nat
    /\ Targets \subseteq Nat
    /\ Blocks \subseteq Seq(Label) \ {<<>>}
    /\ \A b \in Blocks : \A k \in 1 .. Len(b) : SubSeq(b, 1, k) \in Blocks
    /\ Stored \in Chains
    /\ None \notin Checkpoint

Larger(a, b) == IF a > b THEN a ELSE b
RoundUp(n) == ((n + Interval - 1) \div Interval) * Interval
BlockAt(b, h) == SubSeq(b, 1, h)
ChainHeight(n) == Len(chain[n]) + 1

-----------------------------------------------------------------------------
(* The voting pool.                                                        *)

VotersFor(votes, b) == {v \in Validators : [voter |-> v, block |-> b] \in votes}

(* remove_expired_votes                                                    *)
Unexpired(votes, height) ==
    {v \in votes : Len(v.block) >= height - Lifetime /\ Len(v.block) <= height}

(* verify_vote_age                                                         *)
AgeOK(v, height) ==
    /\ height <= Len(v.block) + Lifetime
    /\ Len(v.block) <= height

(* Mutant: counts the votes for another block of the height.               *)
Updated_anyblock(t, b, voters, height) ==
    LET old == t[Len(b)]
    IN  IF old # None
        THEN [t EXCEPT ![Len(b)] = [block |-> b, voters |-> old.voters \cup voters]]
        ELSE IF Len(b) < height
        THEN [t EXCEPT ![Len(b)] = [block |-> b, voters |-> voters]]
        ELSE t

(* Mutant: replaces the checkpoint instead of adding the votes to it.      *)
Updated_replaces(t, b, voters, height) ==
    IF Len(b) < height
    THEN [t EXCEPT ![Len(b)] = [block |-> b, voters |-> voters]]
    ELSE t

(* Mutant: accepts a checkpoint of a block the node does not have yet.     *)
Updated_ahead(t, b, voters, height) ==
    LET old == t[Len(b)]
    IN  IF old # None /\ old.block = b
        THEN [t EXCEPT ![Len(b)] = [block |-> b, voters |-> old.voters \cup voters]]
        ELSE [t EXCEPT ![Len(b)] = [block |-> b, voters |-> voters]]

(* handle_checkpoint_vote: what becomes of the checkpoint at the height of *)
(* block b when votes for b of these voters are in the pool.               *)
Updated(t, b, voters, height) ==
    LET old == t[Len(b)]
    IN  IF old # None /\ old.block = b
        THEN [t EXCEPT ![Len(b)] = [block |-> b, voters |-> old.voters \cup voters]]
        ELSE IF Len(b) < height
        THEN [t EXCEPT ![Len(b)] = [block |-> b, voters |-> voters]]
        ELSE t

Enough(voters) == Cardinality(voters) >= MinVotes

-----------------------------------------------------------------------------
(* process_quorums, when block b is added by a node that knows of blocks   *)
(* up to height target.                                                    *)

Latest(b, target) == Larger(Len(b) + 1, target)

VotesNow(b, target) ==
    /\ Latest(b, target) >= Lifetime
    /\ Len(b) >= Latest(b, target) - Lifetime

(* Mutant: forgets what was voted on before.                               *)
VoteFrom_start(n, b, target) == RoundUp(Latest(b, target) - Lifetime)

VoteFrom(n, b, target) == Larger(RoundUp(Latest(b, target) - Lifetime), last[n])

(* The heights voted on: from m_last_checkpointed_height to the block.     *)
VoteHeights(n, b, target) ==
    {h \in VoteFrom(n, b, target) .. Len(b) - 1 :
        (h - VoteFrom(n, b, target)) % Interval = 0 /\ h >= Buffer}

OwnVotes(n, b, target) ==
    {[voter |-> v, block |-> BlockAt(b, h)] :
        v \in Validators \cap {n}, h \in VoteHeights(n, b, target)}

LastAfter(n, b, target) ==
    LET from == VoteFrom(n, b, target)
    IN  IF from >= Len(b) THEN from ELSE from + RoundUp(Len(b) - from)

(* The table after the own votes went through handle_vote.                 *)
TableAfterOwn(n, own) ==
    [h \in Heights |->
        LET new == {v \in own \ pool[n] : Len(v.block) = h}
            b == (CHOOSE v \in new : TRUE).block
            voters == VotersFor(pool[n] \cup own, b)
        IN  IF new = {} \/ ~Enough(voters) THEN cp[n][h]
            ELSE Updated(cp[n], b, voters, h + 1)[h]]

(* checkpoints::block_add may prune what is below the immutable checkpoint *)
(* (Checkpoints.tla says what exactly) and stores the one that came along. *)
Prunable(t) ==
    {h \in Heights : \E i, j \in Heights : h < i /\ i < j /\ t[i] # None /\ t[j] # None}

Stores(t, b, pruned, with) ==
    [h \in Heights |-> IF h = Len(b) /\ with # {} THEN [block |-> b, voters |-> with]
                      ELSE IF h \in pruned THEN None ELSE t[h]]

(* verify_checkpoint: signatures cannot be forged.                         *)
VerifyCheckpoint(b, voters) ==
    /\ Len(b) % Interval = 0
    /\ Enough(voters)
    /\ voters \subseteq VotersFor(sent, b)

-----------------------------------------------------------------------------
Init ==
    /\ chain = [n \in Nodes |-> Stored]
    /\ last = [n \in Nodes |-> 0]
    /\ pool = [n \in Nodes |-> {}]
    /\ jobs = [n \in Nodes |-> {}]
    /\ cp = [n \in Nodes |-> [h \in Heights |-> None]]
    /\ sent = {}
    /\ steady = [n \in Nodes |-> TRUE]

(* A block is added to the chain: the hook of the quorum cop, then that of *)
(* the checkpoints.  The node votes if it is an active service node then.  *)
(* The block may come with a checkpoint, which verify_checkpoint accepts   *)
(* if enough of the quorum signed it.                                      *)
AddBlock(n, b, target, active, with) ==
    /\ Len(b) = ChainHeight(n) /\ BlockAt(b, Len(chain[n])) = chain[n]
    /\ with # {} => VerifyCheckpoint(b, with)
    /\ chain' = [chain EXCEPT ![n] = b]
    /\ LET votes == active /\ VotesNow(b, target)
           own == IF votes THEN OwnVotes(n, b, target) ELSE {}
           t == TableAfterOwn(n, own)
       IN  /\ last' = [last EXCEPT ![n] = IF votes THEN LastAfter(n, b, target) ELSE @]
           /\ sent' = sent \cup own
           /\ pool' = [pool EXCEPT ![n] = Unexpired(@ \cup own, Len(b) + 1)]
           /\ \E pruned \in SUBSET Prunable(t) :
                 cp' = [cp EXCEPT ![n] = Stores(t, b, pruned, with)]
    /\ UNCHANGED <<jobs, steady>>

(* A thread takes a vote from the network and finds its age acceptable.    *)
ReceiveVote(n, v) ==
    /\ v \in sent
    /\ AgeOK(v, ChainHeight(n))
    /\ jobs' = [jobs EXCEPT ![n] = @ \cup {[vote |-> v, votes |-> {}]}]
    /\ UNCHANGED <<chain, last, pool, cp, sent, steady>>

(* Mutant: counts the votes before it adds the new one.                    *)
AddToPool_before(n, v) ==
    LET job == [vote |-> v, votes |-> {}]
        voters == VotersFor(pool[n], v.block)
    IN  /\ job \in jobs[n]
        /\ pool' = [pool EXCEPT ![n] = @ \cup {v}]
        /\ jobs' = [jobs EXCEPT ![n] =
                      IF v \notin pool[n] /\ Enough(voters)
                      THEN (@ \ {job}) \cup {[vote |-> v, votes |-> voters]}
                      ELSE @ \ {job}]
        /\ UNCHANGED <<chain, last, cp, sent, steady>>

(* add_pool_vote_if_unique: the thread leaves the vote in the pool and     *)
(* goes on with the votes for the block if there are enough.               *)
AddToPool(n, v) ==
    LET job == [vote |-> v, votes |-> {}]
        voters == VotersFor(pool[n] \cup {v}, v.block)
    IN  /\ job \in jobs[n]
        /\ pool' = [pool EXCEPT ![n] = @ \cup {v}]
        /\ jobs' = [jobs EXCEPT ![n] =
                      IF v \notin pool[n] /\ Enough(voters)
                      THEN (@ \ {job}) \cup {[vote |-> v, votes |-> voters]}
                      ELSE @ \ {job}]
        /\ UNCHANGED <<chain, last, cp, sent, steady>>

(* handle_checkpoint_vote, under the lock of the chain.                    *)
Submit(n, v) ==
    \E job \in jobs[n] :
        /\ job.vote = v /\ job.votes # {}
        /\ jobs' = [jobs EXCEPT ![n] = @ \ {job}]
        /\ cp' = [cp EXCEPT ![n] = Updated(@, v.block, job.votes, ChainHeight(n))]
        /\ UNCHANGED <<chain, last, pool, sent, steady>>

(* Mutant: votes again after every detach.                                 *)
LastDetached_always(l, height) ==
    IF l >= height THEN height - (height % Interval) ELSE l

(* blockchain_detached: a node that has voted far beyond the new height of *)
(* the chain goes back and votes again.                                    *)
LastDetached(l, height) ==
    IF l >= height + Buffer THEN height - (height % Interval) ELSE l

(* A chain switch, a failed block or the operator takes the blocks above   *)
(* height k off the chain.                                                 *)
Detach(n, k) ==
    /\ n \in Detaching /\ k < Len(chain[n])
    /\ chain' = [chain EXCEPT ![n] = BlockAt(@, k)]
    /\ last' = [last EXCEPT ![n] = LastDetached(@, k + 1)]
    /\ steady' = [steady EXCEPT ![n] = @ /\ last[n] < k + 1 + Buffer]
    /\ pool' = [pool EXCEPT ![n] = Unexpired(@, k + 1)]
    /\ cp' = [cp EXCEPT ![n] = [h \in Heights |-> IF h > k THEN None ELSE @[h]]]
    /\ UNCHANGED <<jobs, sent>>

(* The chain and the checkpoints are on disk, the rest is lost.            *)
Restart(n) ==
    /\ n \in Restarting
    /\ last' = [last EXCEPT ![n] = 0]
    /\ pool' = [pool EXCEPT ![n] = {}]
    /\ jobs' = [jobs EXCEPT ![n] = {}]
    /\ steady' = [steady EXCEPT ![n] = FALSE]
    /\ UNCHANGED <<chain, cp, sent>>

Next ==
    \/ \E n \in Nodes, b \in Blocks, target \in Targets, active \in BOOLEAN,
          with \in SUBSET Validators : AddBlock(n, b, target, active, with)
    \/ \E n \in Nodes, v \in Vote : ReceiveVote(n, v)
    \/ \E n \in Nodes, v \in Vote : AddToPool(n, v)
    \/ \E n \in Nodes, v \in Vote : Submit(n, v)
    \/ \E n \in Nodes, k \in Heights \cup {0} : Detach(n, k)
    \/ \E n \in Nodes : Restart(n)

Spec == Init /\ [][Next]_vars

(* A vote is sent again every two minutes as long as it is in a pool       *)
(* (get_relayable_votes), so that it arrives in the end; the threads of a  *)
(* node handle what they have received.                                    *)
Held(v) == \E m \in Nodes : v \in pool[m]

Fairness ==
    \A n \in Nodes, v \in Vote :
        /\ WF_vars(Held(v) /\ ReceiveVote(n, v))
        /\ WF_vars(AddToPool(n, v))
        /\ WF_vars(Submit(n, v))

FairSpec == Spec /\ Fairness

-----------------------------------------------------------------------------
(* Properties.                                                             *)

(* The state is well formed.                                               *)
TypeOK ==
    /\ chain \in [Nodes -> Chains]
    /\ last \in [Nodes -> Nat]
    /\ pool \in [Nodes -> SUBSET Vote]
    /\ jobs \in [Nodes -> SUBSET Job]
    /\ cp \in [Nodes -> [Heights -> Checkpoint \cup {None}]]
    /\ sent \in SUBSET Vote
    /\ steady \in [Nodes -> BOOLEAN]

(* Every checkpoint of every node, whichever thread stored it and however  *)
(* old its list of votes was, carries enough votes that quorum members     *)
(* signed for this very block: what verify_checkpoint of the peers that    *)
(* receive it demands.                                                     *)
CheckpointsAreVoted ==
    \A n \in Nodes, h \in Heights :
        cp[n][h] # None =>
            /\ Len(cp[n][h].block) = h
            /\ Enough(cp[n][h].voters)
            /\ cp[n][h].voters \subseteq VotersFor(sent, cp[n][h].block)

(* A quorum member votes for one block of a height only, whatever blocks   *)
(* its chain loses and gains, unless it restarted or its chain went back   *)
(* Buffer blocks below the height it would vote on next.                   *)
VoteOnce ==
    \A u, v \in sent :
        u.voter = v.voter /\ Len(u.block) = Len(v.block) /\ u.block # v.block
            => ~steady[u.voter]

Unsteady == {v \in Validators : ~steady[v]}

(* Two blocks of one height both get enough votes for a checkpoint only if *)
(* at least twice the votes needed less the size of the quorum restarted   *)
(* or went back Buffer blocks.  With 13 of 20 votes these are six nodes.   *)
OneBackedBlock ==
    \A u, v \in sent :
        /\ Len(u.block) = Len(v.block) /\ u.block # v.block
        /\ Enough(VotersFor(sent, u.block))
        /\ Enough(VotersFor(sent, v.block))
        => Cardinality(Unsteady) >= 2 * MinVotes - Cardinality(Validators)

KeepsVotes ==
    \A n \in Nodes, h \in Heights :
        cp[n][h] # None /\ cp'[n][h] # None /\ cp'[n][h].block = cp[n][h].block
            => cp[n][h].voters \subseteq cp'[n][h].voters

(* A checkpoint does not lose votes while its block stays the same, though *)
(* threads store lists of votes they counted at different times: what the  *)
(* lock in handle_checkpoint_vote is for.                                  *)
VotesOnlyGrow == [][KeepsVotes]_vars

(* The invariant that implies the others.                                  *)
Consistent ==
    /\ \A n \in Nodes : pool[n] \subseteq sent
    /\ \A n \in Nodes : \A j \in jobs[n] :
          /\ j.vote \in sent
          /\ j.votes # {} => /\ j.votes \subseteq VotersFor(sent, j.vote.block)
                              /\ Enough(j.votes)
    /\ \A n \in Nodes, h \in Heights : cp[n][h] # None => h <= Len(chain[n])
    /\ \A v \in sent : steady[v.voter] => Len(v.block) < last[v.voter]
    /\ \A n \in Nodes : last[n] % Interval = 0

IInv == TypeOK /\ CheckpointsAreVoted /\ VoteOnce /\ Consistent

(* The votes of the members S for block b are held by some node, b is on   *)
(* the chain of n, n still accepts votes for it and has too few.           *)
Wanted(n, b, S) ==
    /\ \A v \in S : Held([voter |-> v, block |-> b])
    /\ Len(b) <= Len(chain[n]) /\ b = BlockAt(chain[n], Len(b))
    /\ ChainHeight(n) <= Len(b) + Lifetime

HasCheckpoint(n, b) == cp[n][Len(b)] # None /\ cp[n][Len(b)].block = b

(* A node whose chain has a block that enough members voted for, and that  *)
(* does not have enough of these votes yet, gets the checkpoint, unless    *)
(* the block leaves its chain, the votes expire or nobody has them any     *)
(* more, or the node restarts again and again.                             *)
CheckpointForms ==
    \A n \in Nodes, b \in Votable, S \in SUBSET Validators :
        Enough(S) =>
            \/ (Wanted(n, b, S) /\ ~Enough(VotersFor(pool[n], b)))
                   ~> (HasCheckpoint(n, b) \/ ~Wanted(n, b, S))
            \/ []<><<Restart(n)>>_vars
==============================================================================
