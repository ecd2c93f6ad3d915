----------------------------- MODULE Checkpoints -----------------------------
(***************************************************************************)
(* One daemon's main chain, its alternative blocks and its table of        *)
(* checkpoints: how checkpoints come and go, which alternative blocks they *)
(* rule out, and the switch to an alternative chain with its rollback.     *)
(* Sources: checkpoints/checkpoints.cpp, get_immutable_checkpoint of       *)
(* blockchain_db.cpp, and of cryptonote_core/blockchain.cpp add_new_block, *)
(* handle_alternative_block, build_alt_chain,                              *)
(* switch_to_alternative_blockchain, rollback_blockchain_switching and     *)
(* pop_blocks, from hard fork 16 (Pulse) on.                               *)
(*                                                                         *)
(* A block is the path from the genesis block to it, a sequence of labels: *)
(* its hash covers its parent.  Its height is the length of the path.      *)
(***************************************************************************)
EXTENDS Integers, Sequences, FiniteSetsExt

CONSTANTS
    Label,          \* what tells a block from its siblings
    RoundOf,        \* the Pulse round of a block with a label, or Mined
    Mined,
    BaseWeight,     \* PULSE_BASE_WEIGHT
    Interval,       \* CHECKPOINT_INTERVAL
    StoreInterval,  \* CHECKPOINT_STORE_PERSISTENTLY_INTERVAL
    Signatures,     \* the possible numbers of votes in a checkpoint
    Blocks,         \* the blocks anybody ever makes
    Stored,         \* the chain the daemon starts with
    MaxLen,         \* bound: the longest chain
    MaxAlt,         \* bound: the most alternative blocks kept at a time
    CanPop,         \* whether the operator may pop blocks
    CanRestart,     \* whether the daemon may restart
    None

VARIABLES
    chain,      \* the main chain, without the genesis block
    cp,         \* the table of checkpoints: per height a checkpoint or None
    cull,       \* m_last_cull_height
    immutable,  \* m_immutable_height
    alt,        \* the alternative blocks, each with its checkpoint or None
    invalid,    \* m_invalid_blocks
    voted,      \* the blocks for which a quorum has voted
    work        \* the chain switch in progress, or Idle

vars == <<chain, cp, cull, immutable, alt, invalid, voted, work>>

Heights == 0 .. MaxLen
Chains == UNION {[1 .. n -> Label] : n \in Heights}
Checkpoint == [block : Chains, sigs : Signatures \cup {0}]
Table == [Heights -> Checkpoint \cup {None}]
Idle == [phase |-> "idle"]

ASSUME ParametersAssumption ==
    /\ Interval \in Nat \ {0}
    /\ StoreInterval \in Nat \ {0}
    /\ StoreInterval % Interval = 0
    /\ Signatures \subseteq Nat \ {0}
    /\ MaxLen \in Nat
    /\ MaxAlt \in Nat
    /\ Blocks \subseteq Chains \ {<<>>}
    /\ \A b \in Blocks : \A k \in 1 .. Len(b) : SubSeq(b, 1, k) \in Blocks
    /\ Stored \in Blocks \cup {<<>>}
    /\ None \notin Checkpoint
    /\ CanPop \in BOOLEAN
    /\ CanRestart \in BOOLEAN

Larger(a, b) == IF a > b THEN a ELSE b
Smaller(a, b) == IF a < b THEN a ELSE b

(* The ancestor of a block at a height.                                    *)
BlockAt(b, h) == SubSeq(b, 1, h)

(* The height of the chain is one more than that of its top block.         *)
ChainHeight == Len(chain) + 1

OnMain(b) == Len(b) <= Len(chain) /\ BlockAt(chain, Len(b)) = b

HaveBlock(b) == OnMain(b) \/ b \in DOMAIN alt \/ b \in invalid

-----------------------------------------------------------------------------
(* The table of checkpoints.  Of the hardcoded checkpoints only that of    *)
(* the genesis block is kept: it has no signatures, as all of them.        *)

Checkpointed(t, n) == {h \in Heights : h <= n /\ t[h] # None}

(* The checkpoint before the last, or the last if it is hardcoded.         *)
ImmutableHeight(t, n) ==
    LET found == Checkpointed(t, n)
        older == found \ {Max(found)}
    IN  IF found = {} THEN 0
        ELSE IF t[Max(found)].sigs = 0 THEN Max(found)
        ELSE IF older = {} THEN 0 ELSE Max(older)

RoundUp(n) == ((n + Interval - 1) \div Interval) * Interval

(* Adding a block at height h prunes the checkpoints below the immutable   *)
(* one except those stored for good, then stores the checkpoint c that     *)
(* came with the block.                                                    *)
CullFrom(t, last, h) ==
    LET end == ImmutableHeight(t, h + 1)
    IN  Larger(last, RoundUp(IF end < StoreInterval THEN 0 ELSE end - StoreInterval))

(* Mutant: also deletes the checkpoints stored for good.                   *)
Culled_persistent(t, last, h) ==
    LET end == ImmutableHeight(t, h + 1)
        from == CullFrom(t, last, h)
    IN  {x \in Heights : from <= x /\ x < end /\ (x - from) % Interval = 0}

Culled(t, last, h) ==
    LET end == ImmutableHeight(t, h + 1)
        from == CullFrom(t, last, h)
    IN  {x \in Heights : /\ from <= x /\ x < end
                         /\ (x - from) % Interval = 0
                         /\ x % StoreInterval # 0}

TableAfter(t, last, h, c) ==
    IF h < StoreInterval THEN t
    ELSE [x \in Heights |-> IF x = h /\ c # None THEN c
                            ELSE IF x \in Culled(t, last, h) THEN None
                            ELSE t[x]]

CullAfter(t, last, h) ==
    LET end == ImmutableHeight(t, h + 1)
        from == CullFrom(t, last, h)
    IN  IF h < StoreInterval THEN last
        ELSE IF from >= end THEN from ELSE from + RoundUp(end - from)

(* Mutant: spares the checkpoint at the height of the detach.              *)
Detached_above(t, n) ==
    LET top == Max(Checkpointed(t, MaxLen))
    IN  IF Checkpointed(t, MaxLen) = {} THEN t
        ELSE [h \in Heights |->
                IF /\ h > n /\ h >= Interval
                   /\ h <= top /\ (top - h) % Interval = 0
                THEN None ELSE t[h]]

(* Detaching the chain at height n deletes from the top checkpoint down to *)
(* n, an interval at a time.                                               *)
Detached(t, n) ==
    LET top == Max(Checkpointed(t, MaxLen))
    IN  IF Checkpointed(t, MaxLen) = {} THEN t
        ELSE [h \in Heights |->
                IF /\ h >= n /\ h >= Interval
                   /\ h <= top /\ (top - h) % Interval = 0
                THEN None ELSE t[h]]

(* A block on top of the main chain passes if no checkpoint contradicts it.*)
Passes(b) == cp[Len(b)] # None => cp[Len(b)].block = b

-----------------------------------------------------------------------------
(* Alternative blocks.                                                     *)

(* is_alternative_block_allowed: it brings the immutable height up to date *)
(* unless there is no checkpoint at all.                                   *)
NoCheckpoint == Checkpointed(cp, ChainHeight) = {}

ImmutableNow ==
    IF NoCheckpoint THEN immutable
    ELSE Larger(immutable, ImmutableHeight(cp, ChainHeight))

Allowed(h) == NoCheckpoint \/ h > ImmutableNow

(* The height of the first block of the alternative chain that ends in b.  *)
AltFront(b) ==
    Min({k \in 1 .. Len(b) : \A j \in k .. Len(b) - 1 : BlockAt(b, j) \in DOMAIN alt})

AltBlocks(b) == {BlockAt(b, k) : k \in AltFront(b) .. Len(b)}

(* Mutant: the fork may be below the immutable height.                     *)
Connects_anywhere(b) ==
    LET f == AltFront(b)
    IN  \/ f = Len(b)
        \/ f <= ChainHeight /\ OnMain(BlockAt(b, f - 1))

(* build_alt_chain: the alternative blocks below b hang on the main chain, *)
(* above the immutable height.                                             *)
Connects(b) ==
    LET f == AltFront(b)
    IN  \/ f = Len(b)
        \/ /\ f <= ChainHeight
           /\ OnMain(BlockAt(b, f - 1))
           /\ Allowed(f)

(* The checkpoint each block of the alternative chain brings along.        *)
Brought(b, c) ==
    [k \in Heights |->
        IF k \notin AltFront(b) .. Len(b) THEN None
        ELSE IF k = Len(b) THEN c
        ELSE IF alt[BlockAt(b, k)] # None THEN alt[BlockAt(b, k)]
        ELSE IF cp[k] # None /\ cp[k].block = BlockAt(b, k) THEN cp[k]
        ELSE None]

Contradicted(b) ==
    {k \in AltFront(b) .. Len(b) : cp[k] # None /\ cp[k].block # BlockAt(b, k)}

BlockWeight(l) ==
    1 + (IF RoundOf[l] = Mined THEN 0 ELSE BaseWeight \div (1 + RoundOf[l]))

WeightFrom(path, f) ==
    MapThenSumSet(LAMBDA h : BlockWeight(path[h]), f .. Len(path))

(* More checkpoints win; with as many, the heavier chain wins.             *)
Wins(b, c) ==
    LET f == AltFront(b)
        brought == Brought(b, c)
        ours == Cardinality(Contradicted(b))
        theirs == Cardinality({k \in Heights : brought[k] # None})
    IN  \/ theirs > ours
        \/ /\ theirs = ours
           /\ f < ChainHeight
           /\ WeightFrom(b, f) > WeightFrom(chain, f)

(* A block comes with a checkpoint of n votes, or with none (n = 0).        *)
(* Quorums do not vote for two blocks of one height: CheckpointVotes.tla   *)
(* says when this holds.                                                   *)
CheckpointOf(b, n) == IF n = 0 THEN None ELSE [block |-> b, sigs |-> n]

MayHave(b, n) ==
    n # 0 => /\ Len(b) % Interval = 0
             /\ \A v \in voted : Len(v) = Len(b) => v = b

(* add_new_block drops a checkpoint with fewer votes than the one it has.  *)
Kept(b, n) ==
    IF cp[Len(b)] # None /\ n < cp[Len(b)].sigs THEN None ELSE CheckpointOf(b, n)

Vote(b, n) == voted' = IF n = 0 THEN voted ELSE voted \cup {b}

-----------------------------------------------------------------------------
Init ==
    /\ chain = Stored
    /\ cp = [h \in Heights |-> IF h = 0 THEN [block |-> <<>>, sigs |-> 0] ELSE None]
    /\ cull = 0
    /\ immutable = 0
    /\ alt = [b \in {} |-> None]
    /\ invalid = {}
    /\ voted = {}
    /\ work = Idle

(* A block on top of the main chain, with a checkpoint or without.         *)
AddBlock(b, n) ==
    /\ MayHave(b, n)
    /\ work = Idle
    /\ Len(b) = ChainHeight /\ BlockAt(b, Len(chain)) = chain
    /\ ~HaveBlock(b)
    /\ Passes(b)
    /\ chain' = b
    /\ cp' = TableAfter(cp, cull, Len(b), Kept(b, n))
    /\ cull' = CullAfter(cp, cull, Len(b))
    /\ Vote(b, n)
    /\ UNCHANGED <<immutable, alt, invalid, work>>

(* The same, but the last of the hooks fails: the block is popped and the  *)
(* chain detached again.                                                   *)
AddBlockAborts(b, n) ==
    /\ MayHave(b, n)
    /\ work = Idle
    /\ Len(b) = ChainHeight /\ BlockAt(b, Len(chain)) = chain
    /\ ~HaveBlock(b)
    /\ Passes(b)
    /\ cp' = Detached(TableAfter(cp, cull, Len(b), Kept(b, n)), ChainHeight)
    /\ cull' = Smaller(CullAfter(cp, cull, Len(b)), ChainHeight)
    /\ Vote(b, n)
    /\ UNCHANGED <<chain, immutable, alt, invalid, work>>

(* A block whose parent is known and is not the top of the main chain.     *)
Alternative(b) ==
    /\ work = Idle
    /\ ~HaveBlock(b)
    /\ BlockAt(b, Len(b) - 1) # chain
    /\ OnMain(BlockAt(b, Len(b) - 1)) \/ BlockAt(b, Len(b) - 1) \in DOMAIN alt

(* Too old for the checkpoints, or refused for its timestamp or work.      *)
AltRefused(b) ==
    /\ Alternative(b)
    /\ immutable' = ImmutableNow
    /\ UNCHANGED <<chain, cp, cull, alt, invalid, voted, work>>

Without(blocks) == [a \in DOMAIN alt \ blocks |-> alt[a]]

(* Its chain no longer hangs on the main chain: it is cleaned up.          *)
AltDisconnected(b) ==
    /\ Alternative(b)
    /\ Allowed(Len(b))
    /\ ~Connects(b)
    /\ immutable' = ImmutableNow
    /\ alt' = Without(AltBlocks(b))
    /\ UNCHANGED <<chain, cp, cull, invalid, voted, work>>

With(b, c) == [a \in DOMAIN alt \cup {b} |-> IF a = b THEN c ELSE alt[a]]

(* It is stored and its chain does not win, or a hook refuses it.          *)
AltStored(b, n) ==
    /\ MayHave(b, n)
    /\ Alternative(b)
    /\ Cardinality(DOMAIN alt) < MaxAlt
    /\ Allowed(Len(b))
    /\ Connects(b)
    /\ immutable' = ImmutableNow
    /\ alt' = With(b, Kept(b, n))
    /\ Vote(b, n)
    /\ UNCHANGED <<chain, cp, cull, invalid, work>>

(* It is stored and its chain wins: the main chain is popped to the fork   *)
(* and detached there.                                                     *)
StartSwitch(b, n) ==
    /\ MayHave(b, n)
    /\ Alternative(b)
    /\ Cardinality(DOMAIN alt) < MaxAlt
    /\ Allowed(Len(b))
    /\ Connects(b)
    /\ Wins(b, Kept(b, n))
    /\ immutable' = ImmutableNow
    /\ alt' = With(b, Kept(b, n))
    /\ Vote(b, n)
    /\ LET f == AltFront(b)
       IN  /\ chain' = BlockAt(chain, f - 1)
           /\ cp' = Detached(cp, f)
           /\ cull' = Smaller(cull, f)
           /\ work' = [phase |-> "connect", fork |-> f, path |-> b,
                       brought |-> Brought(b, Kept(b, n)),
                       old |-> chain, oldcp |-> cp]
    /\ UNCHANGED invalid

NextOf(path) == BlockAt(path, ChainHeight)

(* Mutant: only the last of the alternative blocks is forgotten.           *)
ConnectNext_keeps ==
    /\ work.phase = "connect"
    /\ Passes(NextOf(work.path))
    /\ chain' = NextOf(work.path)
    /\ cp' = TableAfter(cp, cull, ChainHeight, work.brought[ChainHeight])
    /\ cull' = CullAfter(cp, cull, ChainHeight)
    /\ IF ChainHeight = Len(work.path)
       THEN work' = Idle /\ alt' = Without({work.path})
       ELSE UNCHANGED <<work, alt>>
    /\ UNCHANGED <<immutable, invalid, voted>>

(* The next block of the alternative chain is added to the main chain.     *)
(* After the last one the alternative blocks are forgotten.                *)
ConnectNext ==
    /\ work.phase = "connect"
    /\ Passes(NextOf(work.path))
    /\ chain' = NextOf(work.path)
    /\ cp' = TableAfter(cp, cull, ChainHeight, work.brought[ChainHeight])
    /\ cull' = CullAfter(cp, cull, ChainHeight)
    /\ IF ChainHeight = Len(work.path)
       THEN /\ work' = Idle
            /\ alt' = Without({BlockAt(work.path, k) : k \in work.fork .. Len(work.path)})
       ELSE UNCHANGED <<work, alt>>
    /\ UNCHANGED <<immutable, invalid, voted>>

(* Mutant: the checkpoints of what was connected stay.                     *)
ConnectFails_undetached(late) ==
    /\ work.phase = "connect"
    /\ IF late
       THEN /\ cp' = TableAfter(cp, cull, ChainHeight, work.brought[ChainHeight])
            /\ cull' = CullAfter(cp, cull, ChainHeight)
       ELSE UNCHANGED <<cp, cull>>
    /\ chain' = BlockAt(chain, work.fork - 1)
    /\ invalid' = invalid \cup {BlockAt(work.path, k) : k \in ChainHeight .. Len(work.path)}
    /\ alt' = Without({NextOf(work.path)})
    /\ work' = IF Len(work.old) < work.fork THEN Idle ELSE [work EXCEPT !.phase = "restore"]
    /\ UNCHANGED <<immutable, voted>>

(* It cannot be added, and is refused at once or after its hooks ran       *)
(* (late): what was connected is popped, and the old chain is to be added  *)
(* again.  The block leaves the alternative ones, its successors stay; all *)
(* are marked invalid.                                                     *)
ConnectFails(late) ==
    /\ work.phase = "connect"
    /\ LET t == IF late THEN TableAfter(cp, cull, ChainHeight, work.brought[ChainHeight]) ELSE cp
           last == IF late THEN CullAfter(cp, cull, ChainHeight) ELSE cull
       IN  /\ cp' = Detached(t, work.fork)
           /\ cull' = Smaller(last, work.fork)
    /\ chain' = BlockAt(chain, work.fork - 1)
    /\ invalid' = invalid \cup {BlockAt(work.path, k) : k \in ChainHeight .. Len(work.path)}
    /\ alt' = Without({NextOf(work.path)})
    /\ work' = IF Len(work.old) < work.fork THEN Idle ELSE [work EXCEPT !.phase = "restore"]
    /\ UNCHANGED <<immutable, voted>>

(* Mutant: without the checkpoint.                                         *)
RestoreNext_bare ==
    /\ work.phase = "restore"
    /\ Passes(NextOf(work.old))
    /\ chain' = NextOf(work.old)
    /\ cp' = TableAfter(cp, cull, ChainHeight, None)
    /\ cull' = CullAfter(cp, cull, ChainHeight)
    /\ work' = IF ChainHeight = Len(work.old) THEN Idle ELSE work
    /\ UNCHANGED <<immutable, alt, invalid, voted>>

(* The next block of the old chain is added again, with the checkpoint its *)
(* height had.                                                             *)
RestoreNext ==
    /\ work.phase = "restore"
    /\ Passes(NextOf(work.old))
    /\ chain' = NextOf(work.old)
    /\ cp' = TableAfter(cp, cull, ChainHeight, work.oldcp[ChainHeight])
    /\ cull' = CullAfter(cp, cull, ChainHeight)
    /\ work' = IF ChainHeight = Len(work.old) THEN Idle ELSE work
    /\ UNCHANGED <<immutable, alt, invalid, voted>>

(* handle_checkpoint_vote with enough votes for b: they are added to the   *)
(* checkpoint of b, or make a new one, in place of that of another block.  *)
VoteCheckpoint(b, n) ==
    /\ MayHave(b, n)
    /\ work = Idle
    /\ IF cp[Len(b)] # None /\ cp[Len(b)].block = b
       THEN n > cp[Len(b)].sigs
       ELSE Len(b) < ChainHeight
    /\ cp' = [cp EXCEPT ![Len(b)] = CheckpointOf(b, n)]
    /\ Vote(b, n)
    /\ UNCHANGED <<chain, cull, immutable, alt, invalid, work>>

(* The operator pops the blocks above height n.                            *)
PopBlocks(n) ==
    /\ CanPop
    /\ work = Idle
    /\ n < Len(chain)
    /\ chain' = BlockAt(chain, n)
    /\ cp' = Detached(cp, n + 1)
    /\ cull' = Smaller(cull, n + 1)
    /\ UNCHANGED <<immutable, alt, invalid, voted, work>>

(* What is in memory is lost, what is in the database stays.               *)
Restart ==
    /\ CanRestart
    /\ work = Idle
    /\ cull' = 0
    /\ immutable' = 0
    /\ invalid' = {}
    /\ UNCHANGED <<chain, cp, alt, voted, work>>

Next ==
    \/ \E b \in Blocks, n \in Signatures \cup {0} : AddBlock(b, n)
    \/ \E b \in Blocks, n \in Signatures \cup {0} : AddBlockAborts(b, n)
    \/ \E b \in Blocks : AltRefused(b)
    \/ \E b \in Blocks : AltDisconnected(b)
    \/ \E b \in Blocks, n \in Signatures \cup {0} : AltStored(b, n)
    \/ \E b \in Blocks, n \in Signatures \cup {0} : StartSwitch(b, n)
    \/ ConnectNext
    \/ \E late \in BOOLEAN : ConnectFails(late)
    \/ RestoreNext
    \/ \E b \in Blocks, n \in Signatures : VoteCheckpoint(b, n)
    \/ \E n \in Heights : PopBlocks(n)
    \/ Restart

Spec == Init /\ [][Next]_vars

-----------------------------------------------------------------------------
Switch ==
    [phase : {"connect", "restore"}, fork : 1 .. MaxLen, path : Blocks,
     brought : Table, old : Chains, oldcp : Table]

(* The types of the variables.                                             *)
TypeOK ==
    /\ chain \in Chains
    /\ cp \in Table
    /\ cull \in Nat
    /\ immutable \in Nat
    /\ DOMAIN alt \subseteq Blocks
    /\ alt \in [DOMAIN alt -> Checkpoint \cup {None}]
    /\ invalid \subseteq Blocks
    /\ voted \subseteq Blocks
    /\ work \in {Idle} \cup Switch

(* The height below which alternative blocks are refused.  It does not     *)
(* move during a switch, which is one call under the lock of the chain.    *)
Locked ==
    IF work = Idle THEN Larger(immutable, ImmutableHeight(cp, ChainHeight))
    ELSE immutable

(* Blocks at or below the locked height are never replaced and the height  *)
(* never falls, but by pop_blocks and by a restart: block_add,             *)
(* blockchain_detached and the chain switch, in all their orders,          *)
(* implement the promise of Ledger.tla.                                    *)
Promise == INSTANCE Ledger WITH locked <- Locked, switching <- work # Idle,
                                CanCut <- CanPop, CanForget <- CanRestart
LockedBlocksStay == Promise!Spec

(* While the old chain is added again its blocks pass the checkpoints: the *)
(* rollback of switch_to_alternative_blockchain never stops half way.      *)
RollbackSucceeds ==
    work.phase = "restore" =>
        ChainHeight <= Len(work.old) /\ Passes(NextOf(work.old))

(* A switch that fails leaves the chain as it was, and every checkpoint    *)
(* above the fork that is high enough for block_add to store one.          *)
FailedSwitchRestores ==
    [][work.phase = "restore" /\ work' = Idle =>
         /\ chain' = work.old
         /\ \A h \in work.fork .. Len(chain') :
               h >= StoreInterval => cp'[h] = work.oldcp[h]]_vars

(* A block is on the main chain or an alternative one, never both: what    *)
(* handle_alternative_block and the switch leave in the alternative table  *)
(* is not on the chain when they return.                                   *)
AlternativesOffMain == work = Idle => \A b \in DOMAIN alt : ~OnMain(b)

(* No checkpoint is ahead of the chain: blockchain_detached, which deletes *)
(* an interval at a time from the top, misses none.                        *)
NoneAhead == \A h \in Heights : h > Len(chain) => cp[h] = None

(* "blocks preceeding the N checkpoints are locked in": once two           *)
(* checkpoints have locked a block it stays locked.                        *)
LockedForGood == [][Locked' >= Locked]_vars

-----------------------------------------------------------------------------
(* The inductive invariant from which the above follow.                    *)

(* The genesis block is checkpointed, the other checkpoints have votes and *)
(* are an interval apart.                                                  *)
TableOK(t) ==
    /\ t[0] # None
    /\ \A h \in Heights \ {0} :
          t[h] # None => t[h].sigs \in Signatures /\ h % Interval = 0

(* What an alternative block or chain brings along, likewise.              *)
BringsOK(t) ==
    \A h \in Heights :
        t[h] # None => h > 0 /\ t[h].sigs \in Signatures /\ h % Interval = 0

Below(b, c) == Len(b) <= Len(c) /\ BlockAt(c, Len(b)) = b

(* During a switch the chain is between the fork and the end of the chain  *)
(* it follows, the fork is above all that is locked, and what was above it *)
(* is remembered.                                                          *)
SwitchOK ==
    LET target == IF work.phase = "connect" THEN work.path ELSE work.old
    IN  /\ work.fork > immutable
        /\ work.fork - 1 <= Len(chain) /\ Len(chain) < Len(target)
        /\ work.fork - 1 <= Len(work.old)
        /\ chain = BlockAt(target, Len(chain))
        /\ BlockAt(work.path, work.fork - 1) = BlockAt(work.old, work.fork - 1)
        /\ BringsOK(work.brought)
        /\ TableOK(work.oldcp)
        /\ \A h \in Heights : h > Len(work.old) => work.oldcp[h] = None
        /\ ImmutableHeight(work.oldcp, Len(work.old) + 1) <= immutable
        /\ \A b \in DOMAIN alt : ~Below(b, work.old)
        /\ work.phase = "restore" =>
              \A h \in work.fork .. Len(chain) :
                 cp[h] = IF h >= StoreInterval THEN work.oldcp[h] ELSE None
        /\ \A h \in 0 .. work.fork - 1 : cp[h] # None => work.oldcp[h] # None

IInv ==
    /\ TypeOK
    /\ TableOK(cp)
    /\ NoneAhead
    /\ AlternativesOffMain
    /\ \A b \in DOMAIN alt :
          alt[b] # None => alt[b].sigs \in Signatures /\ Len(b) % Interval = 0
    /\ work # Idle => SwitchOK
============================================================================
