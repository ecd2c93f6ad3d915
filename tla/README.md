# Verification of the service node core

TLA+ models of the daemon's service node logic, the TLC configurations that check
them on small instances, and TLAPS proofs of what matters most for every size.
Paths are relative to the repository root (`src/` is its source directory, so the
ceremony is `src/src/cryptonote_core/pulse.cpp` seen from beside this directory).
`PROJECT.json` holds the machine-readable form: components, runs, mutants, the map
from definitions to source lines, findings, hazards and theorems.

Contents: 1 inventory, 2 modules, 3 runs, 4 fairness, 5 proofs, 6 findings,
7 abstractions, 8 not modelled.

## 1. Inventory

The daemon is a CryptoNote node whose blocks are produced by *service nodes*: nodes
with a registered stake that are drawn into quorums. The parts below are those that
carry logic of this program's own.

| Component (source) | State | Operations | Interacts with | What is hard | What makes it correct |
|---|---|---|---|---|---|
| Pulse ceremony (`cryptonote_core/pulse.cpp`) | one global `round_context` per node: state, height, top hash, round, early queue, messages of each stage, locked in bitset, random value, final block | `main` (called every 500 ms, one function per `round_state`), `handle_message` | service node list (quorum), blockchain (height, top, `handle_block_found`), quorumnet (relay, receipt) | messages lost, early, late, of other rounds; stages time out separately on each node; blocks arrive during a ceremony; nothing is persisted | participants and block of a round are agreed on; no node signs twice for a round; commit before reveal; a complete block verifies; no round hangs |
| Pulse timing (`pulse.cpp`, `service_node_rules.h`, `verify_block` in `service_node_list.cpp`) | r0, round, stage end times; timestamp of the top block | `get_round_timings`, `convert_time_to_round`, `verify_block_components` | ceremony, blockchain, miners | skewed clocks, late calls, the byte-sized round, both kinds of block near the fallback time | rounds are run in their time; templates are valid; exactly one kind of block is acceptable; the chain keeps its schedule |
| Pulse quorum selection (`service_node_list.cpp`) | none (a function of entropy and the active list) | `get_pulse_entropy_for_next_block`, `generate_pulse_quorum` | ceremony, block verification | index arithmetic at the partition limits, stale inputs | distinct members, producer is not a validator, all nodes draw alike |
| Voting pool (`service_node_voting.cpp`) | votes per state change and per checkpoint, with the time they were sent | `add_pool_vote_if_unique`, `remove_used_votes`, `remove_expired_votes`, `get_relayable_votes`, `set_relayed` | quorum cop, protocol handler | votes of several blocks at one height; expiry against late arrival | one vote per voter and item; what is used or expired goes |
| Quorum cop (`service_node_quorum_cop.cpp`) | next obligations height, last checkpointed height, voting pool | `block_add`, `blockchain_detached`, `process_quorums`, `handle_vote` | service node list, blockchain (checkpoints), core (state change transactions) | reorganisations set heights back; restart; unsigned subtraction of the safety buffer | every quorum height is judged once per chain; a checkpoint carries enough votes for one block |
| Service node list (`service_node_list.cpp`) | registered nodes, key images, quorums, alternative-chain states, history of states | `process_block`, `process_registration_tx`, `process_contribution_tx`, `process_state_change_tx`, `blockchain_detached`, `store`, `load` | everything above | order of state changes in a block; sparse history and replay after detach | the state is a function of the chain, however it was reached |
| Uptime proofs (`uptime_proof.cpp`, `service_node_list.cpp`) | last proof and participation history of each node | `handle_uptime_proof`, `record_*_participation` | quorum cop | freshness, future timestamps | a reachable node is not judged unreachable |
| Checkpoints (`checkpoints/checkpoints.cpp`) | checkpoints in the database, immutable height | `update_checkpoint`, `block_add`, `blockchain_detached`, `is_alternative_block_allowed` | blockchain, quorum cop | two alternating checkpoints make a block immutable | the chain is never reorganised below the immutable height |
| Blink (`tx_blink.cpp`, `quorumnet.cpp`) | signatures of two subquorums per transaction, early votes | `add_signature`, `approved`, `rejected`, relay, submission | pool, quorums | signatures arrive before the transaction and from several threads | never approved and rejected; an approved transaction is mined |
| Transaction pool (`tx_pool.cpp`) | transactions, spent key images, blink set | `add_tx`, `add_new_blink`, `remove_*`, `take_tx`, `on_idle`, `validate` | blockchain, Blink | conflicts, rollback for Blink, pruning | no two transactions spend the same key image |
| Blockchain (`blockchain.cpp`) | main chain, alternative blocks, hooks | `add_new_block`, `handle_alternative_block`, `switch_to_alternative_blockchain`, `pop_blocks` | all hooks above | a switch that fails half way is rolled back, with every hook | all components agree with the chain after any switch |
| Block download queue (`block_queue.cpp`) | spans, requested hashes | `add_blocks`, `reserve_span`, `flush_spans`, `remove_span` | protocol handler | spans of different peers share hashes | no height is lost or fetched for ever |
| Synchronisation protocol (`cryptonote_protocol_handler.inl`) | state per connection | handlers of the P2P commands | queue, blockchain, pool | stale peers, drop and retry | a node behind catches up |
| Quorumnet (`quorumnet.cpp`) | connections, Blink request state | relay and receipt of Pulse, Blink and timestamp messages | Pulse, Blink | partial relays | reaches the quorum |
| Batched rewards (`db_sqlite.cpp`) | accrued balances | `add_block`, `pop_block` | blockchain | pop must undo add | balances are a function of the chain |
| Name system (`oxen_name_system.cpp`) | records, owners | buy, update, renew, `block_detach` | blockchain | undo of updates | one owner per name |
| Swarms (`service_node_swarm.cpp`) | swarm of each node | `calc_swarm_changes` | service node list | stealing between swarms | every node is in one swarm of legal size |
| Peer lists (`net_peerlist.cpp`) | white, grey, anchor lists | append, evict | P2P | limits | bounded, no duplicates |

Checkpoints, voting for them and the chain switch are modelled beside the two parts of
Pulse; the other rows are in section 8.

How they fit together: a block enters through `Blockchain::add_new_block`, whose hooks
run the service node list, the quorum cop, the checkpoints, the rewards and the name
system on it. A quorumnet thread runs the ceremony, which reads the list and the chain
and hands a finished block back to `add_new_block` through `core::handle_block_found`.
Votes travel over P2P into the quorum cop and come back into the chain as state change
transactions or as checkpoints.

What is hard to test in this code is listed line by line under `hazards` in
`PROJECT.json`, with the properties that cover each.

## 2. Modules

| Module | What it is |
|---|---|
| `Pulse` | the ceremony: specification, properties, inductive invariant |
| `PulseTiming` | the clock of the ceremony and the timestamps the chain accepts |
| `Checkpoints` | one daemon's chain, alternative blocks, checkpoints and chain switch |
| `Ledger` | what `Checkpoints` promises: a locked height below which no block is replaced |
| `CheckpointVotes` | several nodes that vote, exchange votes and turn them into checkpoints |
| `MCPulse`, `MCPulseTiming`, `MCCheckpoints`, `MCCheckpointVotes` | instances for TLC |
| `PulseLemmas` | lemmas about the operators of `Pulse` (holding, receiving, draining messages), about a step of one node and about what the stages collect |
| `PulseRoundSteps`, `PulseBlockSteps` | preservation of both invariants by the steps up to the lock in and by those of the environment, and by the steps from the lock in to the block |
| `PulseProofs` | how quorums count and meet, and the theorems of the ceremony |
| `PulseTimingProofs` | the theorems of the clock |
| `CheckpointsLemmas` | what pruning, detaching and the immutable height do to a table of checkpoints, and preservation of the invariant |
| `CheckpointsProofs` | the theorems of the checkpoints, with the refinement of `Ledger` |
| `CheckpointVotesProofs` | the theorems of voting |

### Pulse

A quorum has one producer and `NumValidators` validators (11 in the code), of which
`Required` (7) must sign. The code runs on one thread per node, which alternates
between `pulse::main` and the receipt of messages, so each state function of `main`
is one action and `handle_message` another:

| Code | Model |
|---|---|
| `round_context context` | `context[n]`; `received` holds `transient.*.data` of all stages, `queue` the `wait.queue` of all stages, `sent` the `one_time_only` flags |
| `blockchain.get_current_blockchain_height()`, top hash | `chain[n]`, `HeightOf` |
| `relay_message_to_quorum` | `Relay`: what a node stores joins `net`, from which `HandleMessage` delivers in any order, any number of times, or never |
| `handle_message` | `HandleMessage`, `Handle`, `Enqueue`, `SignatureCheck`, `Acceptable` |
| `handle_messages_received_early_for` | `Drain` |
| `wait_for_next_block` .. `send_and_wait_for_signed_blocks` | the actions of the same names |
| `clear_round_data`, `goto_*` | `Cleared`, `goto_*`; `BeginRound` |
| `enforce_validator_participation_and_timeouts` | `Enforce` |
| `core::handle_block_found` | `HandleBlockFound` (external) |
| a stage's `end_time` | `TimedOut`: any time, for the states in `TimeoutStates` |
| blocks from the network, reorganisation, crash of the daemon | `ChainUpdate`, `Restart` (external) |

`locks` and `produced` are history variables: which bitsets were locked in and which
blocks were handed over. Bitsets are sets of positions; the one comparison the code
makes on their numeric values (`bits >= validator_bitset` in the last stage) is kept
numeric (`AtLeast`). The round is a byte and `NextRound` wraps as it does.

A node is *unsteady* if it may restart or its chain may get shorter. A position is
*doubtful* in a round if its validator is unsteady or has the same position in another
round of the height, for then signed messages of two rounds verify there.
`SteadyAssumption` asks that two sets of `Required` validators share a position that is
not doubtful. With 7 of 11, two positions may be doubtful.

### PulseTiming

Real time (`now`), one clock per node with a constant skew, and calls of `main` that
may come up to `Lag` after they are due. The messages of the ceremony are abstracted
to "a stage passes or fails when the code allows it". `R0`, `RoundAt`, `RoundStart`
and `MinerFallback` are `get_round_timings` and `convert_time_to_round`;
`PulseBlockOK` and `MinerBlockOK` are what `verify_block` and
`verify_block_components` ask of a timestamp.

### Checkpoints and Ledger

A service node checkpoint is a set of votes for a block every `Interval` (4) heights. The
checkpoint before the last one is *immutable*: no alternative block at or below it is
taken. A block is the path from the genesis block to it, as its hash covers its parent,
so a chain, a block and a fork are the same kind of value.

| Code | Model |
|---|---|
| the main chain in the database | `chain` |
| the `block_checkpoints` table | `cp`: per height a checkpoint (block, number of votes) or `None` |
| `m_last_cull_height`, `m_immutable_height` | `cull`, `immutable` (in memory: a restart clears both) |
| the `alt_blocks` table, `m_invalid_blocks` | `alt`, `invalid` |
| `checkpoints::block_add`, `blockchain_detached` | `TableAfter`, `CullAfter`; `Detached` |
| `get_immutable_checkpoint`, `is_alternative_block_allowed` | `ImmutableHeight`; `Allowed`, `ImmutableNow` |
| `add_new_block` | `AddBlock`, `AddBlockAborts` (a hook refuses the block) |
| `handle_alternative_block`, `build_alt_chain` | `AltRefused`, `AltDisconnected`, `AltStored`, `StartSwitch` |
| `switch_to_alternative_blockchain`, `rollback_blockchain_switching` | `StartSwitch`, then one `ConnectNext` per block; `ConnectFails` and one `RestoreNext` per old block |
| `handle_checkpoint_vote` | `VoteCheckpoint` |
| `pop_blocks`; start of the daemon | `PopBlocks`; `Restart` |

Whether a block is valid is a free choice: a switch may fail at any block, before or
after its hooks. `work` is the switch in progress, which is one call under the lock of the
chain; its steps are separate so that the states between them can be looked at, and no
other action happens meanwhile.

`Ledger` is the abstract specification: a chain and a locked height. It may grow, be
replaced above the locked height, and lock more; only `pop_blocks` drops locked blocks and
only that and a restart lower the height. `LockedBlocksStay` is its specification under the
mapping `locked <- Locked`, where `Locked` is the height the code would use if asked now.

### CheckpointVotes

Each node has a chain, a voting pool, threads that handle votes, and a table of
checkpoints. A vote goes through three steps, between which other threads and the chain
move on: its age is tested (`ReceiveVote`), it joins the pool and the votes for its block
are copied (`AddToPool`), and the copy is written to the table under the lock of the chain
(`Submit`). Votes are picked from all that were ever signed, so they may be lost, late,
repeated and reordered.

| Code | Model |
|---|---|
| `m_last_checkpointed_height`, `m_vote_pool` | `last`, `pool` (in memory) |
| `quorum_cop::block_add`, `process_quorums` | `AddBlock`: `VotesNow`, `VoteHeights`, `OwnVotes`, `LastAfter`; then `Stores` for the hook of the checkpoints |
| `handle_vote`, `verify_vote_age`, `add_pool_vote_if_unique` | `ReceiveVote`, `AgeOK`; `AddToPool` |
| `handle_checkpoint_vote` | `Submit`, `Updated`, `Enough` |
| `blockchain_detached` of both | `Detach`, `LastDetached` |
| `remove_expired_votes` | `Unexpired` |
| `verify_checkpoint` | `VerifyCheckpoint` |

A member is *steady* as long as it has not restarted and its chain has not gone back
`Buffer` (11) blocks below `m_last_checkpointed_height`: in either case it votes again on
heights it has voted on. `Checkpoints` assumes that no two blocks of one height get a
checkpoint (`MayHave`); `OneBackedBlock` says when this is so.

## 3. Runs

Every run finishes in under four minutes with two workers. State counts are distinct
states.

| Run (cfg) | Instance | Properties | States |
|---|---|---|---|
| `pulse_lock` (`MCPulseLock`) | 3 validators, 2 required, one round, both handshake stages may time out, producer idle | `BitsetAgreement`, `LockedCanSign` | 487,062 |
| `pulse_block` (`MCPulseBlock`) | 3 validators, 2 required; the four late stages may time out; relays, template creation and verification may fail | `StagesOK`, `ProducedVerifies`, `CommitBeforeReveal`, `SignaturesSuffice` | 80,863 |
| `pulse_rounds` (`MCPulseRounds`) | 2 validators that change places in the second round, any clock, every stage may time out | `TypeOK`, `NoBackwardSignature` | 415,378 |
| `pulse_chain` (`MCPulseChain`) | 2 validators; the chain of each node changes at any step, to a longer chain or another block of the same height | `IInv`, `NoEquivocation` | 47,497 |
| `pulse_restart` (`MCPulseRestart`) | a validator restarts in the round and draws a second random value | `RevealedAsCommitted`, `BlockAgreement` | 49,489 |
| `pulse_live` (`MCPulseLive`) | nothing fails (`FairSpec`) | `BlockIsProduced` | 951 |
| `pulse_timing` (`MCPulseTiming`) | two nodes, clocks one unit apart, `main` up to one unit late, three rounds, blocks up to height 3, at which too few service nodes are active | `TypeOK`, `IInv`, `RoundIsCurrent`, `RoundsInStep`, `TemplatesVerify`, `OneKind`, `NeverAhead`, `CatchUp` | 389,467 |
| `pulse_template_dropped` (`MCPulseTemplate`) | 3 validators, position 0 takes no part | `TemplateIsTaken` is violated | |
| `checkpoints` (`MCCheckpoints`) | two branches that fork at height 3, chains up to height 6, interval 2, two alternative blocks kept, checkpoints of one or two votes, pops and restarts | `IInv`, `RollbackSucceeds`, `AlternativesOffMain`, `NoneAhead`, `LockedBlocksStay`, `FailedSwitchRestores` | 55,836 |
| `checkpoint_finality` (`MCCheckpointsFinality`) | the same without pops | `LockedForGood` is violated | |
| `checkpoint_votes` (`MCCheckpointVotes`) | 3 members, 2 votes needed, a fork of two blocks each after height 3; two members lose blocks, one restarts, one runs two threads | `IInv`, `CheckpointsAreVoted`, `VoteOnce`, `OneBackedBlock`, `VotesOnlyGrow` | 16,759 |
| `checkpoint_votes_live` (`MCCheckpointVotesLive`) | 2 members, both votes needed; one loses blocks and restarts, votes expire after two blocks (`FairSpec`) | `CheckpointForms` | 64,386 |

What they say, in the terms of the code:

- *Agreement on the participants.* Validators send the bitset of handshakes they saw.
  Each node then takes the most common bitset, at its own time. `BitsetAgreement`:
  all nodes that go on for a round go on with the same participants;
  `LockedCanSign`: these are enough to sign a block.
- *The stages in order.* `StagesOK`: whatever stage a node is in, what it goes on with is
  complete. Every stored message came in its stage and from a locked in participant, the
  template names the round and the participants, a value fits its commitment, and the
  final block holds one value of each participant, however messages were queued early,
  dropped or repeated and whichever stages timed out.
- *Agreement on the block.* `BlockAgreement`: one round makes one block, even if a
  validator ran the round twice. `ProducedVerifies`: a block that is handed over has
  exactly the signatures verification asks for, so the node does not throw away a round
  that every validator signed. `SignaturesSuffice` is the `assert` before the
  selection of signatures, which a release build does not evaluate.
- *The random values.* `CommitBeforeReveal` and `RevealedAsCommitted`: nobody reveals
  before all have committed, and what is in a block was committed to. They are why the
  next quorum's entropy cannot be chosen.
- *Signing once.* A node forgets a round when it leaves it. `NoEquivocation` and
  `NoBackwardSignature` say that height and round alone keep it from signing a second
  message for a round it has left.
- *Progress of a round.* `BlockIsProduced`.
- *Time.* `RoundIsCurrent`: a node is in a round only in its time. `RoundsInStep`:
  nodes are at most one round apart. `TemplatesVerify`: a template of any round but
  the last has an acceptable timestamp. `OneKind`: from round 0 on exactly one kind
  of block is acceptable. `NeverAhead`, `CatchUp`: what the clamp of
  `get_round_timings` is for.
- *Finality.* `LockedBlocksStay`: no sequence of blocks, votes, switches and failed
  switches replaces a block at or below the locked height. It needs the fork to be tested
  again when an old alternative chain is extended.
- *The chain switch.* `RollbackSucceeds`, `FailedSwitchRestores`: wherever a switch fails,
  the old blocks pass the checkpoints as they are then, and chain and checkpoints above the
  fork end as they were. `AlternativesOffMain`, `NoneAhead`: the two tables match the chain.
- *Voting once.* `VoteOnce`: a steady member votes for one block of a height whatever its
  chain does. `OneBackedBlock`: two blocks of a height both get enough votes only if at
  least `2 MinVotes - |quorum|` members were not steady, six with 13 votes of 20.
- *Racing threads.* `CheckpointsAreVoted`: whichever thread wrote a checkpoint, and however
  old its copy of the votes was, the checkpoint carries enough genuine votes for its block.
  `VotesOnlyGrow`: no thread takes votes from a checkpoint that another one stored, which
  is what the comment on the lock in `handle_checkpoint_vote` is about.
- *Progress of checkpoints.* `CheckpointForms`: a node that has a block and too few of its
  votes gets the checkpoint as long as the votes are held somewhere and do not expire.

**Bounds of Pulse.** Two validators of two (or two of three) are the least with which a
majority can be split, met or missed. `pulse_lock` and `pulse_block` need the third:
with it a bitset may have a majority that leaves one validator out, and more
signatures may arrive than are needed. Agreement is local to a round, so one round
suffices except where rounds follow one another (`pulse_rounds`). Two random values are
the least that can differ; `MCSymmetry` permutes them, which is sound as nothing compares
them but for equality. `MCTips` has two blocks of one height and a successor: another tip
of the same height is the case in which comparing heights and comparing hashes differ. In
`pulse_timing` the units are 20 s (120 s blocks, 60 s rounds, stages rounded down to 0).
`MaxHeight` and `MinerDelay` end the behaviours.

Action constraints order steps that commute or bound faults. `PassingFirst`: `main` runs
through `prepare_for_round`, `send_handshake_bitsets` and `send_block_template` in one
call, and their steps touch only the node's own context or add to `net`, so they are taken
first. `HandshakesFirst`: the messages of the first two stages arrive at once
(`pulse_lock` has them in every order). `FewRestarts`: a node restarts once it has sent
something the others may count on and until it has sent two different messages of one
type. The liveness run has no constraint.

**Bounds of the checkpoints.** Interval 2 and chains up to 6 give three checkpoint
heights, so that one is immutable while a later one exists, one is pruned and one is
stored for good (`StoreInterval` 4). The fork lies between two of them, the second branch
is heavier block by block (its blocks are of round 0), so switches by checkpoints and by
weight both happen, and a branch of two alternative blocks can fail at either.

**Bounds of voting.** `Lifetime` 4, `Buffer` 3 and a fork at the height that is voted on
make votes expire, be cast again after a deep detach and conflict. `OneListener` lets one
node receive votes; what the others do then depends on nobody, so they go first, one after
the other. The proofs hold without any of these bounds.

**Deadlock** is checked where the system goes on (`checkpoints`, `checkpoint_votes`). A
ceremony without a new block has nothing to do until one arrives; the liveness run of
voting ends at the top of its only branch.

**Mutants.** For every property `PROJECT.json` names a plausible slip in the code (an
operator marked `Mutant` next to the one it replaces) under which TLC finds the
property violated.

## 4. Fairness

*Pulse.* `MainFairness` is weak fairness of `main` on each node: the timer set up in
`cryptonote_core.cpp` calls `pulse::main` every 500 ms, whatever arrives.
`DeliveryFairness` (a relayed message reaches the members of the quorum in the end) is
not something the code guarantees. Only `BlockIsProduced` assumes it: that property is
about the ceremony when the network does its part. With no time-outs and no faults it
shows that no combination of orders of arrival leaves the validators waiting.

*Voting.* A vote is sent again every two minutes as long as it is in a pool
(`get_relayable_votes`), so a node that goes on accepting it receives it in the end:
weak fairness of `ReceiveVote` for votes that are `Held`. The threads that handle votes go
on: weak fairness of `AddToPool` and `Submit`. Nothing is assumed of blocks, detaches and
restarts, and only the members that hold a vote count, not those that once sent it.
Votes are ignored while a node synchronises (`cryptonote_protocol_handler.inl:859`); the
property is about nodes that have caught up.

## 5. Proofs

`tlapm` checks every theorem for all values of the constants that satisfy the named
assumptions: any number of nodes, validators, rounds, blocks and values, any timeouts and
faults.

**The ceremony** (`PulseProofs`): `Invariance`, `TypeCorrect`, `Equivocation`
(`NoEquivocation`), `AgreementOnBitset`, `LockedAreEnough` (`LockedCanSign`),
`AgreementOnBlock`, `StagesInvariance`, `StagesInOrder` (`StagesOK`), `CommitmentComesFirst`
(`CommitBeforeReveal`), `ValuesAreCommitted` (`RevealedAsCommitted`), `BlocksVerify`
(`ProducedVerifies`), `EnoughSignatures` (`SignaturesSuffice`) and `NeverBackward`
(`NoBackwardSignature`): every safety property the runs check. Assumptions: `SizeAssumption` (1 <= required <= validators),
`ChainAssumption`, `QuorumAssumption` (members of a quorum are distinct),
`SteadyAssumption`, `NoneAssumption`.

None of the agreement properties is inductive. A node forgets its messages when it
leaves a round, so that it does not sign twice rests on the order of heights and
rounds. `IInv` says of a steady node (`SteadyOK`) that all it has signed lies behind
the height and round it is in, and that what it has signed for the current round is
recorded in `sent` or by its state. Of the messages a node holds (`HoldingOK`,
`RoleOK`, `SignaturesOK`) it says that they verify, are one per position, are on the
network, and that signatures are on the node's own final block. Of the history it
says that a lock is backed by `Required` votes and a block by `Required` signatures
(`LockOK`, `ProducedOK`). Agreement then follows: two sets of `Required` positions
share one that is not doubtful (`QuorumsMeet`), its messages verify in one round only
(`RoundOfSure`), and its steady validator signed one of each type. The step proofs
treat one action at a time: most change one node and add messages of that node, so
`PulseLemmas` reduces each to a claim about that node alone (`LocalStep`).

What a block is made of needs a second invariant on top of the first (`StagesInvariance`).
`StagesInv` joins `StagesOK`, `CommitBeforeReveal` and, of every block that was produced,
that its values are those of the participants its template names and that each was
committed to on the network (`BlockOK`). Neither of the last two is inductive without
`StagesOK`: that nobody reveals before all have committed rests on a node leaving the
stage of the hashes only with all of them (`Complete`), and this on every message it
stored being from a participant (`Collected`), which the early queue must not
circumvent: `DrainTakes` says that draining the queue stores only what `handle_message`
would have stored in that stage. The step proofs mirror the first layer: each step of a
node satisfies `Advances`, a claim about the context of that node, the messages it adds
and the blocks it produces, and `StageSuffices` turns it into the invariant.
`RevealedAsCommitted`, `ProducedVerifies` and `SignaturesSuffice` are consequences: the
signatures a node holds are of participants (`StagesOK`), and there are enough of those
(`LockedCanSign`). `NoBackwardSignature` is an action property: a message that a step adds
is of the height and the round the node is in (`InItsRound`, a part of `Advances`), and
`SteadyOK` puts all earlier ones at or below these.

**The clock** (`PulseTimingProofs`): `Invariance`, `TypeCorrect`, `RoundInItsTime`,
`InStep`, `TemplatesAreValid`, `OneKindAtATime` (`OneKind`), `OnSchedule`,
`BackToSchedule`, for all durations
that satisfy `TimeAssumption`. `IInv` adds to the properties that nodes at one height
agree on r0, that r0 is that of the chain for nodes at its height, and that waiting
nodes are in the time of their round (`InItsTime`): the round the clock shows has not
ended, by the rounding of the division (`DivFacts`). `OneKindAtATime` needs no invariant
beyond the types: every time from round 0 on and before the one from which miners' blocks
are taken lies in one of the 256 rounds (`RoundOfTime`).

**The checkpoints** (`CheckpointsProofs`): `Invariance`, `NoCheckpointAhead`,
`AlternativesAreOffMain`, `RollbackIsPossible`, `FailedSwitchIsUndone` and `Refinement`
(`Checkpoints` implements `Ledger`), from `ParametersAssumption` alone: any interval, any
tree of blocks, any length. `IInv` adds what the switch relies on (`SwitchOK`): the fork is
above the immutable height and above that of the remembered table; the chain is a prefix
of the one it follows; what was re-added so far has its old checkpoints. `NoneAhead`
follows because checkpoints are multiples of the interval (`TableOK`), so that stepping
down from the top meets all of them. The refinement rests on `ImmutableHeight` being
monotone in the table: detaching above the locked height and pruning below it leave it
where `immutable` remembers it.

**Voting** (`CheckpointVotesProofs`): `Invariance`, `EveryCheckpointIsVoted`,
`SteadyMembersVoteOnce`, `BackedBlocksAreUnique`, `VotesAreKept`, from
`ParametersAssumption`: any quorum, threshold, interval, buffer and lifetime. `VoteOnce` is
not inductive by itself: what keeps a steady member from voting twice is that all its votes
lie below `m_last_checkpointed_height` and that this height only grows (`Consistent`). The
same invariant says that what threads carry was signed and is enough.
`BackedBlocksAreUnique` counts: two sets of `MinVotes` members overlap in at least
`2 MinVotes - |quorum|`, and a member in both voted twice.

**Only model-checked:** the liveness properties `BlockIsProduced` and `CheckpointForms`
(temporal reasoning under fairness and `ENABLED` are beyond the prover). The two violated
properties are those of section 6. Every other property of a run has a theorem.

## 6. Findings

Places where the code and its comments disagree, each shown by a run:

1. **A template is dropped when position 0 is not locked in** (`pulse.cpp:604`). The
   filter that rejects messages of validators that are not locked in is also applied
   to the producer's template, which carries position 0. The comment speaks of "stray
   messages from other validators". Such a round fails although enough validators take
   part (`pulse_template_dropped`).
2. **A lock does not outlive a restart** (`checkpoints.cpp:295`). The immutable height is
   derived from the checkpoints that are stored and its maximum is kept in memory. A switch
   above the locked height may delete the later of the two checkpoints that locked it, and
   after a restart the block is no longer locked, where the comment on
   `CHECKPOINT_NUM_CHECKPOINTS_FOR_CHAIN_FINALITY` says that it is (`checkpoint_finality`).

Met while modelling, without a run:

- Pulse: round 255 is run although Pulse blocks are no longer accepted from its beginning
  (`pulse.cpp:823`); a message of an earlier round is taken if its sender has the same
  position in both (`pulse.cpp:261`, comment at 485-487), which is the reason for
  `Doubtful` and which agreement survives; signatures are drawn with `std::sample` into
  `selected` but read from `indices` (`pulse.cpp:1918`), so that the first received are
  used; the design comment (`pulse.cpp:965`) speaks of an adjustment by 15 s where the
  constants give 30 s.
- Chain switch: after a failed switch the loop over the remaining alternative blocks
  removes the failed one again and not these (`blockchain.cpp:1191`); the model keeps them,
  marked invalid. Pruning that happened during the switch is not undone, which is why
  `FailedSwitchRestores` speaks of heights above the fork. Below height 60 `block_add`
  returns before it stores the checkpoint of a block (`checkpoints.cpp:172`).
- Pruning: popping blocks to a height that is no multiple of 4 leaves `m_last_cull_height`
  off the interval, and pruning then looks at heights that have no checkpoint.
- Locking: the immutable height does not ask whether the checkpoint's block is on the
  chain. Two checkpoints that a quorum voted for another branch lock the blocks this daemon
  has at those heights.
- Voting: after a short reorganisation nobody votes for the new block of a height that was
  voted on, by design of the buffer. A set of votes that is complete before the node has
  the block makes no checkpoint when the block comes, as repeated votes are not unique:
  hence "too few votes" in `CheckpointForms`; the checkpoint then comes with the block from
  a peer. The log message of `blockchain_detached` speaks of a reorganisation over 11
  blocks; as `m_last_checkpointed_height` is rounded up it may also appear at nine.
- Obligations (not modelled): `height - REORG_SAFETY_BUFFER_BLOCKS` wraps below height 11
  while the target is 60 or more (`service_node_quorum_cop.cpp:290`);
  `received_checkpoint_vote` takes no lock and looks at the first entry of a height only
  (`service_node_voting.cpp:770`).

## 7. Abstractions

- Signatures are ideal and hashes injective.
- *Pulse.* The quorum is a function of the top block and the round. In the code the active
  list and the block leader are read from the live chain when the round is prepared; how
  this differs after a reorganisation to a block of the same height is listed as a
  hazard. Timeouts may happen at any time in `Pulse`; when they happen is the subject of
  `PulseTiming`, which has one chain shared by the nodes and no reorganisations.
- A message that comes after its stage is over would be stored and never be read again;
  the model drops it. Messages that come before the receiver has prepared the round are
  dropped by the code and not sent again; in the model they stay on `net`, which covers
  a copy relayed later. That they never arrive at all is covered too.
- When no bitset has `Required` votes the choice among the most common ones does not
  matter, so `MostCommonBitset` breaks ties arbitrarily.
- The quorum history of the context is read only to choose a log line. Logging,
  serialisation and metrics are left out.
- A miner's timestamp is the time. The median check on timestamps follows from
  r0 >= previous + minimum and is left out.
- *Checkpoints.* From hard fork 16 on: a disconnected chain is not kept. Of the hardcoded
  checkpoints only the genesis block's is kept. A checkpoint is a block and a number of
  votes. Whether a block passes the other checks is a free choice. Database transactions
  are atomic; a crash in the middle of a switch is not modelled.
- *Voting.* One quorum for all heights: the code draws it from the state 11 blocks before
  the height, so two blocks of a height that fork above that share it. A checkpoint that
  comes with a block carries any set of genuine votes. Which checkpoints a block prunes is a
  free choice below the immutable one (`Checkpoints` has the exact rule). A chain switch is
  a `Detach` and a series of `AddBlock`, between which `Submit` may happen; the code's lock
  forbids that within a switch but not between popped and later blocks, so this only adds
  behaviours.

## 8. Not modelled

- *Service node list, obligations testing, uptime proofs.* The record of a service node has
  some thirty fields, and what is right there is mostly what one block does to one record.
  Quorums, which are all the modelled parts read of it, are constants. Its history of
  states and the replay after a detach are the most rewarding part to model next, with
  "the state is a function of the chain" as the abstract specification.
- *Blink and the transaction pool.* Nothing modelled depends on which transactions a block
  holds. Next after the list.
- *Pulse quorum selection, swarms.* Sequential functions of their arguments.
- *Block download queue, synchronisation, peer lists.* How blocks and votes reach a node is
  modelled as "in any order, repeated, late or never".
- *Batched rewards, name system.* Their logic is in SQL statements and triggers.
- *Cryptography and transaction construction* (out of TLC's reach), *LMDB, RPC, wallets,
  devices, offline tools* (storage, I/O and formatting), *hard forks* (static tables).
