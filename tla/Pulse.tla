------------------------------- MODULE Pulse -------------------------------
(***************************************************************************)
(* Pulse, the block production ceremony of the service nodes               *)
(* (cryptonote_core/pulse.cpp).  In every round a quorum of one block      *)
(* producer and NumValidators validators exchanges handshakes, locks in    *)
(* the set of participating validators, takes a block template from the    *)
(* producer, commits to and reveals one random value per participant and   *)
(* signs the resulting block.  A node runs the ceremony as a state machine *)
(* over one `context', driven by two kinds of jobs of a single thread: a   *)
(* call of main, and the arrival of a quorumnet message.                   *)
(***************************************************************************)
EXTENDS Integers, FiniteSets

CONSTANTS
    Nodes,          \* service nodes
    NumValidators,  \* PULSE_QUORUM_NUM_VALIDATORS, 11 in the code
    Required,       \* PULSE_BLOCK_REQUIRED_SIGNATURES, 7 in the code
    MaxRound,       \* the last round, 255 in the code
    Tips,           \* hashes of the blocks a chain may end in
    HeightOf,       \* HeightOf[t]: length of the chain that ends in t
    PulsePossible,  \* tips after which enough service nodes are active
    Validators,     \* Validators[t][r][p]: the validator at position p
    Producer,       \* Producer[t][r]: the block producer
    Contents,       \* what a producer may put into a block (transactions, time)
    RandomValues,   \* random values a validator may draw
    StartTip,       \* StartTip[n]: where the chain of node n ends at first
    Unsteady,       \* nodes that may restart, or whose chain may get shorter
    TimeoutStates,  \* the states that may time out
    Faults,         \* the other failures of the environment that may happen
    None            \* no tip, no value, no block

Rounds == 0 .. MaxRound
Positions == 0 .. NumValidators - 1

ASSUME SizeAssumption ==
    /\ NumValidators \in Nat \ {0}
    /\ Required \in 1 .. NumValidators
    /\ MaxRound \in Nat

ASSUME ChainAssumption ==
    /\ HeightOf \in [Tips -> Nat \ {0}]
    /\ PulsePossible \subseteq Tips
    /\ StartTip \in [Nodes -> Tips]

\* generate_pulse_quorum returns distinct validators, none of them the producer.
ASSUME QuorumAssumption ==
    /\ Producer \in [Tips -> [Rounds -> Nodes]]
    /\ Validators \in [Tips -> [Rounds -> [Positions -> Nodes]]]
    /\ \A t \in Tips, r \in Rounds :
          \A p, q \in Positions :
             /\ Validators[t][r][p] # Producer[t][r]
             /\ p # q => Validators[t][r][p] # Validators[t][r][q]

\* Positions of round r after t on which more than one signed message of a kind may
\* verify: the validator may restart or see its chain get shorter, or it has the
\* same position in another round.
Doubtful(t, r) ==
    {p \in Positions :
        \/ Validators[t][r][p] \in Unsteady
        \/ \E s \in Rounds \ {r} : Validators[t][s][p] = Validators[t][r][p]}

\* Two sets of Required validators share one that is not doubtful.  With the 7 of
\* 11 of the code, two positions may be doubtful.
ASSUME SteadyAssumption ==
    /\ Unsteady \subseteq Nodes
    /\ \A t \in Tips, r \in Rounds :
          2 * Required > NumValidators + Cardinality(Doubtful(t, r))

-----------------------------------------------------------------------------
(* enum round_state, in its order, and enum message_type. *)

null_state                            == 0
wait_for_next_block                   == 1
prepare_for_round                     == 2
wait_for_round                        == 3
send_and_wait_for_handshakes          == 4
send_handshake_bitsets                == 5
wait_for_handshake_bitsets            == 6
send_block_template                   == 7
wait_for_block_template               == 8
send_and_wait_for_random_value_hashes == 9
send_and_wait_for_random_value        == 10
send_and_wait_for_signed_blocks       == 11

handshake         == 1
handshake_bitset  == 2
block_template    == 3
random_value_hash == 4
random_value      == 5
signed_block      == 6

\* The state in which the messages of a type are collected; a message that
\* comes before it is early.
StageOf(type) ==
    CASE type = handshake         -> send_and_wait_for_handshakes
      [] type = handshake_bitset  -> wait_for_handshake_bitsets
      [] type = block_template    -> wait_for_block_template
      [] type = random_value_hash -> send_and_wait_for_random_value_hashes
      [] type = random_value      -> send_and_wait_for_random_value
      [] type = signed_block      -> send_and_wait_for_signed_blocks

\* blake2b_hash of a random value: injective, and not a random value itself.
Hash(v) == [blake2b |-> v]

BlockTemplate ==
    [prev : Tips, round : Rounds, bitset : SUBSET Positions, contents : Contents]
FinalBlock == [template : BlockTemplate, values : SUBSET (Positions \X RandomValues)]

ASSUME NoneAssumption == None \notin Tips \cup RandomValues \cup FinalBlock

\* A signed pulse::message: key is the node whose signature it carries.  The
\* signature covers top and round, except that of a template (msg_signature_hash),
\* where top only says in which ceremony it was sent.
MessageOf(type, Data) ==
    [type : {type}, top : Tips, round : Rounds, pos : Positions, key : Nodes, data : Data]

Message ==
    MessageOf(handshake, {None})
      \cup MessageOf(handshake_bitset, SUBSET Positions)
      \cup MessageOf(block_template, BlockTemplate)
      \cup MessageOf(random_value_hash, {Hash(v) : v \in RandomValues})
      \cup MessageOf(random_value, RandomValues)
      \cup MessageOf(signed_block, FinalBlock)

\* struct round_context, without the stage deadlines (see TimedOut) and the
\* quorum history (read only to choose a log line).  received holds the data of
\* all wait stages, queue the messages that came early.
Context ==
    [state : null_state .. send_and_wait_for_signed_blocks,
     height : Nat,
     top : Tips \cup {None},
     queue_for_next_round : BOOLEAN,
     round : Rounds,
     queue : SUBSET Message,
     received : SUBSET Message,
     sent : SUBSET (handshake .. signed_block),
     best_bitset : SUBSET Positions,
     random_value : RandomValues \cup {None},
     final_block : FinalBlock \cup {None}]

VARIABLES
    context,   \* context[n]: the ceremony of node n
    chain,     \* chain[n]: the tip of the blockchain of node n
    net,       \* the messages that were relayed to the quorum
    locks,     \* history: the bitsets that nodes have locked in
    produced   \* history: the blocks handed to handle_block_found and accepted

vars == <<context, chain, net, locks, produced>>

\* The zero-initialised global `context'.
InitContext ==
    [state |-> null_state, height |-> 0, top |-> None, queue_for_next_round |-> FALSE,
     round |-> 0, queue |-> {}, received |-> {}, sent |-> {}, best_bitset |-> {},
     random_value |-> None, final_block |-> None]

Init ==
    /\ context = [n \in Nodes |-> InitContext]
    /\ chain = StartTip
    /\ net = {}
    /\ locks = {}
    /\ produced = {}

-----------------------------------------------------------------------------
(* Reading a context. *)

\* The values `clock::now() >= end_time' may have.
TimedOut(state) == IF state \in TimeoutStates THEN BOOLEAN ELSE {FALSE}

Validator(c, p) == Validators[c.top][c.round][p]
IsValidator(n, c) == \E p \in Positions : Validator(c, p) = n
IsProducer(n, c) == Producer[c.top][c.round] = n
MyPosition(n, c) == CHOOSE p \in Positions : Validator(c, p) = n

Stage(c, type) == {m \in c.received : m.type = type}
Bitset(c, type) == {m.pos : m \in Stage(c, type)}

\* Mutant: > for >=.
MoreThan(a, b) == \E p \in a \ b : \A q \in b \ a : q < p

\* The unsigned comparison of two bitsets: the highest bit in which they differ
\* is set in the larger one.
AtLeast(a, b) == a = b \/ \E p \in a \ b : \A q \in b \ a : q < p

-----------------------------------------------------------------------------
(* handle_message *)

\* msg_signature_check against the top block and the quorum of the receiver.
\* The round that is hashed is the one the message itself carries.
SignatureCheck(c, m) ==
    IF m.type = block_template
    THEN m.pos = 0 /\ m.key = Producer[c.top][c.round]
    ELSE m.top = c.top /\ m.key = Validator(c, m.pos)

\* Mutant: a random value is not compared with its hash.
AcceptableAnyValue(c, m) ==
    /\ (c.state > wait_for_handshake_bitsets /\ m.type > handshake_bitset)
          => m.pos \in c.best_bitset
    /\ m.pos \notin Bitset(c, m.type)
    /\ m.type = block_template =>
          m.data.round = c.round /\ m.data.bitset = c.best_bitset
    /\ m.type = signed_block => m.data = c.final_block

\* Mutant: the signature is not checked against our final block.
AcceptableAnyBlock(c, m) ==
    /\ (c.state > wait_for_handshake_bitsets /\ m.type > handshake_bitset)
          => m.pos \in c.best_bitset
    /\ m.pos \notin Bitset(c, m.type)
    /\ m.type = block_template =>
          m.data.round = c.round /\ m.data.bitset = c.best_bitset
    /\ m.type = random_value =>
          \A h \in Stage(c, random_value_hash) : h.pos = m.pos => h.data = Hash(m.data)

\* The tests between the early queue and the store, all of which drop m.
Acceptable(c, m) ==
    /\ (c.state > wait_for_handshake_bitsets /\ m.type > handshake_bitset)
          => m.pos \in c.best_bitset
    /\ m.pos \notin Bitset(c, m.type)
    /\ m.type = block_template =>
          m.data.round = c.round /\ m.data.bitset = c.best_bitset
    /\ m.type = random_value =>
          \A h \in Stage(c, random_value_hash) : h.pos = m.pos => h.data = Hash(m.data)
    /\ m.type = signed_block => m.data = c.final_block

\* Store the messages of M, one per position, that are acceptable.
Receive(c, M) == [c EXCEPT !.received = @ \cup {m \in M : Acceptable(c, m)}]

\* A message that came early is queued, one per position.
Enqueue(c, m) ==
    IF \E q \in c.queue : q.type = m.type /\ q.pos = m.pos
    THEN c
    ELSE [c EXCEPT !.queue = @ \cup {m}]

Handle(c, m) ==
    IF c.state < StageOf(m.type) THEN Enqueue(c, m) ELSE Receive(c, {m})

\* handle_messages_received_early_for
Drain(c, type) ==
    LET early == {m \in c.queue : m.type = type}
    IN  [Receive(c, early) EXCEPT !.queue = @ \ early]

\* A relayed message reaches node n.  Messages are neither ordered nor unique and
\* may be lost.  relay goes to the validators, for a bitset also to the producer
\* (pulse_relay_message_to_quorum).  main runs to a state it stays in before the
\* thread takes the next message, so none arrives in the states it passes through.
\* What comes after its stage is over would be stored and never read again; it is
\* dropped here.
HandleMessage(n, m) ==
    LET c == context[n]
    IN  /\ c.state >= wait_for_round
        /\ c.state \notin {send_handshake_bitsets, send_block_template}
        /\ IsValidator(n, c) \/ (IsProducer(n, c) /\ m.type = handshake_bitset)
        /\ SignatureCheck(c, m)
        /\ c.state <= StageOf(m.type)
        /\ context' = [context EXCEPT ![n] = Handle(c, m)]
        /\ UNCHANGED <<chain, net, locks, produced>>

-----------------------------------------------------------------------------
(* The steps of main, one action for each round_state. *)

\* clear_round_data
Cleared(c) ==
    [c EXCEPT !.queue_for_next_round = FALSE, !.round = 0, !.queue = {}, !.received = {},
              !.sent = {}, !.best_bitset = {}, !.random_value = None, !.final_block = None]

goto_wait_for_next_block(c) == [Cleared(c) EXCEPT !.state = wait_for_next_block]

\* Mutant: the round is repeated.
goto_preparing_same_round(c) ==
    [c EXCEPT !.state = prepare_for_round, !.queue_for_next_round = FALSE]

goto_preparing_for_next_round(c) ==
    [c EXCEPT !.state = prepare_for_round, !.queue_for_next_round = TRUE]

OwnMessage(n, c, type, data) ==
    [type |-> type, top |-> c.top, round |-> c.round, pos |-> MyPosition(n, c),
     key |-> n, data |-> data]

\* one_time_only, then handle_message with our own message.
SendOnce(c, m) ==
    IF m.type \in c.sent THEN c ELSE Handle([c EXCEPT !.sent = @ \cup {m.type}], m)

\* Every message that was stored has been relayed.
Relay(c) == net' = net \cup c.received

\* Mutant: the tip is compared, not the height.
HeightChangedTip(n) == context[n].top # chain[n]

\* The chain got longer or shorter since the ceremony started.
HeightChanged(n) == context[n].height # HeightOf[chain[n]]

\* The first call of main passes from null_state to wait_for_next_block.
WaitForNextBlock(n) ==
    LET c == context[n]
    IN  /\ c.state \in {null_state, wait_for_next_block}
        /\ HeightChanged(n)
        /\ context' = [context EXCEPT ![n] =
              [c EXCEPT !.state = prepare_for_round, !.height = HeightOf[chain[n]],
                        !.top = chain[n], !.queue_for_next_round = FALSE, !.round = 0]]
        /\ UNCHANGED <<chain, net, locks, produced>>

\* The round that follows a failed one; the counter is a byte.
NextRound(c) ==
    IF ~c.queue_for_next_round THEN c.round
    ELSE IF c.round = MaxRound THEN 0 ELSE c.round + 1

\* Mutant: off by one.
RoundsLeftOneMore(c) == c.round <= MaxRound

\* The round counter does not overflow.
RoundsLeft(c) == c.round < MaxRound

\* Mutant: the rounds of the clock are added.
RoundAdded(now, next) == now + next

\* A late node skips rounds, an early one waits.
RoundToPrepare(now, next) == IF now > next THEN now ELSE next

\* The rounds the clock may show when round r is due; MaxRound + 1: none is left.
ClockRounds(r) == IF "clock" \in Faults THEN 0 .. MaxRound + 1 ELSE {r}

\* The round data is cleared and the node waits for the time of round r.
BeginRound(c, r) == [Cleared(c) EXCEPT !.state = wait_for_round, !.round = r]

PrepareForRound(n) ==
    LET c == context[n]
        restart == c.queue_for_next_round /\ (~RoundsLeft(c) \/ HeightChanged(n))
    IN  /\ c.state = prepare_for_round
        /\ \/ /\ restart
              /\ context' = [context EXCEPT ![n] = goto_wait_for_next_block(c)]
           \/ /\ ~restart
              /\ \E now \in ClockRounds(NextRound(c)) :
                    context' = [context EXCEPT ![n] =
                       IF now > MaxRound \/ c.top \notin PulsePossible
                       THEN goto_wait_for_next_block(c)
                       ELSE BeginRound(c, RoundToPrepare(now, NextRound(c)))]
        /\ UNCHANGED <<chain, net, locks, produced>>

WaitForRound(n) ==
    LET c == context[n]
    IN  /\ c.state = wait_for_round
        /\ context' = [context EXCEPT ![n] =
              IF HeightChanged(n) THEN goto_wait_for_next_block(c)
              ELSE IF IsValidator(n, c) THEN [c EXCEPT !.state = send_and_wait_for_handshakes]
              ELSE IF IsProducer(n, c) THEN [c EXCEPT !.state = wait_for_handshake_bitsets]
              ELSE goto_preparing_for_next_round(c)]
        /\ UNCHANGED <<chain, net, locks, produced>>

\* The catch of send_and_wait_for_handshakes, where some of the quorum may have
\* got the handshake, and of send_handshake_bitsets.
RelayFails(n) ==
    LET c == context[n]
        own == OwnMessage(n, c, handshake, None)
    IN  /\ "relay" \in Faults
        /\ \/ /\ c.state = send_and_wait_for_handshakes
              /\ handshake \notin c.sent
              /\ net' \in {net, net \cup {own}}
           \/ /\ c.state = send_handshake_bitsets
              /\ UNCHANGED net
        /\ context' = [context EXCEPT ![n] = goto_preparing_for_next_round(c)]
        /\ UNCHANGED <<chain, locks, produced>>

SendAndWaitForHandshakes(n) ==
    LET own == OwnMessage(n, context[n], handshake, None)
        c == Drain(SendOnce(context[n], own), handshake)
        all_handshakes == Bitset(c, handshake) = Positions
    IN  /\ context[n].state = send_and_wait_for_handshakes
        /\ \E timed_out \in TimedOut(send_and_wait_for_handshakes) :
              context' = [context EXCEPT ![n] =
                 IF all_handshakes \/ timed_out
                 THEN [c EXCEPT !.state = send_handshake_bitsets]
                 ELSE c]
        /\ Relay(c)
        /\ UNCHANGED <<chain, locks, produced>>

\* Our own bitset is early here: it is queued, and relayed from the queue by the
\* next step.
SendHandshakeBitsets(n) ==
    LET c == context[n]
        own == OwnMessage(n, c, handshake_bitset, Bitset(c, handshake))
    IN  /\ c.state = send_handshake_bitsets
        /\ context' = [context EXCEPT ![n] =
              [Handle(c, own) EXCEPT !.state = wait_for_handshake_bitsets]]
        /\ UNCHANGED <<chain, net, locks, produced>>

\* Mutant: every bitset counts.
CountAll(c, b) == Cardinality(Stage(c, handshake_bitset))

\* How many validators sent bitset b.
Count(c, b) == Cardinality({m \in Stage(c, handshake_bitset) : m.data = b})

\* The most common bitset; a tie never has the Required votes, so how it is
\* broken does not matter.
MostCommonBitset(c) ==
    LET sent == {m.data : m \in Stage(c, handshake_bitset)}
    IN  IF sent = {} THEN {}
        ELSE CHOOSE b \in sent : \A other \in sent : Count(c, b) >= Count(c, other)

\* Mutant: one validator less is enough.
AgreedOffByOne(n, c, best) ==
    /\ Count(c, best) >= Required - 1
    /\ best # {}
    /\ IsValidator(n, c) => MyPosition(n, c) \in best

\* Enough validators agree on a bitset, and we take part.
Agreed(n, c, best) ==
    /\ Count(c, best) >= Required
    /\ best # {}
    /\ IsValidator(n, c) => MyPosition(n, c) \in best

WaitForHandshakeBitsets(n) ==
    LET c == Drain(context[n], handshake_bitset)
        all_bitsets == Bitset(c, handshake_bitset) = Positions
        best == MostCommonBitset(c)
    IN  /\ context[n].state = wait_for_handshake_bitsets
        /\ \E timed_out \in TimedOut(wait_for_handshake_bitsets) :
              IF ~(timed_out \/ all_bitsets) THEN
                 /\ context' = [context EXCEPT ![n] = c]
                 /\ UNCHANGED locks
              ELSE IF ~Agreed(n, c, best) THEN
                 /\ context' = [context EXCEPT ![n] = goto_preparing_for_next_round(c)]
                 /\ UNCHANGED locks
              ELSE
                 /\ context' = [context EXCEPT ![n] =
                       [c EXCEPT !.best_bitset = best,
                                 !.state = IF IsProducer(n, c) THEN send_block_template
                                           ELSE wait_for_block_template]]
                 /\ locks' = locks \cup
                       {[node |-> n, top |-> c.top, round |-> c.round, bitset |-> best]}
        /\ Relay(c)
        /\ UNCHANGED <<chain, produced>>

\* The producer may have left the list or be inactive, or the template may not be
\* created ("template"); the template extends the chain as it is now.
SendBlockTemplate(n) ==
    LET c == context[n]
        Template(contents) ==
            [prev |-> chain[n], round |-> c.round, bitset |-> c.best_bitset,
             contents |-> contents]
    IN  /\ c.state = send_block_template
        /\ \/ /\ "template" \in Faults
              /\ context' = [context EXCEPT ![n] = goto_preparing_for_next_round(c)]
              /\ UNCHANGED net
           \/ /\ HeightChanged(n)
              /\ context' = [context EXCEPT ![n] = goto_wait_for_next_block(c)]
              /\ UNCHANGED net
           \/ /\ ~HeightChanged(n)
              /\ context' = [context EXCEPT ![n] = goto_preparing_for_next_round(c)]
              /\ \E contents \in Contents :
                    net' = net \cup
                       {[type |-> block_template, top |-> c.top, round |-> c.round,
                         pos |-> 0, key |-> n, data |-> Template(contents)]}
        /\ UNCHANGED <<chain, locks, produced>>

WaitForBlockTemplate(n) ==
    LET c == Drain(context[n], block_template)
        received == Stage(c, block_template) # {}
    IN  /\ context[n].state = wait_for_block_template
        /\ \E timed_out \in TimedOut(wait_for_block_template), value \in RandomValues :
              context' = [context EXCEPT ![n] =
                 IF received
                 THEN [c EXCEPT !.random_value = value,
                                !.state = send_and_wait_for_random_value_hashes]
                 ELSE IF timed_out THEN goto_preparing_for_next_round(c) ELSE c]
        /\ Relay(c)
        /\ UNCHANGED <<chain, locks, produced>>

\* Mutant: a stage that timed out goes on with what it has.
EnforceOnTime(c, type, timed_out, all_received) ==
    /\ Stage(c, type) # {}
    /\ Bitset(c, type) \subseteq c.best_bitset

\* enforce_validator_participation_and_timeouts
Enforce(c, type, timed_out, all_received) ==
    /\ ~(timed_out /\ ~all_received)
    /\ Stage(c, type) # {}
    /\ Bitset(c, type) \subseteq c.best_bitset

SendAndWaitForRandomValueHashes(n) ==
    LET own == OwnMessage(n, context[n], random_value_hash, Hash(context[n].random_value))
        c == Drain(SendOnce(context[n], own), random_value_hash)
        all_hashes == Bitset(c, random_value_hash) = c.best_bitset
    IN  /\ context[n].state = send_and_wait_for_random_value_hashes
        /\ \E timed_out \in TimedOut(send_and_wait_for_random_value_hashes) :
              context' = [context EXCEPT ![n] =
                 IF ~(timed_out \/ all_hashes) THEN c
                 ELSE IF Enforce(c, random_value_hash, timed_out, all_hashes)
                      THEN [c EXCEPT !.state = send_and_wait_for_random_value]
                      ELSE goto_preparing_for_next_round(c)]
        /\ Relay(c)
        /\ UNCHANGED <<chain, locks, produced>>

\* The block that is signed: the template and the random values that came in.
FinalBlockOf(c) ==
    [template |-> (CHOOSE m \in Stage(c, block_template) : TRUE).data,
     values |-> {<<m.pos, m.data>> : m \in Stage(c, random_value)}]

SendAndWaitForRandomValue(n) ==
    LET own == OwnMessage(n, context[n], random_value, context[n].random_value)
        c == Drain(SendOnce(context[n], own), random_value)
        all_values == Bitset(c, random_value) = c.best_bitset
    IN  /\ context[n].state = send_and_wait_for_random_value
        /\ \E timed_out \in TimedOut(send_and_wait_for_random_value) :
              context' = [context EXCEPT ![n] =
                 IF ~(timed_out \/ all_values) THEN c
                 ELSE IF Enforce(c, random_value, timed_out, all_values)
                      THEN [c EXCEPT !.final_block = FinalBlockOf(c),
                                     !.state = send_and_wait_for_signed_blocks]
                      ELSE goto_preparing_for_next_round(c)]
        /\ Relay(c)
        /\ UNCHANGED <<chain, locks, produced>>

\* Mutant: all signatures go into the block.
AllSignatures(indices) == {indices}

\* The signatures that go into the block: the first Required of those received.
SignatureChoices(indices) ==
    {S \in SUBSET indices : /\ Cardinality(S) = Required
                            /\ \A i \in S, j \in indices \ S : i < j}

\* core::handle_block_found (external).  The block may fail verification
\* ("verify").  If it extends the tip it becomes the new tip, otherwise it is kept
\* as an alternative block.
HandleBlockFound(n, block) ==
    IF block.template.prev = chain[n]
    THEN \E t \in Tips : /\ HeightOf[t] = HeightOf[chain[n]] + 1
                         /\ chain' = [chain EXCEPT ![n] = t]
    ELSE UNCHANGED chain

\* The context with our signature and those that came early.
WithSignatures(n) ==
    LET own == OwnMessage(n, context[n], signed_block, context[n].final_block)
    IN  Drain(SendOnce(context[n], own), signed_block)

SendAndWaitForSignedBlocks(n) ==
    LET c == WithSignatures(n)
        enough == AtLeast(Bitset(c, signed_block), c.best_bitset)
    IN  /\ context[n].state = send_and_wait_for_signed_blocks
        /\ \E timed_out \in TimedOut(send_and_wait_for_signed_blocks) :
              \/ /\ ~(timed_out \/ enough)
                 /\ context' = [context EXCEPT ![n] = c]
                 /\ UNCHANGED <<chain, produced>>
              \/ /\ timed_out \/ enough
                 /\ Enforce(c, signed_block, timed_out, enough) => "verify" \in Faults
                 /\ context' = [context EXCEPT ![n] = goto_preparing_for_next_round(c)]
                 /\ UNCHANGED <<chain, produced>>
              \/ /\ timed_out \/ enough
                 /\ Enforce(c, signed_block, timed_out, enough)
                 /\ \E signers \in SignatureChoices(Bitset(c, signed_block)) :
                       produced' = produced \cup
                          {[node |-> n, top |-> c.top, round |-> c.round,
                            block |-> c.final_block, signers |-> signers]}
                 /\ HandleBlockFound(n, c.final_block)
                 /\ context' = [context EXCEPT ![n] = goto_wait_for_next_block(c)]
        /\ Relay(c)
        /\ UNCHANGED locks

Main(n) ==
    \/ WaitForNextBlock(n)
    \/ PrepareForRound(n)
    \/ WaitForRound(n)
    \/ RelayFails(n)
    \/ SendAndWaitForHandshakes(n)
    \/ SendHandshakeBitsets(n)
    \/ WaitForHandshakeBitsets(n)
    \/ SendBlockTemplate(n)
    \/ WaitForBlockTemplate(n)
    \/ SendAndWaitForRandomValueHashes(n)
    \/ SendAndWaitForRandomValue(n)
    \/ SendAndWaitForSignedBlocks(n)

-----------------------------------------------------------------------------
(* The environment of the ceremony (external). *)

\* A block arrives over P2P, or the chain is reorganised or popped, while the
\* ceremony runs.  Only an Unsteady node sees its chain get shorter.
ChainUpdate(n) ==
    /\ "chain" \in Faults
    /\ \E t \in Tips \ {chain[n]} :
          /\ n \in Unsteady \/ HeightOf[t] >= HeightOf[chain[n]]
          /\ chain' = [chain EXCEPT ![n] = t]
    /\ UNCHANGED <<context, net, locks, produced>>

\* The daemon of an Unsteady node restarts; the context is not persisted.
Restart(n) ==
    /\ "restart" \in Faults
    /\ n \in Unsteady
    /\ context' = [context EXCEPT ![n] = InitContext]
    /\ UNCHANGED <<chain, net, locks, produced>>

Next ==
    \E n \in Nodes :
        \/ Main(n)
        \/ \E m \in net : HandleMessage(n, m)
        \/ ChainUpdate(n)
        \/ Restart(n)

Spec == Init /\ [][Next]_vars

\* The pulse thread calls main every half second.
MainFairness == \A n \in Nodes : WF_vars(Main(n))

\* A relayed message reaches every member of the quorum that has prepared the round.
DeliveryFairness == \A n \in Nodes : WF_vars(\E m \in net : HandleMessage(n, m))

FairSpec == Spec /\ MainFairness /\ DeliveryFairness

-----------------------------------------------------------------------------
(* Properties *)

Lock == [node : Nodes, top : Tips, round : Rounds, bitset : SUBSET Positions]
Produced == [node : Nodes, top : Tips, round : Rounds, block : FinalBlock,
             signers : SUBSET Positions]

\* The types of the variables.
TypeOK ==
    /\ context \in [Nodes -> Context]
    /\ chain \in [Nodes -> Tips]
    /\ net \subseteq Message
    /\ locks \subseteq Lock
    /\ produced \subseteq Produced

\* All nodes that lock in participants for a round lock in the same ones, however
\* messages are lost, delayed or reordered and stages time out
\* (wait_for_handshake_bitsets: "the most common agreed upon bitset").
BitsetAgreement ==
    \A a, b \in locks : (a.top = b.top /\ a.round = b.round) => a.bitset = b.bitset

\* The locked in participants are enough to sign a block
\* (assert(indices_count >= PULSE_BLOCK_REQUIRED_SIGNATURES)).
LockedCanSign == \A l \in locks : Cardinality(l.bitset) >= Required

\* One round never produces two different blocks: the signatures of the locked in
\* validators are all on the same template and the same random values.
BlockAgreement ==
    \A a, b \in produced : (a.top = b.top /\ a.round = b.round) => a.block = b.block

\* A block that is handed to handle_block_found has what verify_quorum_signatures
\* asks for: exactly Required signatures, each made by its validator and by a
\* participant the block names.
ProducedVerifies ==
    \A b \in produced :
        /\ Cardinality(b.signers) = Required
        /\ b.signers \subseteq b.block.template.bitset
        /\ b.block.template.round = b.round
        /\ \A p \in b.signers :
              \E m \in net : /\ m.type = signed_block
                             /\ m.key = Validators[b.top][b.round][p]
                             /\ m.data = b.block

\* A validator reveals its random value only after every locked in validator has
\* committed to one.
CommitBeforeReveal ==
    \A m \in net : m.type = random_value =>
        \E l \in locks :
            /\ l.node = m.key /\ l.top = m.top /\ l.round = m.round
            /\ \A p \in l.bitset :
                  \E h \in net : /\ h.type = random_value_hash
                                 /\ h.top = m.top
                                 /\ h.key = Validators[m.top][m.round][p]

\* The random values of a block are one per participant, and each is the one its
\* validator has committed to.
RevealedAsCommitted ==
    \A b \in produced :
        /\ {v[1] : v \in b.block.values} = b.block.template.bitset
        /\ \A v \in b.block.values :
              \E h \in net : /\ h.type = random_value_hash
                             /\ h.key = Validators[b.top][b.round][v[1]]
                             /\ h.data = Hash(v[2])

\* assert(indices_count >= PULSE_BLOCK_REQUIRED_SIGNATURES) never fails: a node that
\* goes on to select signatures has received enough of them.
SignaturesSuffice ==
    \A n \in Nodes :
        LET c == WithSignatures(n)
            enough == AtLeast(Bitset(c, signed_block), c.best_bitset)
        IN  context[n].state = send_and_wait_for_signed_blocks =>
               \A timed_out \in TimedOut(send_and_wait_for_signed_blocks) :
                  ((timed_out \/ enough) /\ Enforce(c, signed_block, timed_out, enough))
                     => Cardinality(Bitset(c, signed_block)) >= Required

\* A steady node never signs two different messages of one type for one round: not
\* after a failed round, a skipped round or a change of its chain, and although it
\* remembers nothing of the rounds before.
NoEquivocation ==
    \A m, o \in net :
        /\ m.key \notin Unsteady
        /\ m.key = o.key /\ m.type = o.type /\ m.top = o.top /\ m.round = o.round
        => m = o

\* A steady node never signs for a round earlier than one it has signed for.
NoBackwardSignature ==
    [][\A m \in net' \ net : \A old \in net :
          (m.key = old.key /\ m.key \notin Unsteady) =>
              \/ HeightOf[old.top] < HeightOf[m.top]
              \/ HeightOf[old.top] = HeightOf[m.top] /\ old.round <= m.round]_vars

\* When nothing fails and no stage times out, every validator ends the round with
\* the block on its chain.
BlockIsProduced ==
    <>(\A t \in Tips, n \in Nodes :
          (\E p \in Positions : Validators[t][0][p] = n /\ StartTip[n] = t)
             => HeightOf[chain[n]] = HeightOf[t] + 1)

-----------------------------------------------------------------------------
(* The inductive invariant from which agreement follows. *)

\* Every message is signed by the member of the quorum it claims to come from, and
\* a validator always counts itself among those it has heard of.
MessageOK(m) ==
    /\ IF m.type = block_template
       THEN m.pos = 0 /\ m.key = Producer[m.top][m.round]
       ELSE m.key = Validators[m.top][m.round][m.pos]
    /\ m.type = handshake_bitset => m.pos \in m.data

OnePerPosition(M) ==
    \A m, o \in M : (m.type = o.type /\ m.pos = o.pos) => m = o

\* What a node holds has verified, there is one message of a type for a position,
\* and all of it is on the network but its own bitset, for one step.
HoldingOK(n) ==
    LET c == context[n]
    IN  /\ OnePerPosition(c.queue)
        /\ OnePerPosition(c.received)
        /\ \A m \in c.queue \cup c.received : SignatureCheck(c, m) /\ MessageOK(m)
        /\ c.received \subseteq net
        /\ \A m \in c.queue \ net :
              /\ c.state = wait_for_handshake_bitsets
              /\ m.type = handshake_bitset
              /\ m.key = n /\ m.top = c.top /\ m.round = c.round

\* A node is in the states of its role, knows of itself, and has what the state
\* it is in needs.
RoleOK(n) ==
    LET c == context[n]
    IN  /\ c.state <= wait_for_next_block => c.queue = {} /\ c.received = {}
        /\ c.state > wait_for_next_block => c.top \in Tips
        /\ c.height = IF c.top = None THEN 0 ELSE HeightOf[c.top]
        /\ c.state = wait_for_round => c.sent = {}
        /\ c.state = wait_for_handshake_bitsets => IsValidator(n, c) \/ IsProducer(n, c)
        /\ c.state \in {send_and_wait_for_handshakes, send_handshake_bitsets}
              => IsValidator(n, c)
        /\ c.state = send_block_template => IsProducer(n, c)
        /\ c.state >= wait_for_block_template => IsValidator(n, c)
        /\ \/ c.state = send_handshake_bitsets
           \/ c.state = send_and_wait_for_handshakes /\ handshake \in c.sent
           => MyPosition(n, c) \in Bitset(c, handshake)
        /\ c.state \in {send_and_wait_for_random_value_hashes, send_and_wait_for_random_value}
              => c.random_value \in RandomValues /\ Stage(c, block_template) # {}
        /\ c.state = send_and_wait_for_signed_blocks => c.final_block \in FinalBlock

\* Every signature a node has collected is on its own final block.
SignaturesOK(n) ==
    LET c == context[n]
    IN  /\ c.state \in wait_for_round .. send_and_wait_for_random_value => c.final_block = None
        /\ c.state >= wait_for_round =>
              \A m \in Stage(c, signed_block) : m.data = c.final_block

\* The messages a node has signed.
SignedBy(n) == {m \in net \cup context[n].queue : m.key = n}

\* A message of the round a steady node is in was signed in this ceremony.
SignedInRound(c, m) ==
    CASE m.type = handshake_bitset -> c.state >= wait_for_handshake_bitsets
      [] m.type = block_template   -> FALSE
      [] OTHER                     -> m.type \in c.sent

\* A steady node has signed nothing for a later height or a later round than the
\* one it is in, and nothing yet for a round it has to begin.
SteadyOK(n) ==
    LET c == context[n]
    IN  /\ c.height <= HeightOf[chain[n]]
        /\ \A m \in SignedBy(n) :
              /\ HeightOf[m.top] <= c.height
              /\ HeightOf[m.top] = c.height =>
                    /\ m.top = c.top
                    /\ c.state = prepare_for_round =>
                          c.queue_for_next_round /\ m.round <= c.round
                    /\ c.state = wait_for_round => m.round < c.round
                    /\ c.state > wait_for_round =>
                          /\ m.round <= c.round
                          /\ m.round = c.round => SignedInRound(c, m)
        /\ \A m, o \in SignedBy(n) :
              (m.type = o.type /\ m.top = o.top /\ m.round = o.round) => m = o

\* The validators that have voted for bitset b in round r after t.
Voters(t, r, b) ==
    {p \in Positions :
        \E m \in net : /\ m.type = handshake_bitset /\ m.top = t /\ m.pos = p
                       /\ m.key = Validators[t][r][p] /\ m.data = b}

\* A lock is backed by the votes of Required validators.
LockOK(l) == Cardinality(Voters(l.top, l.round, l.bitset)) >= Required

\* A block is backed by the signatures of Required validators.
ProducedOK(b) ==
    /\ Cardinality(b.signers) = Required
    /\ \A p \in b.signers :
          \E m \in net : /\ m.type = signed_block /\ m.top = b.top /\ m.pos = p
                         /\ m.key = Validators[b.top][b.round][p] /\ m.data = b.block

\* The inductive invariant.  Agreement rests on what a steady node remembers of the
\* rounds it has left: only its height and its round, which never go back.
IInv ==
    /\ TypeOK
    /\ \A m \in net : MessageOK(m)
    /\ \A n \in Nodes : HoldingOK(n) /\ RoleOK(n) /\ SignaturesOK(n)
    /\ \A n \in Nodes \ Unsteady : SteadyOK(n)
    /\ \A l \in locks : LockOK(l)
    /\ \A b \in produced : ProducedOK(b)

\* Every message a node has stored came in its stage, from a locked in participant
\* once there are any; the template names the round and the participants, and a
\* random value is the one its validator committed to.
Collected(c) ==
    /\ \A m \in c.received : StageOf(m.type) <= c.state
    /\ \A m \in c.received : m.type > handshake_bitset => m.pos \in c.best_bitset
    /\ \A m \in Stage(c, block_template) :
          m.data.round = c.round /\ m.data.bitset = c.best_bitset
    /\ \A m \in Stage(c, random_value), h \in Stage(c, random_value_hash) :
          h.pos = m.pos => h.data = Hash(m.data)

\* The final block is made of the template and of one value of each participant.
Assembly(c) ==
    /\ c.final_block.template.round = c.round
    /\ c.final_block.template.bitset = c.best_bitset
    /\ c.final_block.values = {<<m.pos, m.data>> : m \in Stage(c, random_value)}

\* A stage that needs all of the participants is only left with all of them.
Complete(c) ==
    /\ c.state >= send_and_wait_for_random_value =>
          Bitset(c, random_value_hash) = c.best_bitset
    /\ c.state = send_and_wait_for_signed_blocks =>
          Bitset(c, random_value) = c.best_bitset /\ Assembly(c)

LockOf(n, c) == [node |-> n, top |-> c.top, round |-> c.round, bitset |-> c.best_bitset]

StageOK(n) ==
    LET c == context[n]
    IN  c.state >= wait_for_round =>
           /\ Collected(c)
           /\ Complete(c)
           /\ c.state >= send_block_template => LockOf(n, c) \in locks

\* Whatever a node goes on with is complete: it commits, reveals and signs only for
\* the participants it has locked in, with the template and the values they agreed
\* on, however early, late or often their messages came.
StagesOK == \A n \in Nodes : StageOK(n)

-----------------------------------------------------------------------------
(* What the comments of the code say, and the code does not do. *)

\* A node that has locked in the participants takes the template of the producer
\* that names them; only "stray messages from other validators are rejected"
\* (handle_message).
TemplateIsTaken ==
    \A n \in Nodes : LET c == context[n] IN
        c.state = wait_for_block_template =>
            \A m \in net :
                (/\ m.type = block_template /\ SignatureCheck(c, m)
                 /\ m.data.round = c.round /\ m.data.bitset = c.best_bitset
                 /\ Stage(c, block_template) = {})
                => Acceptable(c, m)
=============================================================================
