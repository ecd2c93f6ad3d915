---------------------------- MODULE PulseTiming ----------------------------
(***************************************************************************)
(* The clock of Pulse: when a round begins and its stages end              *)
(* (get_round_timings and prepare_for_round in cryptonote_core/pulse.cpp), *)
(* and which timestamps the chain accepts (verify_block and                *)
(* verify_block_components in service_node_list.cpp).  The messages of the *)
(* ceremony are left out (see Pulse): a stage passes or fails at any time  *)
(* the code allows.  Heights and timestamps count from the block before    *)
(* the first Pulse block.                                                  *)
(***************************************************************************)
EXTENDS Integers

CONSTANTS
    Nodes,            \* service nodes
    Skew,             \* Skew[n]: how far the clock of node n is off
    Lag,              \* how long after it is due a call of main may come
    TargetBlockTime,  \* TARGET_BLOCK_TIME, 120 s in the code
    Adjust,           \* PULSE_MAX_TARGET_BLOCK_TIME is so much above it, 30 s
    RoundTime,        \* PULSE_ROUND_TIME, 60 s
    StageTime,        \* PULSE_WAIT_FOR_..._DURATION, 10 s each
    MaxRound,         \* the last round, 255
    Quorum,           \* Quorum[r]: the nodes that take part in round r
    Producer,         \* Producer[r]: the block producer of round r
    Insufficient,     \* heights at which too few service nodes are active
    MaxHeight,        \* bound: the chain grows no further
    MinerDelay        \* bound: a miner has found a block by then

Rounds == 0 .. MaxRound

\* The clocks of two nodes are less than a round apart, and the stages fit into it
\* (the static_assert of service_node_rules.h).
ASSUME TimeAssumption ==
    /\ {Lag, TargetBlockTime, Adjust, StageTime, MaxRound, MaxHeight, MinerDelay} \subseteq Nat
    /\ RoundTime \in Nat \ {0}
    /\ Adjust <= TargetBlockTime
    /\ 6 * StageTime <= RoundTime
    /\ 2 * StageTime + Lag < RoundTime
    /\ Skew \in [Nodes -> Int]
    /\ \A m, n \in Nodes : Skew[m] - Skew[n] + Lag < RoundTime

ASSUME MemberAssumption ==
    /\ Quorum \in [Rounds -> SUBSET Nodes]
    /\ Producer \in [Rounds -> Nodes]
    /\ Insufficient \subseteq Nat

-----------------------------------------------------------------------------
(* get_round_timings *)

Clamp(x, low, high) == IF x < low THEN low ELSE IF x > high THEN high ELSE x

IdealTimestamp(h) == TargetBlockTime * h

\* Mutant: no bounds.
R0Ideal(h, p) == IdealTimestamp(h)

\* Mutant: every block is due as early as possible.
R0Min(h, p) == p + (TargetBlockTime - Adjust)

\* When round 0 of height h begins, p being the timestamp of the previous block.
R0(h, p) ==
    Clamp(IdealTimestamp(h), p + (TargetBlockTime - Adjust), p + (TargetBlockTime + Adjust))

RoundStart(r0, r) == r0 + r * RoundTime

MinerFallback(h, p) == R0(h, p) + RoundTime * MaxRound

\* The round that is due at time t, before it is narrowed to a byte.
RoundAt(t, r0) == IF t <= r0 THEN 0 ELSE (t - r0) \div RoundTime

-----------------------------------------------------------------------------
(* enum round_state without the states main only passes through. *)

wait_for_next_block                   == 1
prepare_for_round                     == 2
wait_for_round                        == 3
send_and_wait_for_handshakes          == 4
wait_for_handshake_bitsets            == 6
wait_for_block_template               == 8
send_and_wait_for_random_value_hashes == 9
send_and_wait_for_random_value        == 10
send_and_wait_for_signed_blocks       == 11

Stages ==
    {send_and_wait_for_handshakes, wait_for_handshake_bitsets, wait_for_block_template,
     send_and_wait_for_random_value_hashes, send_and_wait_for_random_value,
     send_and_wait_for_signed_blocks}

\* How many stages of the round are over when this one ends.
StageNumber(s) ==
    CASE s = send_and_wait_for_handshakes          -> 1
      [] s = wait_for_handshake_bitsets            -> 2
      [] s = wait_for_block_template               -> 3
      [] s = send_and_wait_for_random_value_hashes -> 4
      [] s = send_and_wait_for_random_value        -> 5
      [] s = send_and_wait_for_signed_blocks       -> 6

NextStage(s) ==
    CASE s = send_and_wait_for_handshakes          -> wait_for_handshake_bitsets
      [] s = wait_for_handshake_bitsets            -> wait_for_block_template
      [] s = wait_for_block_template               -> send_and_wait_for_random_value_hashes
      [] s = send_and_wait_for_random_value_hashes -> send_and_wait_for_random_value
      [] s = send_and_wait_for_random_value        -> send_and_wait_for_signed_blocks

\* The part of struct round_context that has to do with time.
Context ==
    [state : {wait_for_next_block, prepare_for_round, wait_for_round} \cup Stages,
     height : Nat, r0 : Int, round : Rounds, queue_for_next_round : BOOLEAN]

Template == [height : Nat, round : Rounds, timestamp : Int]

VARIABLES
    now,        \* the time
    height,     \* the height of the next block
    prev,       \* the timestamp of the last block
    context,    \* context[n]: the ceremony of node n
    templates   \* the block templates that producers have sent

vars == <<now, height, prev, context, templates>>

Clock(n) == now + Skew[n]
Start(c) == RoundStart(c.r0, c.round)
EndTime(c) == Start(c) + StageNumber(c.state) * StageTime

Init ==
    /\ now = 0
    /\ height = 1
    /\ prev = 0
    /\ context = [n \in Nodes |-> [state |-> wait_for_next_block, height |-> 0, r0 |-> 0,
                                   round |-> 0, queue_for_next_round |-> FALSE]]
    /\ templates = {}

-----------------------------------------------------------------------------
(* service_node_list::verify_block on the main chain *)

\* Mutant: the block must be younger than the end of the template's stage.
PulseBlockInStage(r, ts) ==
    /\ height \notin Insufficient
    /\ ts < MinerFallback(height, prev)
    /\ RoundStart(R0(height, prev), r) <= ts
    /\ ts <= RoundStart(R0(height, prev), r) + StageTime

PulseBlockOK(r, ts) ==
    /\ height \notin Insufficient
    /\ ts < MinerFallback(height, prev)
    /\ RoundStart(R0(height, prev), r) <= ts
    /\ ts <= RoundStart(R0(height, prev), r) + RoundTime

\* Mutant: > for >=.
MinerBlockLater(ts) == height \in Insufficient \/ ts > MinerFallback(height, prev)

MinerBlockOK(ts) == height \in Insufficient \/ ts >= MinerFallback(height, prev)

AddBlock(ts) ==
    /\ height' = height + 1
    /\ prev' = ts

-----------------------------------------------------------------------------
(* The steps of main that read the clock *)

goto_wait_for_next_block(c) ==
    [c EXCEPT !.state = wait_for_next_block, !.round = 0, !.queue_for_next_round = FALSE]

goto_preparing_for_next_round(c) ==
    [c EXCEPT !.state = prepare_for_round, !.queue_for_next_round = TRUE]

Goto(n, c) == context' = [context EXCEPT ![n] = c]

WaitForNextBlock(n) ==
    LET c == context[n]
    IN  /\ c.state = wait_for_next_block
        /\ c.height # height
        /\ Goto(n, [c EXCEPT !.state = prepare_for_round, !.height = height,
                             !.r0 = R0(height, prev), !.round = 0,
                             !.queue_for_next_round = FALSE])
        /\ UNCHANGED <<now, height, prev, templates>>

\* Mutant: off by one.
ExhaustedLater(c) == c.round > MaxRound

\* The next round would overflow.
Exhausted(c) == c.round >= MaxRound

\* Mutant: the clock is not asked.
RoundToPrepareNext(curr, next) == next

\* A late node skips rounds, an early one waits.
RoundToPrepare(curr, next) == IF curr > next THEN curr ELSE next

PrepareForRound(n) ==
    LET c == context[n]
        q == c.queue_for_next_round
        curr == RoundAt(Clock(n), c.r0)
        next == IF q THEN c.round + 1 ELSE c.round
    IN  /\ c.state = prepare_for_round
        /\ Goto(n, IF \/ q /\ (Exhausted(c) \/ c.height # height)
                      \/ curr > MaxRound
                      \/ height \in Insufficient
                   THEN goto_wait_for_next_block(c)
                   ELSE [c EXCEPT !.state = wait_for_round, !.queue_for_next_round = FALSE,
                                  !.round = RoundToPrepare(curr, next)])
        /\ UNCHANGED <<now, height, prev, templates>>

\* Mutant: the start of the round is not waited for.
RoundBegunAlways(n, c) == TRUE

RoundBegun(n, c) == Clock(n) >= Start(c)

WaitForRound(n) ==
    LET c == context[n]
    IN  /\ c.state = wait_for_round
        /\ \/ /\ c.height # height
              /\ Goto(n, goto_wait_for_next_block(c))
           \/ /\ c.height = height
              /\ RoundBegun(n, c)
              /\ Goto(n, IF n \notin Quorum[c.round]
                         THEN goto_preparing_for_next_round(c)
                         ELSE [c EXCEPT !.state = IF n = Producer[c.round]
                                                  THEN wait_for_handshake_bitsets
                                                  ELSE send_and_wait_for_handshakes])
        /\ UNCHANGED <<now, height, prev, templates>>

\* A validator has what the stage waits for: all it needs has come, or in the first
\* two stages enough of it when the time is up.
StagePasses(n) ==
    LET c == context[n]
    IN  /\ c.state \in Stages \ {send_and_wait_for_signed_blocks}
        /\ n # Producer[c.round]
        /\ c.state = wait_for_block_template =>
              \E t \in templates : t.height = c.height /\ t.round = c.round
        /\ Goto(n, [c EXCEPT !.state = NextStage(c.state)])
        /\ UNCHANGED <<now, height, prev, templates>>

\* The validators do not agree, a message could not be sent, the block does not
\* verify, or the time is up.
StageFails(n) ==
    LET c == context[n]
    IN  /\ c.state \in Stages
        /\ c.state \in {wait_for_block_template, send_and_wait_for_random_value_hashes,
                        send_and_wait_for_random_value}
              => Clock(n) >= EndTime(c)
        /\ Goto(n, goto_preparing_for_next_round(c))
        /\ UNCHANGED <<now, height, prev, templates>>

\* The producer sends its template; the timestamp is that of its clock.
SendBlockTemplate(n) ==
    LET c == context[n]
    IN  /\ c.state = wait_for_handshake_bitsets
        /\ n = Producer[c.round]
        /\ IF c.height # height
           THEN /\ Goto(n, goto_wait_for_next_block(c))
                /\ UNCHANGED templates
           ELSE /\ Goto(n, goto_preparing_for_next_round(c))
                /\ templates' = templates \cup
                      {[height |-> height, round |-> c.round, timestamp |-> Clock(n)]}
        /\ UNCHANGED <<now, height, prev>>

\* The last stage: the block is complete.  A block for a height that is already
\* taken does not become part of the main chain.
SendAndWaitForSignedBlocks(n) ==
    LET c == context[n]
    IN  /\ c.state = send_and_wait_for_signed_blocks
        /\ \E t \in templates :
              /\ t.height = c.height /\ t.round = c.round
              /\ \/ /\ c.height # height
                    /\ Goto(n, goto_wait_for_next_block(c))
                    /\ UNCHANGED <<height, prev>>
                 \/ /\ c.height = height /\ height < MaxHeight
                    /\ PulseBlockOK(t.round, t.timestamp)
                    /\ Goto(n, goto_wait_for_next_block(c))
                    /\ AddBlock(t.timestamp)
                 \/ /\ c.height = height
                    /\ ~PulseBlockOK(t.round, t.timestamp)
                    /\ Goto(n, goto_preparing_for_next_round(c))
                    /\ UNCHANGED <<height, prev>>
        /\ UNCHANGED <<now, templates>>

-----------------------------------------------------------------------------
(* The environment (external) *)

\* A miner finds a block; its timestamp is the time.
MinerBlock ==
    /\ height < MaxHeight
    /\ MinerBlockOK(now)
    /\ AddBlock(now)
    /\ UNCHANGED <<now, context, templates>>

\* main is called in time for every node that has something to do.
InTime(n) ==
    LET c == context[n]
    IN  /\ c.state # prepare_for_round
        /\ c.state = wait_for_round => Clock(n) < Start(c) + Lag
        /\ c.state \in Stages => Clock(n) < EndTime(c) + Lag

Tick ==
    /\ height < MaxHeight
    /\ now < MinerFallback(height, prev) + MinerDelay
    /\ \A n \in Nodes : InTime(n)
    /\ now' = now + 1
    /\ UNCHANGED <<height, prev, context, templates>>

Next ==
    \/ \E n \in Nodes :
          \/ WaitForNextBlock(n)
          \/ PrepareForRound(n)
          \/ WaitForRound(n)
          \/ StagePasses(n)
          \/ StageFails(n)
          \/ SendBlockTemplate(n)
          \/ SendAndWaitForSignedBlocks(n)
    \/ MinerBlock
    \/ Tick

Spec == Init /\ [][Next]_vars

-----------------------------------------------------------------------------
(* Properties *)

\* The types of the variables.
TypeOK ==
    /\ now \in Nat
    /\ height \in Nat
    /\ prev \in Int
    /\ context \in [Nodes -> Context]
    /\ templates \subseteq Template

\* A node takes part in a round only in its time by its own clock: never before it
\* begins, although a round may be prepared long before, and never after the stages
\* of the round have ended (wait_for_round, prepare_for_round).
RoundIsCurrent ==
    \A n \in Nodes : LET c == context[n] IN
        c.state \in Stages => /\ Start(c) <= Clock(n)
                              /\ Clock(n) <= Start(c) + RoundTime + Lag

\* Two nodes that take part in the ceremony of one height at the same time are at
\* most one round apart, whenever each of them has learned of the last block and
\* whichever of its rounds have failed.
RoundsInStep ==
    \A m, n \in Nodes : LET c == context[m]
                            d == context[n] IN
        (c.state \in Stages /\ d.state \in Stages /\ c.height = d.height)
            => d.round <= c.round + 1

\* A template that a producer sends in any round but the last makes a block that
\* verify_block_components accepts, however late in the round the producer started.
TemplatesVerify ==
    \A t \in templates :
        (t.height = height /\ t.round < MaxRound /\ height \notin Insufficient)
            => PulseBlockOK(t.round, t.timestamp)

\* At any time from the beginning of round 0 the chain accepts either a Pulse block
\* of some round or a miner block, and never both (verify_block).
OneKind ==
    LET r0 == R0(height, prev)
    IN  \A ts \in r0 .. RoundStart(r0, MaxRound + 1) :
           (\E r \in Rounds : PulseBlockOK(r, ts)) <=> ~MinerBlockOK(ts)

\* As long as every height has had enough service nodes, no block is earlier than
\* its ideal timestamp: the chain never runs ahead of its schedule.
NeverAhead ==
    Insufficient \cap 0 .. height = {} => prev >= IdealTimestamp(height - 1)

Drift(h, p) == p - IdealTimestamp(h - 1)

\* A block in its first round brings the chain closer to its schedule by Adjust, or
\* all the way, but for the time it took since the round began; and a chain that is
\* ahead falls back (the clamp of get_round_timings).
CatchUp ==
    [][height' # height =>
          LET took == prev' - R0(height, prev)
              drift == Drift(height, prev)
              drift_after == Drift(height', prev') - took
          IN  /\ drift >= Adjust => drift_after = drift - Adjust
              /\ drift <= - Adjust => drift_after = drift + Adjust
              /\ drift \in - Adjust .. Adjust => drift_after = 0]_vars

-----------------------------------------------------------------------------
(* The inductive invariant *)

\* A node has timed its round by the last block it knows, and is in its time.
InItsTime(n) ==
    LET c == context[n]
    IN  /\ c.state = wait_for_round => Clock(n) < Start(c) + RoundTime
        /\ c.state \in {send_and_wait_for_handshakes, wait_for_handshake_bitsets}
              => Clock(n) < Start(c) + RoundTime
        /\ c.state \in Stages => /\ Start(c) <= Clock(n)
                                 /\ Clock(n) <= Start(c) + RoundTime + Lag

KnownBlock(n) ==
    /\ context[n].height <= height
    /\ context[n].height = height => context[n].r0 = R0(height, prev)

SentInRound(t) ==
    /\ t.height <= height
    /\ t.height = height =>
          /\ RoundStart(R0(height, prev), t.round) <= t.timestamp
          /\ t.timestamp < RoundStart(R0(height, prev), t.round) + RoundTime

IInv ==
    /\ TypeOK
    /\ height >= 1
    /\ \A n \in Nodes : InItsTime(n) /\ KnownBlock(n)
    /\ \A m, n \in Nodes : context[m].height = context[n].height => context[m].r0 = context[n].r0
    /\ \A t \in templates : SentInRound(t)
    /\ NeverAhead
=============================================================================
