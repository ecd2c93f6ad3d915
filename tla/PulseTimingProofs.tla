------------------------- MODULE PulseTimingProofs -------------------------
(***************************************************************************)
(* Proofs about PulseTiming, for any number of nodes and rounds, any skew  *)
(* and lag below the bounds of TimeAssumption, and any length of a round.  *)
(***************************************************************************)
EXTENDS PulseTiming, TLAPS

-----------------------------------------------------------------------------
(* Arithmetic *)

\* A product grows with its factor.
LEMMA TimesMonotone ==
    ASSUME NEW a \in Int, NEW b \in Int, a <= b, NEW k \in Nat
    PROVE  a * k <= b * k
BY SMT

\* Rounds whose starts are less than two rounds apart are neighbours.
LEMMA Neighbours ==
    ASSUME NEW a \in Int, NEW b \in Int, NEW k \in Nat \ {0}, b * k < a * k + 2 * k
    PROVE  b <= a + 1
<1> SUFFICES ASSUME b >= a + 2 PROVE FALSE
  OBVIOUS
<1>1. (a + 2) * k <= b * k
  BY TimesMonotone
<1> QED
  BY <1>1

\* Division rounds down.
LEMMA DivFacts ==
    ASSUME NEW x \in Nat, NEW k \in Nat \ {0}
    PROVE  x \div k \in Nat /\ (x \div k) * k <= x /\ x < (x \div k) * k + k
BY SMT

\* The constants, one by one.
LEMMA Constants ==
    /\ Lag \in Nat /\ TargetBlockTime \in Nat /\ Adjust \in Nat /\ StageTime \in Nat
    /\ MaxRound \in Nat /\ MaxHeight \in Nat /\ MinerDelay \in Nat
    /\ RoundTime \in Nat \ {0} /\ Adjust <= TargetBlockTime
    /\ 6 * StageTime <= RoundTime /\ 2 * StageTime + Lag < RoundTime
    /\ \A n \in Nodes : Skew[n] \in Int
    /\ \A m, n \in Nodes : Skew[m] - Skew[n] + Lag < RoundTime
BY TimeAssumption

\* The types of the timings.
LEMMA TimingTypes ==
    ASSUME NEW h \in Nat, NEW p \in Int, NEW r0 \in Int, NEW r \in Nat, NEW t \in Int
    PROVE  /\ R0(h, p) \in Int /\ IdealTimestamp(h) \in Int
           /\ RoundStart(r0, r) \in Int /\ MinerFallback(h, p) \in Int
           /\ RoundStart(r0, r) >= r0 /\ MinerFallback(h, p) >= R0(h, p)
<1>1. TargetBlockTime * h \in Int /\ r * RoundTime \in Nat /\ RoundTime * MaxRound \in Nat
  <2>1. \A x, y \in Nat : x * y \in Nat
    BY SMT
  <2> QED
    BY <2>1, Constants
<1>2. R0(h, p) \in Int /\ IdealTimestamp(h) \in Int
  BY <1>1, Constants DEF R0, Clamp, IdealTimestamp
<1> QED
  BY <1>1, <1>2 DEF RoundStart, MinerFallback

\* The round that is due has not ended.
LEMMA RoundAtFacts ==
    ASSUME NEW t \in Int, NEW r0 \in Int
    PROVE  RoundAt(t, r0) \in Nat /\ t < RoundStart(r0, RoundAt(t, r0)) + RoundTime
<1>1. CASE t <= r0
  BY <1>1, Constants DEF RoundAt, RoundStart
<1>2. CASE t > r0
  <2> DEFINE x == t - r0
             q == x \div RoundTime
  <2>1. x \in Nat
    BY <1>2
  <2>2. q \in Nat /\ x < q * RoundTime + RoundTime
    BY <2>1, DivFacts, Constants
  <2>3. RoundAt(t, r0) = q
    BY <1>2 DEF RoundAt
  <2>4. q * RoundTime \in Int
    <3>1. \A a, b \in Nat : a * b \in Int
      BY SMT
    <3> QED
      BY <2>2, <3>1, Constants
  <2> HIDE DEF q
  <2> QED
    BY <1>2, <2>2, <2>3, <2>4, Constants DEF RoundStart
<1> QED
  BY <1>1, <1>2

\* A later round has not ended either.
LEMMA LaterRound ==
    ASSUME NEW t \in Int, NEW r0 \in Int, NEW a \in Nat, NEW b \in Nat, a <= b,
           t < RoundStart(r0, a) + RoundTime
    PROVE  t < RoundStart(r0, b) + RoundTime
<1>1. a * RoundTime <= b * RoundTime /\ a * RoundTime \in Int /\ b * RoundTime \in Int
  <2>1. \A x, y \in Nat : x * y \in Int
    BY SMT
  <2> QED
    BY <2>1, TimesMonotone, Constants
<1> QED
  BY <1>1, Constants DEF RoundStart

-----------------------------------------------------------------------------
(* The steps *)

\* What IInv says of one node.
LEMMA NodeFacts ==
    ASSUME IInv, NEW n \in Nodes
    PROVE  /\ context \in [Nodes -> Context] /\ context[n] \in Context
           /\ context[n].height \in Nat /\ context[n].r0 \in Int
           /\ context[n].round \in Nat /\ context[n].round <= MaxRound
           /\ Start(context[n]) \in Int /\ Clock(n) \in Int
           /\ now \in Nat /\ height \in Nat /\ prev \in Int /\ templates \subseteq Template
           /\ InItsTime(n) /\ KnownBlock(n)
<1>1. /\ context \in [Nodes -> Context] /\ context[n] \in Context
      /\ now \in Nat /\ height \in Nat /\ prev \in Int /\ templates \subseteq Template
      /\ InItsTime(n) /\ KnownBlock(n)
  BY DEF IInv, TypeOK
<1>2. /\ context[n].height \in Nat /\ context[n].r0 \in Int
      /\ context[n].round \in Nat /\ context[n].round <= MaxRound
  BY <1>1, Constants DEF Context, Rounds
<1>3. Start(context[n]) \in Int
  BY <1>2, TimingTypes DEF Start
<1>4. Clock(n) \in Int
  BY <1>1, Constants DEF Clock
<1> QED
  BY <1>1, <1>2, <1>3, <1>4, Zenon

\* A step of one node that adds no block.
LEMMA ContextStep ==
    ASSUME IInv, NEW n \in Nodes, NEW e \in Context,
           context' = [context EXCEPT ![n] = e],
           UNCHANGED <<now, height, prev>>,
           templates' \subseteq Template,
           \A t \in templates' \ templates : SentInRound(t),
           InItsTime(n)',
           \/ e.height = context[n].height /\ e.r0 = context[n].r0
           \/ e.height = height /\ e.r0 = R0(height, prev)
    PROVE  IInv'
<1>1. context \in [Nodes -> Context]
  BY NodeFacts
<1>2. TypeOK'
  BY <1>1 DEF IInv, TypeOK
<1>3. ASSUME NEW k \in Nodes PROVE InItsTime(k)' /\ KnownBlock(k)'
  <2>1. InItsTime(k) /\ KnownBlock(k) /\ KnownBlock(n) /\ height \in Nat
    BY DEF IInv, TypeOK
  <2>2. CASE k = n
    BY <1>1, <2>1, <2>2 DEF KnownBlock
  <2>3. CASE k # n
    <3>1. context'[k] = context[k] /\ Clock(k)' = Clock(k)
      BY <1>1, <2>3 DEF Clock
    <3>2. Start(context[k])' = Start(context[k])
      BY <3>1 DEF Start
    <3> QED
      BY <2>1, <3>1, <3>2 DEF InItsTime, KnownBlock
  <2> QED
    BY <2>2, <2>3
<1>4. \A k, m \in Nodes :
         context'[k].height = context'[m].height => context'[k].r0 = context'[m].r0
  <2>1. \A k \in Nodes : context[k].height = height => context[k].r0 = R0(height, prev)
    BY DEF IInv, KnownBlock
  <2>2. \A k, m \in Nodes : context[k].height = context[m].height => context[k].r0 = context[m].r0
    BY DEF IInv
  <2>3. context'[n] = e /\ \A k \in Nodes \ {n} : context'[k] = context[k]
    BY <1>1
  <2>4. \A k \in Nodes : context[k].height = e.height => context[k].r0 = e.r0
    BY <2>1, <2>2
  <2> QED
    BY <2>2, <2>3, <2>4
<1>5. \A t \in templates' : SentInRound(t)'
  <2> SUFFICES ASSUME NEW t \in templates' PROVE SentInRound(t)'
    OBVIOUS
  <2>1. SentInRound(t)
    BY DEF IInv
  <2> QED
    BY <2>1 DEF SentInRound
<1>6. NeverAhead' /\ (height >= 1)'
  BY DEF IInv, NeverAhead
<1> QED
  BY <1>2, <1>3, <1>4, <1>5, <1>6 DEF IInv

\* No block is accepted before its first round: the schedule is kept.
LEMMA BlockStep ==
    ASSUME IInv, NEW ts \in Int, AddBlock(ts),
           height \in Insufficient \/ ts >= R0(height, prev),
           context' \in [Nodes -> Context],
           \A n \in Nodes : /\ context'[n].height = context[n].height
                            /\ context'[n].r0 = context[n].r0
                            /\ \/ context'[n] = context[n]
                               \/ context'[n].state = wait_for_next_block,
           UNCHANGED <<now, templates>>
    PROVE  IInv'
<1>1. height \in Nat /\ prev \in Int /\ height' = height + 1 /\ prev' = ts
      /\ templates \subseteq Template /\ now \in Nat
  BY DEF IInv, TypeOK, AddBlock
<1>2. TypeOK' /\ (height >= 1)'
  BY <1>1 DEF IInv, TypeOK
<1>3. ASSUME NEW k \in Nodes PROVE InItsTime(k)' /\ KnownBlock(k)'
  <2>1. InItsTime(k) /\ KnownBlock(k) /\ context[k].height \in Nat /\ Clock(k)' = Clock(k)
    BY NodeFacts DEF Clock
  <2>2. KnownBlock(k)'
    BY <1>1, <2>1 DEF KnownBlock
  <2>3. CASE context'[k] = context[k]
    <3>1. Start(context[k])' = Start(context[k])
      BY <2>3 DEF Start
    <3> QED
      BY <2>1, <2>2, <2>3, <3>1 DEF InItsTime
  <2>4. CASE context'[k].state = wait_for_next_block
    BY <2>2, <2>4 DEF InItsTime, wait_for_next_block, wait_for_round, Stages,
       send_and_wait_for_handshakes, wait_for_handshake_bitsets, wait_for_block_template,
       send_and_wait_for_random_value_hashes, send_and_wait_for_random_value,
       send_and_wait_for_signed_blocks
  <2> QED
    BY <2>3, <2>4
<1>4. \A k, m \in Nodes :
         context'[k].height = context'[m].height => context'[k].r0 = context'[m].r0
  BY DEF IInv
<1>5. \A t \in templates' : SentInRound(t)'
  <2> SUFFICES ASSUME NEW t \in templates PROVE SentInRound(t)'
    OBVIOUS
  <2>1. SentInRound(t) /\ t.height \in Nat
    BY <1>1 DEF IInv, Template
  <2> QED
    BY <1>1, <2>1 DEF SentInRound
<1>6. NeverAhead'
  <2> SUFFICES ASSUME Insufficient \cap 0 .. height' = {}
               PROVE  ts >= IdealTimestamp(height)
    BY <1>1 DEF NeverAhead
  <2>1. Insufficient \cap 0 .. height = {} /\ height \notin Insufficient
    BY <1>1
  <2>2. prev >= IdealTimestamp(height - 1)
    BY <2>1 DEF IInv, NeverAhead
  <2>3. height >= 1
    BY DEF IInv
  <2>4. IdealTimestamp(height) = IdealTimestamp(height - 1) + TargetBlockTime
    BY <1>1, Constants DEF IdealTimestamp
  <2>5. IdealTimestamp(height) \in Int /\ IdealTimestamp(height - 1) \in Int
    BY <1>1, <2>3, TimingTypes
  <2>6. R0(height, prev) >= IdealTimestamp(height)
    BY <1>1, <2>2, <2>4, <2>5, Constants DEF R0, Clamp
  <2>7. R0(height, prev) \in Int
    BY <1>1, TimingTypes
  <2> QED
    BY <2>1, <2>5, <2>6, <2>7
<1> QED
  BY <1>2, <1>3, <1>4, <1>5, <1>6 DEF IInv

\* The states with no part in a round.
LEMMA IdleStates ==
    ASSUME NEW s \in {wait_for_next_block, prepare_for_round}
    PROVE  s # wait_for_round /\ s \notin Stages
BY DEF wait_for_next_block, prepare_for_round, wait_for_round, Stages,
       send_and_wait_for_handshakes, wait_for_handshake_bitsets, wait_for_block_template,
       send_and_wait_for_random_value_hashes, send_and_wait_for_random_value,
       send_and_wait_for_signed_blocks

\* A node that leaves its round.
LEMMA Idle ==
    ASSUME IInv, NEW n \in Nodes,
           NEW e \in {goto_wait_for_next_block(context[n]),
                      goto_preparing_for_next_round(context[n])}
    PROVE  /\ e \in Context /\ e.state \in {wait_for_next_block, prepare_for_round}
           /\ e.height = context[n].height /\ e.r0 = context[n].r0
           /\ context'[n] = e => InItsTime(n)'
<1> DEFINE c == context[n]
<1>1. c \in Context /\ 0 \in Rounds
  BY NodeFacts, Constants DEF Rounds
<1>2. /\ e \in Context /\ e.height = c.height /\ e.r0 = c.r0
      /\ e.state \in {wait_for_next_block, prepare_for_round}
  BY <1>1 DEF Context, goto_wait_for_next_block, goto_preparing_for_next_round
<1>3. e.state # wait_for_round /\ e.state \notin Stages
  BY <1>2, IdleStates
<1>4. {send_and_wait_for_handshakes, wait_for_handshake_bitsets} \subseteq Stages
  BY DEF Stages
<1> QED
  BY <1>2, <1>3, <1>4 DEF InItsTime

\* A step in which a node leaves its round, or sends the template and leaves it.
LEMMA IdleStep ==
    ASSUME IInv, NEW n \in Nodes,
           NEW e \in {goto_wait_for_next_block(context[n]),
                      goto_preparing_for_next_round(context[n])},
           Goto(n, e),
           UNCHANGED <<now, height, prev>>,
           templates' \subseteq Template,
           \A t \in templates' \ templates : SentInRound(t)
    PROVE  IInv'
<1>1. context'[n] = e
  BY NodeFacts DEF Goto
<1>2. /\ e \in Context /\ InItsTime(n)'
      /\ e.height = context[n].height /\ e.r0 = context[n].r0
  BY <1>1, Idle
<1>3. context' = [context EXCEPT ![n] = e]
  BY DEF Goto
<1> QED
  BY <1>2, <1>3, ContextStep

\* wait_for_next_block times round 0 by the last block.
LEMMA StepWaitForNextBlock ==
    ASSUME IInv, NEW n \in Nodes, WaitForNextBlock(n)
    PROVE  IInv'
<1> DEFINE c == context[n]
           e == [c EXCEPT !.state = prepare_for_round, !.height = height,
                          !.r0 = R0(height, prev), !.round = 0,
                          !.queue_for_next_round = FALSE]
<1>1. /\ context' = [context EXCEPT ![n] = e] /\ UNCHANGED <<now, height, prev, templates>>
  BY DEF WaitForNextBlock, Goto
<1>2. c \in Context /\ 0 \in Rounds /\ R0(height, prev) \in Int /\ height \in Nat
  BY NodeFacts, TimingTypes, Constants DEF Rounds
<1>3. /\ e \in Context /\ e.state = prepare_for_round
      /\ e.height = height /\ e.r0 = R0(height, prev)
  BY <1>2 DEF Context
<1> HIDE DEF e
<1>4. context'[n] = e
  BY <1>1, NodeFacts
<1>5. InItsTime(n)'
  <2>1. e.state # wait_for_round /\ e.state \notin Stages
    BY <1>3, IdleStates
  <2>2. {send_and_wait_for_handshakes, wait_for_handshake_bitsets} \subseteq Stages
    BY DEF Stages
  <2> QED
    BY <1>4, <2>1, <2>2 DEF InItsTime
<1>6. templates' \subseteq Template /\ \A t \in templates' \ templates : SentInRound(t)
  BY <1>1, NodeFacts
<1> QED
  BY <1>1, <1>3, <1>5, <1>6, ContextStep

\* prepare_for_round prepares no round that has ended.
LEMMA StepPrepareForRound ==
    ASSUME IInv, NEW n \in Nodes, PrepareForRound(n)
    PROVE  IInv'
<1> DEFINE c == context[n]
           q == c.queue_for_next_round
           curr == RoundAt(Clock(n), c.r0)
           next == IF q THEN c.round + 1 ELSE c.round
           r == RoundToPrepare(curr, next)
           e == [c EXCEPT !.state = wait_for_round, !.queue_for_next_round = FALSE, !.round = r]
<1>1. UNCHANGED <<now, height, prev, templates>>
  BY DEF PrepareForRound
<1>2. templates' \subseteq Template /\ \A t \in templates' \ templates : SentInRound(t)
  BY <1>1, NodeFacts
<1>3. CASE Goto(n, goto_wait_for_next_block(c))
  BY <1>1, <1>2, <1>3, IdleStep
<1>4. CASE Goto(n, e) /\ ~(q /\ Exhausted(c)) /\ ~(curr > MaxRound)
  <2>1. /\ c \in Context /\ c.round \in Nat /\ c.round <= MaxRound
        /\ c.r0 \in Int /\ Clock(n) \in Int /\ MaxRound \in Nat
    BY NodeFacts, Constants
  <2>2. curr \in Nat /\ Clock(n) < RoundStart(c.r0, curr) + RoundTime
    BY <2>1, RoundAtFacts
  <2> HIDE DEF curr
  <2>3. r \in Rounds /\ r \in Nat /\ curr <= r
    BY <1>4, <2>1, <2>2 DEF RoundToPrepare, Exhausted, Rounds
  <2> HIDE DEF r
  <2>4. /\ e \in Context /\ e.state = wait_for_round /\ e.round = r
        /\ e.height = c.height /\ e.r0 = c.r0
    BY <2>1, <2>3 DEF Context
  <2>5. Clock(n) < RoundStart(c.r0, r) + RoundTime
    BY <2>1, <2>2, <2>3, LaterRound
  <2> HIDE DEF e
  <2>6. context'[n] = e /\ Clock(n)' = Clock(n)
    BY <1>1, <1>4, NodeFacts DEF Goto, Clock
  <2>7. InItsTime(n)'
    <3>1. e.state \notin Stages /\ {send_and_wait_for_handshakes, wait_for_handshake_bitsets} \subseteq Stages
      BY <2>4 DEF Stages, wait_for_round,
         send_and_wait_for_handshakes, wait_for_handshake_bitsets, wait_for_block_template,
         send_and_wait_for_random_value_hashes, send_and_wait_for_random_value,
         send_and_wait_for_signed_blocks
    <3>2. Clock(n)' < Start(e) + RoundTime
      BY <2>4, <2>5, <2>6 DEF Start
    <3> QED
      BY <2>6, <3>1, <3>2 DEF InItsTime, Start
  <2>8. context' = [context EXCEPT ![n] = e]
    BY <1>4 DEF Goto
  <2> QED
    BY <1>1, <1>2, <2>4, <2>7, <2>8, ContextStep
<1> QED
  BY <1>3, <1>4 DEF PrepareForRound

\* A node that goes on with its round at a time when it may.
LEMMA StageStep ==
    ASSUME IInv, NEW n \in Nodes, NEW s \in Stages,
           Goto(n, [context[n] EXCEPT !.state = s]),
           UNCHANGED <<now, height, prev, templates>>,
           Start(context[n]) <= Clock(n),
           Clock(n) <= Start(context[n]) + RoundTime + Lag,
           s \in {send_and_wait_for_handshakes, wait_for_handshake_bitsets}
              => Clock(n) < Start(context[n]) + RoundTime
    PROVE  IInv'
<1> DEFINE c == context[n]
           e == [c EXCEPT !.state = s]
<1>1. /\ e \in Context /\ e.state = s /\ e.height = c.height /\ e.r0 = c.r0
      /\ e.round = c.round
  BY NodeFacts DEF Context
<1>2. context' = [context EXCEPT ![n] = e]
  BY DEF Goto
<1> HIDE DEF e
<1>3. context'[n] = e /\ Clock(n)' = Clock(n) /\ Start(e) = Start(c)
  BY <1>1, <1>2, NodeFacts DEF Clock, Start
<1>4. s # wait_for_round
  BY DEF Stages, wait_for_round,
     send_and_wait_for_handshakes, wait_for_handshake_bitsets, wait_for_block_template,
     send_and_wait_for_random_value_hashes, send_and_wait_for_random_value,
     send_and_wait_for_signed_blocks
<1>5. InItsTime(n)'
  <2>1. Start(context[n])' = Start(c)
    BY <1>3 DEF Start
  <2> QED
    BY <1>1, <1>3, <1>4, <2>1 DEF InItsTime
<1>6. templates' \subseteq Template /\ \A t \in templates' \ templates : SentInRound(t)
  BY NodeFacts
<1> QED
  BY <1>1, <1>2, <1>5, <1>6, ContextStep

\* wait_for_round begins the round when it is due.
LEMMA StepWaitForRound ==
    ASSUME IInv, NEW n \in Nodes, WaitForRound(n)
    PROVE  IInv'
<1> DEFINE c == context[n]
           s == IF n = Producer[c.round]
                THEN wait_for_handshake_bitsets ELSE send_and_wait_for_handshakes
<1>1. UNCHANGED <<now, height, prev, templates>> /\ c.state = wait_for_round
  BY DEF WaitForRound
<1>2. templates' \subseteq Template /\ \A t \in templates' \ templates : SentInRound(t)
  BY <1>1, NodeFacts
<1>3. CASE Goto(n, goto_wait_for_next_block(c))
  BY <1>1, <1>2, <1>3, IdleStep
<1>4. CASE Goto(n, goto_preparing_for_next_round(c))
  BY <1>1, <1>2, <1>4, IdleStep
<1>5. CASE RoundBegun(n, c) /\ Goto(n, [c EXCEPT !.state = s])
  <2>1. /\ Clock(n) \in Int /\ Start(c) \in Int /\ Lag \in Nat /\ RoundTime \in Nat
        /\ Clock(n) < Start(c) + RoundTime
    BY <1>1, NodeFacts, Constants DEF InItsTime
  <2>2. Start(c) <= Clock(n) /\ Clock(n) <= Start(c) + RoundTime + Lag
    BY <1>5, <2>1 DEF RoundBegun
  <2>3. s \in Stages
    BY DEF Stages
  <2> QED
    BY <1>1, <1>5, <2>1, <2>2, <2>3, StageStep
<1> QED
  BY <1>3, <1>4, <1>5 DEF WaitForRound

\* A stage that passes leads on to a stage of the same round.
LEMMA StepStagePasses ==
    ASSUME IInv, NEW n \in Nodes, StagePasses(n)
    PROVE  IInv'
<1> DEFINE c == context[n]
           s == NextStage(c.state)
<1>1. /\ UNCHANGED <<now, height, prev, templates>>
      /\ c.state \in Stages \ {send_and_wait_for_signed_blocks}
      /\ Goto(n, [c EXCEPT !.state = s])
  BY DEF StagePasses
<1>2. /\ s \in Stages
      /\ s \in {send_and_wait_for_handshakes, wait_for_handshake_bitsets}
            => c.state = send_and_wait_for_handshakes
  BY <1>1 DEF NextStage, Stages,
     send_and_wait_for_handshakes, wait_for_handshake_bitsets, wait_for_block_template,
     send_and_wait_for_random_value_hashes, send_and_wait_for_random_value,
     send_and_wait_for_signed_blocks
<1> HIDE DEF s
<1>3. InItsTime(n)
  BY NodeFacts
<1>4. /\ Start(c) <= Clock(n) /\ Clock(n) <= Start(c) + RoundTime + Lag
      /\ s \in {send_and_wait_for_handshakes, wait_for_handshake_bitsets}
            => Clock(n) < Start(c) + RoundTime
  BY <1>1, <1>2, <1>3, Zenon DEF InItsTime
<1> QED
  BY <1>1, <1>2, <1>4, StageStep

\* A stage that fails ends the round.
LEMMA StepStageFails ==
    ASSUME IInv, NEW n \in Nodes, StageFails(n)
    PROVE  IInv'
<1>1. /\ UNCHANGED <<now, height, prev, templates>>
      /\ Goto(n, goto_preparing_for_next_round(context[n]))
  BY DEF StageFails
<1>2. templates' \subseteq Template /\ \A t \in templates' \ templates : SentInRound(t)
  BY <1>1, NodeFacts
<1> QED
  BY <1>1, <1>2, IdleStep

\* The producer stamps its template in the time of its round.
LEMMA StepSendBlockTemplate ==
    ASSUME IInv, NEW n \in Nodes, SendBlockTemplate(n)
    PROVE  IInv'
<1> DEFINE c == context[n]
           t == [height |-> height, round |-> c.round, timestamp |-> Clock(n)]
<1>1. UNCHANGED <<now, height, prev>> /\ c.state = wait_for_handshake_bitsets
  BY DEF SendBlockTemplate
<1>2. CASE c.height # height
  <2>1. Goto(n, goto_wait_for_next_block(c)) /\ UNCHANGED templates
    BY <1>2 DEF SendBlockTemplate
  <2>2. templates' \subseteq Template /\ \A u \in templates' \ templates : SentInRound(u)
    BY <2>1, NodeFacts
  <2> QED
    BY <1>1, <2>1, <2>2, IdleStep
<1>3. CASE c.height = height
  <2>1. Goto(n, goto_preparing_for_next_round(c)) /\ templates' = templates \cup {t}
    BY <1>3 DEF SendBlockTemplate
  <2>2. /\ Clock(n) \in Int /\ height \in Nat /\ c \in Context /\ templates \subseteq Template
        /\ InItsTime(n) /\ KnownBlock(n)
    BY NodeFacts
  <2>3. t \in Template /\ t.height = height /\ t.round = c.round /\ t.timestamp = Clock(n)
    BY <2>2 DEF Template, Context
  <2> HIDE DEF t
  <2>4. Start(c) = RoundStart(R0(height, prev), c.round)
    BY <1>3, <2>2 DEF KnownBlock, Start
  <2>5. Start(c) <= Clock(n) /\ Clock(n) < Start(c) + RoundTime
    BY <1>1, <2>2 DEF InItsTime, Stages
  <2>6. SentInRound(t)
    BY <2>2, <2>3, <2>4, <2>5 DEF SentInRound
  <2>7. templates' \subseteq Template /\ \A u \in templates' \ templates : SentInRound(u)
    BY <2>1, <2>2, <2>3, <2>6
  <2> QED
    BY <1>1, <2>1, <2>7, IdleStep
<1> QED
  BY <1>2, <1>3

\* A Pulse block is added only with a timestamp in its round.
LEMMA StepSendAndWaitForSignedBlocks ==
    ASSUME IInv, NEW n \in Nodes, SendAndWaitForSignedBlocks(n)
    PROVE  IInv'
<1> DEFINE c == context[n]
<1>1. PICK t \in templates :
         \/ Goto(n, goto_wait_for_next_block(c)) /\ UNCHANGED <<height, prev>>
         \/ /\ PulseBlockOK(t.round, t.timestamp)
            /\ Goto(n, goto_wait_for_next_block(c)) /\ AddBlock(t.timestamp)
         \/ Goto(n, goto_preparing_for_next_round(c)) /\ UNCHANGED <<height, prev>>
  BY Zenon DEF SendAndWaitForSignedBlocks
<1>2. UNCHANGED <<now, templates>>
  BY DEF SendAndWaitForSignedBlocks
<1>3. templates' \subseteq Template /\ \A u \in templates' \ templates : SentInRound(u)
  BY <1>2, NodeFacts
<1>4. CASE Goto(n, goto_wait_for_next_block(c)) /\ UNCHANGED <<height, prev>>
  BY <1>2, <1>3, <1>4, IdleStep
<1>5. CASE Goto(n, goto_preparing_for_next_round(c)) /\ UNCHANGED <<height, prev>>
  BY <1>2, <1>3, <1>5, IdleStep
<1>6. CASE /\ PulseBlockOK(t.round, t.timestamp)
           /\ Goto(n, goto_wait_for_next_block(c)) /\ AddBlock(t.timestamp)
  <2> DEFINE e == goto_wait_for_next_block(c)
  <2>1. /\ t.round \in Nat /\ t.timestamp \in Int /\ height \in Nat /\ prev \in Int
        /\ context \in [Nodes -> Context]
    <3>1. /\ t \in Template /\ height \in Nat /\ prev \in Int
          /\ context \in [Nodes -> Context]
      BY NodeFacts
    <3> QED
      BY <3>1, Constants DEF Template, Rounds
  <2>2. /\ e \in Context /\ e.height = c.height /\ e.r0 = c.r0
        /\ e.state = wait_for_next_block
    <3>1. c \in Context /\ 0 \in Rounds
      BY NodeFacts, Constants DEF Rounds
    <3> QED
      BY <3>1 DEF Context, goto_wait_for_next_block
  <2> HIDE DEF e
  <2>3. /\ context' \in [Nodes -> Context]
        /\ \A k \in Nodes : /\ context'[k].height = context[k].height
                             /\ context'[k].r0 = context[k].r0
                             /\ \/ context'[k] = context[k]
                                \/ context'[k].state = wait_for_next_block
    BY <1>6, <2>1, <2>2 DEF Goto, e
  <2>4. t.timestamp >= R0(height, prev)
    <3>1. /\ R0(height, prev) \in Int /\ RoundStart(R0(height, prev), t.round) \in Int
          /\ RoundStart(R0(height, prev), t.round) >= R0(height, prev)
      <4>1. R0(height, prev) \in Int
        BY <2>1, TimingTypes
      <4> QED
        BY <2>1, <4>1, TimingTypes
    <3> QED
      BY <1>6, <2>1, <3>1 DEF PulseBlockOK
  <2> QED
    BY <1>2, <1>6, <2>1, <2>3, <2>4, BlockStep
<1> QED
  BY <1>1, <1>4, <1>5, <1>6

\* A miner block is added only when Pulse is given up.
LEMMA StepMinerBlock ==
    ASSUME IInv, MinerBlock
    PROVE  IInv'
<1>1. now \in Nat /\ height \in Nat /\ prev \in Int /\ context \in [Nodes -> Context]
  BY DEF IInv, TypeOK
<1>2. MinerBlockOK(now) /\ AddBlock(now) /\ UNCHANGED <<now, context, templates>>
  BY DEF MinerBlock
<1>3. /\ R0(height, prev) \in Int /\ MinerFallback(height, prev) \in Int
      /\ MinerFallback(height, prev) >= R0(height, prev)
  BY <1>1, TimingTypes
<1>4. height \in Insufficient \/ now >= R0(height, prev)
  BY <1>1, <1>2, <1>3 DEF MinerBlockOK
<1>5. context' \in [Nodes -> Context]
  BY <1>1, <1>2
<1> QED
  BY <1>1, <1>2, <1>4, <1>5, BlockStep

\* Time passes while nobody is late.
LEMMA StepTick ==
    ASSUME IInv, Tick
    PROVE  IInv'
<1>1. /\ now \in Nat /\ now' = now + 1 /\ UNCHANGED <<height, prev, context, templates>>
      /\ \A n \in Nodes : InTime(n)
  BY DEF IInv, TypeOK, Tick
<1>2. ASSUME NEW n \in Nodes PROVE InItsTime(n)' /\ KnownBlock(n)'
  <2> DEFINE c == context[n]
  <2>1. /\ Clock(n) \in Int /\ Start(c) \in Int /\ InItsTime(n) /\ KnownBlock(n)
        /\ Clock(n)' = Clock(n) + 1
    <3>1. Clock(n) \in Int /\ Start(c) \in Int /\ InItsTime(n) /\ KnownBlock(n)
      BY NodeFacts, Zenon
    <3>2. Skew[n] \in Int
      BY Constants
    <3>3. Clock(n)' = Clock(n) + 1
      BY <1>1, <3>2 DEF Clock
    <3> QED
      BY <3>1, <3>3, Zenon
  <2>2. Start(context[n])' = Start(c)
    BY <1>1 DEF Start
  <2>3. c.state \in Stages => Clock(n) < Start(c) + 6 * StageTime + Lag
    <3>1. c.state \in Stages => StageNumber(c.state) \in 1 .. 6
      BY DEF StageNumber, Stages,
         send_and_wait_for_handshakes, wait_for_handshake_bitsets, wait_for_block_template,
         send_and_wait_for_random_value_hashes, send_and_wait_for_random_value,
         send_and_wait_for_signed_blocks
    <3>2. c.state \in Stages => StageNumber(c.state) * StageTime <= 6 * StageTime
      BY <3>1, TimesMonotone, Constants
    <3>3. c.state \in Stages => StageNumber(c.state) * StageTime \in Int
      <4>1. \A x \in 1 .. 6, y \in Nat : x * y \in Int
        BY SMT
      <4> QED
        BY <3>1, <4>1, Constants
    <3> QED
      BY <1>1, <2>1, <3>2, <3>3, Constants DEF InTime, EndTime
  <2>4. c.state \in {send_and_wait_for_handshakes, wait_for_handshake_bitsets}
           => c.state \in Stages /\ Clock(n) < Start(c) + 2 * StageTime + Lag
    <3>1. c.state \in {send_and_wait_for_handshakes, wait_for_handshake_bitsets}
             => c.state \in Stages /\ StageNumber(c.state) \in 1 .. 2
      BY DEF StageNumber, Stages,
         send_and_wait_for_handshakes, wait_for_handshake_bitsets, wait_for_block_template,
         send_and_wait_for_random_value_hashes, send_and_wait_for_random_value,
         send_and_wait_for_signed_blocks
    <3>2. \A x \in 1 .. 2 : x * StageTime \in Int /\ x * StageTime <= 2 * StageTime
      BY Constants
    <3> QED
      BY <1>1, <2>1, <3>1, <3>2, Constants DEF InTime, EndTime
  <2>5. InItsTime(n)'
    <3>1. c.state = wait_for_round => Clock(n)' < Start(c) + RoundTime
      BY <1>1, <2>1, Constants DEF InTime
    <3>2. c.state \in {send_and_wait_for_handshakes, wait_for_handshake_bitsets}
             => Clock(n)' < Start(c) + RoundTime
      BY <2>1, <2>4, Constants
    <3>3. c.state \in Stages => Start(c) <= Clock(n)' /\ Clock(n)' <= Start(c) + RoundTime + Lag
      BY <2>1, <2>3, Constants DEF InItsTime
    <3>4. context'[n] = c
      BY <1>1
    <3> QED
      BY <2>2, <3>1, <3>2, <3>3, <3>4, Zenon DEF InItsTime
  <2>6. KnownBlock(n)'
    BY <1>1, <2>1 DEF KnownBlock
  <2> QED
    BY <2>5, <2>6
<1>3. TypeOK' /\ (height >= 1)'
  BY <1>1 DEF IInv, TypeOK
<1>4. \A m, n \in Nodes :
         context'[m].height = context'[n].height => context'[m].r0 = context'[n].r0
  BY <1>1 DEF IInv
<1>5. \A t \in templates' : SentInRound(t)'
  BY <1>1 DEF IInv, SentInRound
<1>6. NeverAhead'
  BY <1>1 DEF IInv, NeverAhead
<1> QED
  BY <1>2, <1>3, <1>4, <1>5, <1>6 DEF IInv

-----------------------------------------------------------------------------
(* The theorems *)

\* Nothing has been timed yet.
LEMMA InitIInv == Init => IInv
<1> SUFFICES ASSUME Init PROVE IInv
  OBVIOUS
<1>1. context \in [Nodes -> Context] /\ \A n \in Nodes : context[n].state = wait_for_next_block
  <2>1. 0 \in Rounds
    BY Constants DEF Rounds
  <2> QED
    BY <2>1 DEF Init, Context
<1>2. TypeOK /\ height >= 1
  <2>1. now = 0 /\ height = 1 /\ prev = 0 /\ templates = {}
    BY Zenon DEF Init
  <2> QED
    BY <1>1, <2>1 DEF TypeOK
<1>3. \A n \in Nodes : InItsTime(n) /\ KnownBlock(n)
  <2> SUFFICES ASSUME NEW n \in Nodes PROVE InItsTime(n) /\ KnownBlock(n)
    OBVIOUS
  <2>1. context[n].state # wait_for_round /\ context[n].state \notin Stages
    BY <1>1, IdleStates
  <2>2. {send_and_wait_for_handshakes, wait_for_handshake_bitsets} \subseteq Stages
    BY DEF Stages
  <2> QED
    BY <2>1, <2>2 DEF Init, InItsTime, KnownBlock
<1>4. NeverAhead
  BY Constants DEF Init, NeverAhead, IdealTimestamp
<1> QED
  BY <1>2, <1>3, <1>4 DEF Init, IInv

\* Every step preserves the invariant.
LEMMA NextIInv == IInv /\ [Next]_vars => IInv'
<1> SUFFICES ASSUME IInv, [Next]_vars PROVE IInv'
  OBVIOUS
<1>1. ASSUME NEW n \in Nodes,
             \/ WaitForNextBlock(n) \/ PrepareForRound(n) \/ WaitForRound(n)
             \/ StagePasses(n) \/ StageFails(n) \/ SendBlockTemplate(n)
             \/ SendAndWaitForSignedBlocks(n)
      PROVE  IInv'
  BY <1>1, StepWaitForNextBlock, StepPrepareForRound, StepWaitForRound, StepStagePasses,
     StepStageFails, StepSendBlockTemplate, StepSendAndWaitForSignedBlocks, Zenon
<1>2. CASE UNCHANGED vars
  <2>1. UNCHANGED <<now, height, prev, context, templates>>
    BY <1>2 DEF vars
  <2>2. TypeOK' /\ (height >= 1)' /\ NeverAhead'
    BY <2>1 DEF IInv, TypeOK, NeverAhead
  <2>3. ASSUME NEW n \in Nodes PROVE InItsTime(n)' /\ KnownBlock(n)'
    <3>1. InItsTime(n) /\ KnownBlock(n)
      BY DEF IInv
    <3>2. Clock(n)' = Clock(n) /\ Start(context[n])' = Start(context[n])
      BY <2>1 DEF Clock, Start
    <3> QED
      BY <2>1, <3>1, <3>2 DEF InItsTime, KnownBlock
  <2>4. \A m, n \in Nodes :
           context'[m].height = context'[n].height => context'[m].r0 = context'[n].r0
    BY <2>1 DEF IInv
  <2>5. \A t \in templates' : SentInRound(t)'
    BY <2>1 DEF IInv, SentInRound
  <2> QED
    BY <2>2, <2>3, <2>4, <2>5 DEF IInv
<1> QED
  BY <1>1, <1>2, StepMinerBlock, StepTick, Zenon DEF Next

\* The inductive invariant holds in every behaviour.
THEOREM Invariance == Spec => []IInv
BY InitIInv, NextIInv, PTL DEF Spec

\* The variables have their types: in particular no round exceeds MaxRound, the byte
\* of struct round_context (prepare_for_round).
THEOREM TypeCorrect == Spec => []TypeOK
<1>1. IInv => TypeOK
  BY DEF IInv
<1> QED
  BY <1>1, Invariance, PTL

\* A node takes part in a round only in its time (wait_for_round and the end times of
\* prepare_for_round).
THEOREM RoundInItsTime == Spec => []RoundIsCurrent
<1>1. IInv => RoundIsCurrent
  BY Zenon DEF IInv, InItsTime, RoundIsCurrent
<1> QED
  BY <1>1, Invariance, PTL

\* Two nodes in the ceremony of one height are at most one round apart, for any skew
\* and lag within TimeAssumption.
THEOREM InStep == Spec => []RoundsInStep
<1>1. ASSUME IInv PROVE RoundsInStep
  <2> SUFFICES ASSUME NEW m \in Nodes, NEW n \in Nodes,
                      context[m].state \in Stages, context[n].state \in Stages,
                      context[m].height = context[n].height
               PROVE  context[n].round <= context[m].round + 1
    BY DEF RoundsInStep
  <2> DEFINE c == context[m]
             d == context[n]
  <2>1. /\ c.round \in Int /\ d.round \in Int /\ c.r0 \in Int /\ c.r0 = d.r0
        /\ InItsTime(m) /\ InItsTime(n) /\ now \in Int
        /\ Start(c) \in Int /\ Start(d) \in Int
    BY <1>1, NodeFacts DEF IInv
  <2>2. /\ Start(d) <= now + Skew[n]
        /\ now + Skew[m] <= Start(c) + RoundTime + Lag
    BY <2>1 DEF InItsTime, Clock
  <2>3. Start(d) < Start(c) + 2 * RoundTime
    <3>1. Skew[n] - Skew[m] + Lag < RoundTime /\ Skew[n] \in Int /\ Skew[m] \in Int
      BY Constants
    <3> QED
      BY <2>1, <2>2, <3>1, Constants
  <2>4. d.round * RoundTime < c.round * RoundTime + 2 * RoundTime
    <3>1. d.round * RoundTime \in Int /\ c.round * RoundTime \in Int
      <4>1. \A x, y \in Int : x * y \in Int
        BY SMT
      <4> QED
        BY <2>1, <4>1, Constants
    <3> QED
      BY <2>1, <2>3, <3>1, Constants DEF Start, RoundStart
  <2> QED
    BY <2>1, <2>4, Neighbours, Constants
<1> QED
  BY <1>1, Invariance, PTL

\* A template sent in any round but the last makes a block that verify_block accepts.
THEOREM TemplatesAreValid == Spec => []TemplatesVerify
<1>1. ASSUME IInv PROVE TemplatesVerify
  <2> SUFFICES ASSUME NEW t \in templates,
                      t.height = height, t.round < MaxRound, height \notin Insufficient
               PROVE  PulseBlockOK(t.round, t.timestamp)
    BY DEF TemplatesVerify
  <2> DEFINE r0 == R0(height, prev)
  <2>1. /\ t \in Template /\ height \in Nat /\ prev \in Int /\ SentInRound(t)
    BY <1>1 DEF IInv, TypeOK
  <2>2. t.round \in Nat /\ t.timestamp \in Int
    BY <2>1, Constants DEF Template, Rounds
  <2>3. r0 \in Int /\ MinerFallback(height, prev) \in Int
    BY <2>1, TimingTypes
  <2>4. RoundStart(r0, t.round) \in Int
    BY <2>2, <2>3, <2>1, TimingTypes
  <2>5. /\ RoundStart(r0, t.round) <= t.timestamp
        /\ t.timestamp < RoundStart(r0, t.round) + RoundTime
    BY <2>1 DEF SentInRound
  <2>6. RoundStart(r0, t.round) + RoundTime <= MinerFallback(height, prev)
    <3>1. (t.round + 1) * RoundTime <= MaxRound * RoundTime
      BY <2>2, TimesMonotone, Constants
    <3>2. (t.round + 1) * RoundTime = t.round * RoundTime + RoundTime
      BY <2>2, Constants
    <3>3. \A x, y \in Nat : x * y \in Nat /\ x * y = y * x
      BY SMT
    <3>4. /\ t.round * RoundTime \in Nat /\ MaxRound * RoundTime \in Nat
          /\ RoundTime * MaxRound = MaxRound * RoundTime
      BY <2>2, <3>3, Constants
    <3> HIDE DEF r0
    <3>5. MinerFallback(height, prev) = r0 + RoundTime * MaxRound
      BY DEF MinerFallback, r0
    <3> QED
      BY <2>3, <3>1, <3>2, <3>4, <3>5, Constants DEF RoundStart
  <2> HIDE DEF r0
  <2>7. t.timestamp < MinerFallback(height, prev) /\ t.timestamp <= RoundStart(r0, t.round) + RoundTime
    BY <2>2, <2>3, <2>4, <2>5, <2>6, Constants
  <2> QED
    BY <2>5, <2>7 DEF PulseBlockOK, r0
<1> QED
  BY <1>1, Invariance, PTL

\* The chain never runs ahead of its schedule while Pulse is possible.
THEOREM OnSchedule == Spec => []NeverAhead
<1>1. IInv => NeverAhead
  BY DEF IInv
<1> QED
  BY <1>1, Invariance, PTL

\* Every block brings the chain back towards its schedule, by Adjust at most, but for
\* the time it took since its first round began (get_round_timings).
THEOREM BackToSchedule == Spec => CatchUp
<1>1. ASSUME IInv, [Next]_vars, height' # height
      PROVE  LET took == prev' - R0(height, prev)
                 drift == Drift(height, prev)
                 drift_after == Drift(height', prev') - took
             IN  /\ drift >= Adjust => drift_after = drift - Adjust
                 /\ drift <= - Adjust => drift_after = drift + Adjust
                 /\ drift \in - Adjust .. Adjust => drift_after = 0
  <2> DEFINE ideal == IdealTimestamp(height - 1)
  <2>1. /\ height \in Nat /\ prev \in Int /\ height >= 1
        /\ height' \in Nat /\ prev' \in Int
    BY <1>1, NextIInv DEF IInv, TypeOK
  <2>2. height' = height + 1
    <3>1. \/ UNCHANGED height
          \/ \E ts : AddBlock(ts)
      BY <1>1 DEF Next, vars, WaitForNextBlock, PrepareForRound, WaitForRound, StagePasses,
         StageFails, SendBlockTemplate, SendAndWaitForSignedBlocks, MinerBlock, Tick
    <3> QED
      BY <1>1, <3>1 DEF AddBlock
  <2>3. /\ IdealTimestamp(height) = ideal + TargetBlockTime
        /\ ideal \in Int
    <3>1. ideal \in Int
      BY <2>1, TimingTypes
    <3> QED
      BY <2>1, <3>1, Constants DEF IdealTimestamp
  <2>4. IdealTimestamp(height' - 1) = ideal + TargetBlockTime
    BY <2>1, <2>2, <2>3
  <2> HIDE DEF ideal
  <2>5. Drift(height, prev) = prev - ideal /\ Drift(height', prev') = prev' - (ideal + TargetBlockTime)
    BY <2>4 DEF Drift, ideal
  <2>6. R0(height, prev) = Clamp(ideal + TargetBlockTime, prev + (TargetBlockTime - Adjust),
                                 prev + (TargetBlockTime + Adjust))
    BY <2>3 DEF R0
  <2>7. Adjust \in Nat /\ TargetBlockTime \in Nat
    BY Constants
  <2> DEFINE r0 == R0(height, prev)
             before == Drift(height, prev)
             after == Drift(height', prev')
  <2>8. r0 \in Int /\ before = prev - ideal /\ after = prev' - (ideal + TargetBlockTime)
    BY <2>1, <2>5, TimingTypes
  <2>9. /\ prev - ideal >= Adjust => r0 = prev + (TargetBlockTime - Adjust)
        /\ prev - ideal <= - Adjust => r0 = prev + (TargetBlockTime + Adjust)
        /\ prev - ideal \in - Adjust .. Adjust => r0 = ideal + TargetBlockTime
    BY <2>1, <2>3, <2>6, <2>7 DEF Clamp
  <2> HIDE DEF r0, before, after
  <2>10. /\ before >= Adjust => after - (prev' - r0) = before - Adjust
         /\ before <= - Adjust => after - (prev' - r0) = before + Adjust
         /\ before \in - Adjust .. Adjust => after - (prev' - r0) = 0
    <3> DEFINE ts == prev'
    <3>1. ts \in Int /\ ideal \in Int /\ prev \in Int
      BY <2>1, <2>3
    <3> HIDE DEF ts
    <3>2. after = ts - (ideal + TargetBlockTime)
      BY <2>8 DEF ts
    <3>3. after - (ts - r0) = r0 - (ideal + TargetBlockTime)
      BY <2>7, <2>8, <3>1, <3>2
    <3>4. /\ before >= Adjust => r0 - (ideal + TargetBlockTime) = before - Adjust
          /\ before <= - Adjust => r0 - (ideal + TargetBlockTime) = before + Adjust
          /\ before \in - Adjust .. Adjust => r0 - (ideal + TargetBlockTime) = 0
      BY <2>7, <2>8, <2>9, <3>1
    <3> QED
      BY <3>3, <3>4 DEF ts
  <2> QED
    BY <2>10 DEF r0, before, after
<1>2. IInv /\ [Next]_vars
        => [height' # height =>
              LET took == prev' - R0(height, prev)
                  drift == Drift(height, prev)
                  drift_after == Drift(height', prev') - took
              IN  /\ drift >= Adjust => drift_after = drift - Adjust
                  /\ drift <= - Adjust => drift_after = drift + Adjust
                  /\ drift \in - Adjust .. Adjust => drift_after = 0]_vars
  BY <1>1
<1> QED
  BY <1>2, Invariance, PTL DEF Spec, CatchUp

\* A time within the rounds lies in one of them.
LEMMA RoundOfTime ==
    ASSUME NEW r0 \in Int, NEW ts \in Int, r0 <= ts, ts < r0 + RoundTime * MaxRound
    PROVE  \E r \in Rounds : RoundStart(r0, r) <= ts /\ ts <= RoundStart(r0, r) + RoundTime
<1> DEFINE x == ts - r0
           q == x \div RoundTime
<1>1. x \in Nat
  OBVIOUS
<1>2. q \in Nat /\ q * RoundTime <= x /\ x < q * RoundTime + RoundTime
  BY <1>1, DivFacts, Constants
<1>3. q * RoundTime \in Int /\ MaxRound * RoundTime \in Int /\ RoundTime * MaxRound = MaxRound * RoundTime
  <2>1. \A a, b \in Nat : a * b \in Int /\ a * b = b * a
    BY SMT
  <2> QED
    BY <1>2, <2>1, Constants
<1> HIDE DEF q
<1>4. q <= MaxRound
  <2> SUFFICES ASSUME q >= MaxRound PROVE FALSE
    BY <1>2, Constants
  <2>1. MaxRound * RoundTime <= q * RoundTime
    BY <1>2, TimesMonotone, Constants
  <2> QED
    BY <1>2, <1>3, <2>1, Constants
<1>5. q \in Rounds
  BY <1>2, <1>4, Constants DEF Rounds
<1>6. RoundStart(r0, q) <= ts /\ ts <= RoundStart(r0, q) + RoundTime
  BY <1>2, <1>3, Constants DEF RoundStart
<1> QED
  BY <1>5, <1>6

\* At any time from the beginning of round 0 the chain accepts a Pulse block of some
\* round or a miner block, and never both: there is no time at which no block can be
\* made, and none at which the two kinds compete.
THEOREM OneKindAtATime == Spec => []OneKind
<1>1. ASSUME IInv PROVE OneKind
  <2> DEFINE r0 == R0(height, prev)
  <2>1. height \in Nat /\ prev \in Int
    BY <1>1 DEF IInv, TypeOK
  <2>2. r0 \in Int /\ MinerFallback(height, prev) \in Int
    BY <2>1, TimingTypes
  <2>3. ASSUME NEW ts \in r0 .. RoundStart(r0, MaxRound + 1)
        PROVE  (\E r \in Rounds : PulseBlockOK(r, ts)) <=> ~MinerBlockOK(ts)
    <3>1. ts \in Int /\ r0 <= ts
      <4>1. RoundStart(r0, MaxRound + 1) \in Int
        BY <2>1, <2>2, TimingTypes, Constants
      <4> QED
        BY <2>2, <4>1
    <3>2. ASSUME NEW r \in Rounds, PulseBlockOK(r, ts)
          PROVE  ~MinerBlockOK(ts)
      BY <2>2, <3>1, <3>2 DEF PulseBlockOK, MinerBlockOK
    <3>3. ASSUME ~MinerBlockOK(ts)
          PROVE  \E r \in Rounds : PulseBlockOK(r, ts)
      <4>1. height \notin Insufficient /\ ts < MinerFallback(height, prev)
        BY <2>2, <3>1, <3>3 DEF MinerBlockOK
      <4>2. ts < r0 + RoundTime * MaxRound
        BY <4>1 DEF MinerFallback
      <4> HIDE DEF r0
      <4>3. PICK r \in Rounds : RoundStart(r0, r) <= ts /\ ts <= RoundStart(r0, r) + RoundTime
        BY <2>2, <3>1, <4>2, RoundOfTime
      <4> QED
        BY <4>1, <4>3 DEF PulseBlockOK, r0
    <3> QED
      BY <3>2, <3>3
  <2> QED
    BY <2>3 DEF OneKind
<1> QED
  BY <1>1, Invariance, PTL

=============================================================================
