--------------------------- MODULE PulseBlockSteps --------------------------
(***************************************************************************)
(* The steps of Pulse that keep its two invariants, part two: from locking *)
(* in the participants to the signed block.                                *)
(***************************************************************************)
EXTENDS PulseLemmas

-----------------------------------------------------------------------------
(* Locking in the participants *)

\* The validators whose messages of N say b.
VotersIn(N, t, r, b) ==
    {p \in Positions :
        \E m \in N : /\ m.type = handshake_bitset /\ m.top = t /\ m.pos = p
                     /\ m.key = Validators[t][r][p] /\ m.data = b}

\* Counting the bitsets a node holds counts validators.  This is proved by CountIsVotes
\* in PulseProofs, from the theory of finite sets.
CountsVotes ==
    \A d \in Context : \A N, b :
        (/\ OnePerPosition(d.received) /\ d.received \subseteq N
         /\ \A m \in d.received : SignatureCheck(d, m)
         /\ Count(d, b) >= Required)
        => /\ Cardinality(VotersIn(N, d.top, d.round, b)) >= Required
           /\ b \in SUBSET Positions

\* The context of a node that has locked in the participants.
LockedIn(d, best, s) == [d EXCEPT !.best_bitset = best, !.state = s]

\* Locking in changes the best bitset and the state.
LEMMA LockedInFacts ==
    ASSUME NEW d \in Context, NEW best \in SUBSET Positions,
           NEW s \in {send_block_template, wait_for_block_template}
    PROVE  LET e == LockedIn(d, best, s)
           IN  /\ e \in Context /\ e.state = s /\ e.height = d.height /\ e.top = d.top
               /\ e.round = d.round /\ e.queue = d.queue /\ e.received = d.received
               /\ e.sent = d.sent /\ e.final_block = d.final_block
<1>1. s \in null_state .. send_and_wait_for_signed_blocks
  BY AllStates
<1> QED
  BY <1>1, Zenon DEF LockedIn, Context

\* The step of wait_for_handshake_bitsets.
LEMMA StepWaitForHandshakeBitsets ==
    ASSUME IInv, CountsVotes, NEW n \in Nodes, WaitForHandshakeBitsets(n)
    PROVE  LocalStep(n)
<1> DEFINE c == context[n]
           d == Drain(c, handshake_bitset)
           best == MostCommonBitset(d)
           s == IF IsProducer(n, d) THEN send_block_template ELSE wait_for_block_template
           lock == [node |-> n, top |-> d.top, round |-> d.round, bitset |-> best]
           e == context'[n]
           M == {}
<1>1. /\ c \in Context /\ c.state = wait_for_handshake_bitsets /\ HoldingOK(n) /\ RoleOK(n)
      /\ OnePerPosition(c.queue) /\ OnePerPosition(c.received)
  BY NodeFacts DEF WaitForHandshakeBitsets
<1>2. /\ c.state > wait_for_next_block /\ c.state >= send_and_wait_for_handshakes
      /\ c.state # wait_for_round
  BY <1>1 DEF wait_for_next_block, wait_for_round, wait_for_handshake_bitsets,
              send_and_wait_for_handshakes
<1>3. /\ Grown(c, d, M) /\ d.sent = c.sent /\ d \in Context /\ d.queue \subseteq net
      /\ c.top \in Tips
  <2>1. Grown(c, d, M) /\ d.sent = c.sent /\ \A m \in d.queue : m.type # handshake_bitset
    BY <1>1, DrainFacts
  <2>2. \A m \in c.queue \ net : m.type = handshake_bitset
    BY <1>1 DEF HoldingOK
  <2> QED
    BY <1>2, <2>1, <2>2, NodeFacts DEF Grown
<1>4. /\ context' = [context EXCEPT ![n] = e] /\ net' = net \cup d.received
      /\ UNCHANGED <<chain, produced>>
      /\ \/ e = d /\ UNCHANGED locks
         \/ e = goto_preparing_for_next_round(d) /\ UNCHANGED locks
         \/ /\ Agreed(n, d, best) /\ e = LockedIn(d, best, s)
            /\ locks' = locks \cup {lock}
  <2>1. context \in [Nodes -> Context]
    BY NodeFacts
  <2>2. \/ context' = [context EXCEPT ![n] = d] /\ UNCHANGED locks
        \/ /\ context' = [context EXCEPT ![n] = goto_preparing_for_next_round(d)]
           /\ UNCHANGED locks
        \/ /\ Agreed(n, d, best) /\ context' = [context EXCEPT ![n] = LockedIn(d, best, s)]
           /\ locks' = locks \cup {lock}
    BY Zenon DEF WaitForHandshakeBitsets, LockedIn
  <2>3. net' = net \cup d.received /\ UNCHANGED <<chain, produced>>
    BY DEF WaitForHandshakeBitsets, Relay
  <2> HIDE DEF d, best, s, lock
  <2> QED
    BY <2>1, <2>2, <2>3
<1> HIDE DEF d, e
<1>5. /\ OnePerPosition(d.received) /\ d.received \subseteq net'
      /\ \A m \in d.received : SignatureCheck(d, m)
      /\ d.top = c.top /\ d.round = c.round /\ d.height = c.height /\ d.state = c.state
  BY <1>1, <1>3, <1>4, Zenon DEF Grown, HoldingOK, SignatureCheck, Validator
<1>6. ASSUME Agreed(n, d, best)
      PROVE  /\ best \in SUBSET Positions /\ lock \in Lock
             /\ \A l : l = lock => LockOK(l)'
  <2>1. Count(d, best) >= Required
    BY <1>6 DEF Agreed
  <2> HIDE DEF best
  <2>2. /\ Cardinality(VotersIn(net', d.top, d.round, best)) >= Required
        /\ best \in SUBSET Positions
    BY <1>3, <1>5, <2>1, Zenon DEF CountsVotes
  <2>3. lock \in Lock
    BY <1>3, <1>5, <2>2 DEF Lock, Context
  <2>4. ASSUME NEW l, l = lock
        PROVE  LockOK(l)'
    <3>1. l.top = d.top /\ l.round = d.round /\ l.bitset = best
      BY <2>4
    <3>2. Voters(l.top, l.round, l.bitset)' = VotersIn(net', l.top, l.round, l.bitset)
      BY DEF Voters, VotersIn
    <3> QED
      BY <2>2, <3>1, <3>2 DEF LockOK
  <2> QED
    BY <2>2, <2>3, <2>4
<1>7. /\ e \in Context /\ e.top = c.top /\ e.height = c.height
      /\ \/ /\ e.state = prepare_for_round /\ e.queue_for_next_round
            /\ e.round = d.round /\ e.queue = d.queue /\ e.received = d.received
         \/ /\ e.state >= c.state /\ e.sent = d.sent /\ e.final_block = d.final_block
            /\ e.round = d.round /\ e.queue = d.queue /\ e.received = d.received
            /\ \/ e.state = c.state
               \/ e.state = send_block_template /\ IsProducer(n, d)
               \/ e.state = wait_for_block_template /\ ~IsProducer(n, d)
  <2>1. CASE e = d
    BY <1>1, <1>3, <1>5, <2>1 DEF wait_for_handshake_bitsets
  <2>2. CASE e = goto_preparing_for_next_round(d)
    BY <1>3, <1>5, <2>2, EndFacts
  <2>3. CASE Agreed(n, d, best) /\ e = LockedIn(d, best, s)
    <3>1. /\ e \in Context /\ e.state = s /\ e.height = d.height /\ e.top = d.top
          /\ e.round = d.round /\ e.queue = d.queue /\ e.received = d.received
          /\ e.sent = d.sent /\ e.final_block = d.final_block
      <4> HIDE DEF best
      <4> QED
        BY <1>3, <1>6, <2>3, LockedInFacts
    <3> QED
      BY <1>1, <1>5, <3>1
         DEF wait_for_handshake_bitsets, send_block_template, wait_for_block_template
  <2> QED
    BY <1>4, <2>1, <2>2, <2>3
<1>8. HeightOf[chain[n]] <= HeightOf[chain'[n]] /\ chain'[n] \in Tips
  BY <1>4, NodeFacts
<1>9. /\ \A m \in net' \ net : m \in Message /\ m.key = n /\ MessageOK(m)
      /\ HoldingOK(n)'
      /\ SignaturesOK(n)'
      /\ n \notin Unsteady => SteadyOK(n)'
  <2>1. M \in SUBSET Message /\ \A m, o \in M : m = o
    OBVIOUS
  <2>2. \A m \in M : /\ m.key = n /\ m.top = c.top /\ m.round = c.round
                     /\ MessageOK(m) /\ SignatureCheck(c, m)
                     /\ m.type \notin c.sent /\ m.type \in d.sent
                     /\ m.type \notin {handshake_bitset, block_template}
    OBVIOUS
  <2>3. c.sent \subseteq d.sent
    BY <1>3
  <2>4. \/ /\ e.state = prepare_for_round /\ e.queue_for_next_round
            /\ e.round = d.round /\ e.queue = d.queue /\ e.received = d.received
        \/ /\ e.state >= c.state /\ e.sent = d.sent /\ e.final_block = d.final_block
           /\ e.round = d.round /\ e.queue = d.queue /\ e.received = d.received
    BY <1>7
  <2> HIDE DEF M
  <2> QED
    BY <1>2, <1>3, <1>4, <1>7, <1>8, <2>1, <2>2, <2>3, <2>4, StageStep, Zenon
<1>10. RoleOK(n)'
  <2>1. context'[n] = e
    BY DEF e
  <2>2. CASE e.state = prepare_for_round
    BY <1>2, <1>7, <2>1, <2>2, RoleOfEnd
  <2>3. CASE e.state # prepare_for_round
    <3>1. /\ e.round = c.round
          /\ \/ e.state = wait_for_handshake_bitsets
             \/ e.state = send_block_template /\ IsProducer(n, d)
             \/ e.state = wait_for_block_template /\ ~IsProducer(n, d)
      BY <1>1, <1>5, <1>7, <2>3
    <3>2. /\ IsProducer(n, d) = IsProducer(n, c) /\ IsProducer(n, e) = IsProducer(n, c)
          /\ IsValidator(n, e) = IsValidator(n, c)
      BY <1>5, <1>7, <3>1 DEF IsProducer, IsValidator, Validator
    <3>3. IsValidator(n, c) \/ IsProducer(n, c)
      BY <1>1 DEF RoleOK
    <3>4. e.top \in Tips /\ e.height = HeightOf[e.top]
      BY <1>2, <1>7, HeightOfTop, Zenon
    <3> QED
      BY <2>1, <3>1, <3>2, <3>3, <3>4, RoleOfState, Zenon
  <2> QED
    BY <2>2, <2>3
<1>11. locks' \subseteq Lock /\ \A l \in locks' \ locks : LockOK(l)'
  <2> HIDE DEF lock, best
  <2> QED
    BY <1>4, <1>6, NodeFacts
<1> QED
  BY <1>4, <1>7, <1>9, <1>10, <1>11, NodeFacts DEF LocalStep, e

-----------------------------------------------------------------------------
(* The stages after the lock *)

\* A state after the lock-in is after the earlier ones.
LEMMA AfterLockIn ==
    ASSUME NEW s \in Int, s >= wait_for_block_template
    PROVE  s >= send_and_wait_for_handshakes /\ s > wait_for_next_block
BY DEF wait_for_next_block, send_and_wait_for_handshakes, wait_for_block_template

\* The states after the lock-in are neither the first two.
LEMMA LateStates ==
    \A s \in {wait_for_block_template, send_and_wait_for_random_value_hashes,
             send_and_wait_for_random_value, send_and_wait_for_signed_blocks} :
        s # wait_for_next_block /\ s # prepare_for_round
BY DEF wait_for_next_block, prepare_for_round, wait_for_block_template,
       send_and_wait_for_random_value_hashes, send_and_wait_for_random_value,
       send_and_wait_for_signed_blocks

\* A stage after the lock, from context[n] through d, in which M was signed: it goes
\* to e, fails or ends.
LEMMA LaterStage ==
    ASSUME IInv, NEW n \in Nodes, NEW d, NEW e \in Context, NEW M \in SUBSET Message,
           context[n].state >= wait_for_block_template,
           Grown(context[n], d, M),
           d.queue \subseteq net,
           context[n].sent \subseteq d.sent,
           \A m \in M : /\ m.key = n /\ m.top = context[n].top /\ m.round = context[n].round
                        /\ MessageOK(m) /\ SignatureCheck(context[n], m)
                        /\ m.type \notin context[n].sent /\ m.type \in d.sent
                        /\ m.type \notin {handshake_bitset, block_template},
           \A m, o \in M : m = o,
           e.top = d.top, e.height = d.height,
           \/ /\ e.state = wait_for_next_block
              /\ e.queue = {} /\ e.received = {}
           \/ /\ e.state = prepare_for_round /\ e.queue_for_next_round
              /\ e.round = d.round /\ e.queue = d.queue /\ e.received = d.received
           \/ /\ e.state >= context[n].state /\ e.sent = d.sent
              /\ e.round = d.round /\ e.queue = d.queue /\ e.received = d.received
              /\ \/ e.final_block = d.final_block
                 \/ /\ context[n].state = send_and_wait_for_random_value
                    /\ e.state = send_and_wait_for_signed_blocks
              /\ \/ e.state = wait_for_block_template
                 \/ /\ e.state \in {send_and_wait_for_random_value_hashes,
                                    send_and_wait_for_random_value}
                    /\ e.random_value \in RandomValues
                    /\ Stage(d, block_template) # {}
                 \/ /\ e.state = send_and_wait_for_signed_blocks
                    /\ e.final_block \in FinalBlock,
           context' = [context EXCEPT ![n] = e],
           net' = net \cup d.received,
           HeightOf[chain[n]] <= HeightOf[chain'[n]],
           chain'[n] \in Tips,
           \A k \in Nodes \ {n} : chain'[k] = chain[k], chain' \in [Nodes -> Tips],
           UNCHANGED locks,
           produced' \subseteq Produced,
           \A b \in produced' \ produced : ProducedOK(b)'
    PROVE  LocalStep(n)
<1> DEFINE c == context[n]
<1>1. /\ c \in Context /\ c.state \in Int /\ RoleOK(n) /\ locks \subseteq Lock
      /\ context \in [Nodes -> Context] /\ e.state \in Int
  <2>1. e.state \in Int
    BY StateOfContext, Zenon
  <2> QED
    BY <2>1, NodeFacts, Zenon
<1>2. /\ c.state >= send_and_wait_for_handshakes /\ c.state > wait_for_next_block
      /\ IsValidator(n, c)
  <2>1. c.state >= send_and_wait_for_handshakes /\ c.state > wait_for_next_block
    BY <1>1, AfterLockIn, Zenon
  <2>2. IsValidator(n, c)
    BY <1>1, Zenon DEF RoleOK
  <2> QED
    BY <2>1, <2>2, Zenon
<1>3. d.top = c.top /\ d.height = c.height /\ d.round = c.round
  BY Zenon DEF Grown
<1>4. /\ \A m \in net' \ net : m \in Message /\ m.key = n /\ MessageOK(m)
      /\ HoldingOK(n)'
      /\ SignaturesOK(n)'
      /\ n \notin Unsteady => SteadyOK(n)'
  <2>1. e.top = c.top /\ e.height = c.height
    BY <1>3, SMTT(20)
  <2> QED
    BY <1>2, <2>1, StageStep, Zenon
<1>5. context'[n] = e
  BY <1>1
<1>6. RoleOK(n)'
  <2>1. CASE e.state \in {wait_for_next_block, prepare_for_round}
    <3>1. \/ e.state = prepare_for_round
          \/ e.state = wait_for_next_block /\ e.queue = {} /\ e.received = {}
      BY <2>1, LateStates, Zenon
    <3> QED
      BY <1>2, <1>3, <1>5, <3>1, RoleOfEnd, Zenon
  <2>2. CASE ~(e.state \in {wait_for_next_block, prepare_for_round})
    <3>1. e.received = d.received => Stage(e, block_template) = Stage(d, block_template)
      BY DEF Stage
    <3>2. /\ e.round = c.round
          /\ \/ e.state = wait_for_handshake_bitsets
             \/ e.state = wait_for_block_template
             \/ /\ e.state \in {send_and_wait_for_random_value_hashes,
                                 send_and_wait_for_random_value}
                /\ e.random_value \in RandomValues /\ Stage(e, block_template) # {}
             \/ e.state = send_and_wait_for_signed_blocks /\ e.final_block \in FinalBlock
      BY <1>3, <2>2, <3>1
    <3> QED
      BY <1>2, <1>3, <1>5, <3>2, RoleOfNext, SMTT(20)
  <2> QED
    BY <2>1, <2>2
<1>7. /\ context' \in [Nodes -> Context] /\ \A k \in Nodes \ {n} : context'[k] = context[k]
      /\ net \subseteq net'
  BY <1>1
<1> QED
  BY <1>1, <1>4, <1>6, <1>7, SMTT(20) DEF LocalStep

\* What a step leaves to a stage that only changes its own context.
LEMMA SameChain ==
    ASSUME IInv, NEW n \in Nodes, UNCHANGED <<chain, locks, produced>>
    PROVE  /\ HeightOf[chain[n]] <= HeightOf[chain'[n]] /\ chain'[n] \in Tips
           /\ \A k \in Nodes \ {n} : chain'[k] = chain[k]
           /\ chain' \in [Nodes -> Tips]
           /\ UNCHANGED locks /\ produced' \subseteq Produced
           /\ \A b \in produced' \ produced : ProducedOK(b)'
BY NodeFacts

\* The context of a node that has drawn its random value.
Drawn(d, value) ==
    [d EXCEPT !.random_value = value, !.state = send_and_wait_for_random_value_hashes]

\* Drawing a random value changes that value and the state.
LEMMA DrawnFacts ==
    ASSUME NEW d \in Context, NEW value \in RandomValues
    PROVE  LET e == Drawn(d, value)
           IN  /\ e \in Context /\ e.state = send_and_wait_for_random_value_hashes
               /\ e.height = d.height /\ e.top = d.top /\ e.round = d.round
               /\ e.queue = d.queue /\ e.received = d.received /\ e.sent = d.sent
               /\ e.random_value = value /\ e.final_block = d.final_block
<1>1. send_and_wait_for_random_value_hashes \in null_state .. send_and_wait_for_signed_blocks
  BY AllStates
<1> QED
  BY <1>1, Zenon DEF Drawn, Context

\* The step of wait_for_block_template.
LEMMA StepWaitForBlockTemplate ==
    ASSUME IInv, NEW n \in Nodes, WaitForBlockTemplate(n)
    PROVE  LocalStep(n)
<1> DEFINE c == context[n]
           d == Drain(c, block_template)
           e == context'[n]
           M == {}
<1>1. /\ c \in Context /\ c.state = wait_for_block_template
      /\ OnePerPosition(c.queue) /\ OnePerPosition(c.received)
  BY NodeFacts DEF WaitForBlockTemplate
<1>2. /\ c.state >= wait_for_block_template /\ c.queue \subseteq net
      /\ c.state # wait_for_handshake_bitsets
  <2>1. /\ c.state >= wait_for_block_template
        /\ c.state # wait_for_handshake_bitsets
    BY <1>1 DEF wait_for_block_template, wait_for_handshake_bitsets
  <2> QED
    BY <2>1, NodeFacts, Zenon
<1>3. Grown(c, d, M) /\ d.sent = c.sent /\ d \in Context /\ d.queue \subseteq net
  BY <1>1, <1>2, DrainFacts DEF Grown
<1>4. /\ context' = [context EXCEPT ![n] = e] /\ net' = net \cup d.received
      /\ UNCHANGED <<chain, locks, produced>>
      /\ \/ e = d
         \/ e = goto_preparing_for_next_round(d)
         \/ /\ Stage(d, block_template) # {}
            /\ \E value \in RandomValues : e = Drawn(d, value)
  <2>1. context \in [Nodes -> Context]
    BY NodeFacts
  <2>2. \/ context' = [context EXCEPT ![n] = d]
        \/ context' = [context EXCEPT ![n] = goto_preparing_for_next_round(d)]
        \/ /\ Stage(d, block_template) # {}
           /\ \E value \in RandomValues : context' = [context EXCEPT ![n] = Drawn(d, value)]
    BY Zenon DEF WaitForBlockTemplate, Drawn
  <2>3. net' = net \cup d.received /\ UNCHANGED <<chain, locks, produced>>
    BY DEF WaitForBlockTemplate, Relay
  <2> HIDE DEF d
  <2> QED
    BY <2>1, <2>2, <2>3
<1> HIDE DEF d, e
<1>5. d.state = c.state
  BY <1>3 DEF Grown
<1>6. /\ e \in Context /\ e.top = d.top /\ e.height = d.height
      /\ \/ /\ e.state = prepare_for_round /\ e.queue_for_next_round
            /\ e.round = d.round /\ e.queue = d.queue /\ e.received = d.received
         \/ /\ e.state >= c.state /\ e.sent = d.sent
            /\ e.round = d.round /\ e.queue = d.queue /\ e.received = d.received
            /\ e.final_block = d.final_block
            /\ \/ e.state = wait_for_block_template
               \/ /\ e.state = send_and_wait_for_random_value_hashes
                  /\ e.random_value \in RandomValues
                  /\ Stage(d, block_template) # {}
  <2>1. CASE e = d
    BY <1>1, <1>3, <1>5, <2>1 DEF wait_for_block_template
  <2>2. CASE e = goto_preparing_for_next_round(d)
    BY <1>3, <2>2, EndFacts
  <2>3. ASSUME NEW value \in RandomValues, e = Drawn(d, value), Stage(d, block_template) # {}
        PROVE  /\ e \in Context /\ e.top = d.top /\ e.height = d.height
               /\ e.state >= c.state /\ e.sent = d.sent
               /\ e.round = d.round /\ e.queue = d.queue /\ e.received = d.received
               /\ e.final_block = d.final_block
               /\ e.state = send_and_wait_for_random_value_hashes
               /\ e.random_value \in RandomValues
    <3>1. /\ e \in Context /\ e.state = send_and_wait_for_random_value_hashes
          /\ e.height = d.height /\ e.top = d.top /\ e.round = d.round
          /\ e.queue = d.queue /\ e.received = d.received /\ e.sent = d.sent
          /\ e.random_value = value /\ e.final_block = d.final_block
      BY <1>3, <2>3, DrawnFacts
    <3> QED
      BY <1>1, <2>3, <3>1 DEF wait_for_block_template, send_and_wait_for_random_value_hashes
  <2> QED
    BY <1>4, <2>1, <2>2, <2>3
<1>7. /\ M \in SUBSET Message /\ c.sent \subseteq d.sent
      /\ \A m \in M : /\ m.key = n /\ m.top = c.top /\ m.round = c.round
                      /\ MessageOK(m) /\ SignatureCheck(c, m)
                      /\ m.type \notin c.sent /\ m.type \in d.sent
                      /\ m.type \notin {handshake_bitset, block_template}
      /\ \A m, o \in M : m = o
  BY <1>3
<1> HIDE DEF M
<1> QED
  BY <1>2, <1>3, <1>4, <1>6, <1>7, SameChain, LaterStage, Zenon

\* The step of send_and_wait_for_random_value_hashes.
LEMMA StepSendAndWaitForRandomValueHashes ==
    ASSUME IInv, NEW n \in Nodes, SendAndWaitForRandomValueHashes(n)
    PROVE  LocalStep(n)
<1> DEFINE c == context[n]
           data == Hash(c.random_value)
           own == OwnMessage(n, c, random_value_hash, data)
           d == Drain(SendOnce(c, own), random_value_hash)
           M == IF random_value_hash \in c.sent THEN {} ELSE {own}
           next == [d EXCEPT !.state = send_and_wait_for_random_value]
           e == context'[n]
<1>1. /\ c.state = send_and_wait_for_random_value_hashes
      /\ c.state = StageOf(random_value_hash)
      /\ random_value_hash \in (handshake .. signed_block) \ {handshake_bitset, block_template}
  BY DEF SendAndWaitForRandomValueHashes, StageOf, handshake, handshake_bitset,
         block_template, random_value_hash, random_value, signed_block
<1>2. /\ c.random_value \in RandomValues /\ Stage(c, block_template) # {}
      /\ data \in {Hash(v) : v \in RandomValues}
  BY <1>1, NodeFacts DEF RoleOK
<1> HIDE DEF data
<1>3. /\ M \in SUBSET Message
      /\ Grown(c, d, M) /\ d.sent = c.sent \cup {random_value_hash} /\ d.queue \subseteq net
      /\ \A m \in M : /\ m.key = n /\ m.top = c.top /\ m.round = c.round
                      /\ MessageOK(m) /\ SignatureCheck(c, m)
                      /\ m.type \notin c.sent /\ m.type \in d.sent
                      /\ m.type \notin {handshake_bitset, block_template}
      /\ \A m, o \in M : m = o
  <2>1. Sends(n, c, random_value_hash, d, M)
    BY <1>1, <1>2, SendingStage, Zenon
  <2> HIDE DEF d, M, own
  <2> QED
    BY <2>1, Zenon DEF Sends
<1>4. /\ context' = [context EXCEPT ![n] = e] /\ net' = net \cup d.received
      /\ UNCHANGED <<chain, locks, produced>>
      /\ e \in {d, next, goto_preparing_for_next_round(d)}
  <2>1. context \in [Nodes -> Context]
    BY NodeFacts
  <2>2. \/ context' = [context EXCEPT ![n] = d]
        \/ context' = [context EXCEPT ![n] = next]
        \/ context' = [context EXCEPT ![n] = goto_preparing_for_next_round(d)]
    BY Zenon DEF SendAndWaitForRandomValueHashes, data
  <2>3. net' = net \cup d.received /\ UNCHANGED <<chain, locks, produced>>
    BY DEF SendAndWaitForRandomValueHashes, Relay, data
  <2> HIDE DEF d, next
  <2> QED
    BY <2>1, <2>2, <2>3
<1> HIDE DEF d, e, M, own
<1>5. /\ d \in Context /\ d.state = c.state /\ d.random_value = c.random_value
      /\ Stage(d, block_template) # {} /\ c.sent \subseteq d.sent
  BY <1>2, <1>3 DEF Grown, Stage
<1>6. /\ next \in Context /\ next.state = send_and_wait_for_random_value
      /\ next.top = d.top /\ next.height = d.height /\ next.round = d.round
      /\ next.queue = d.queue /\ next.received = d.received /\ next.sent = d.sent
      /\ next.random_value = d.random_value /\ next.final_block = d.final_block
  BY <1>5, StateFacts, AllStates
<1> HIDE DEF next
<1>7. /\ e \in Context /\ e.top = d.top /\ e.height = d.height
      /\ \/ /\ e.state = prepare_for_round /\ e.queue_for_next_round
            /\ e.round = d.round /\ e.queue = d.queue /\ e.received = d.received
         \/ /\ e.state >= c.state /\ e.sent = d.sent
            /\ e.round = d.round /\ e.queue = d.queue /\ e.received = d.received
            /\ e.final_block = d.final_block
            /\ e.state \in {send_and_wait_for_random_value_hashes,
                            send_and_wait_for_random_value}
            /\ e.random_value \in RandomValues
            /\ Stage(d, block_template) # {}
  <2>1. CASE e = goto_preparing_for_next_round(d)
    BY <1>5, <2>1, EndFacts
  <2>2. CASE e \in {d, next}
    BY <1>1, <1>2, <1>5, <1>6, <2>2
       DEF send_and_wait_for_random_value_hashes, send_and_wait_for_random_value
  <2> QED
    BY <1>4, <2>1, <2>2
<1>8. c.state >= wait_for_block_template
  BY <1>1 DEF wait_for_block_template, send_and_wait_for_random_value_hashes
<1> QED
  BY <1>3, <1>4, <1>5, <1>7, <1>8, SameChain, LaterStage, Zenon

\* The final block of a node that has a template.
LEMMA FinalBlockFacts ==
    ASSUME NEW d \in Context, Stage(d, block_template) # {}
    PROVE  FinalBlockOf(d) \in FinalBlock
<1>1. (CHOOSE m \in Stage(d, block_template) : TRUE) \in Stage(d, block_template)
  OBVIOUS
<1>2. \A m \in Stage(d, block_template) : m.data \in BlockTemplate
  BY MessageFields DEF Stage, Context
<1>3. \A m \in Stage(d, random_value) : <<m.pos, m.data>> \in Positions \X RandomValues
  BY MessageFields DEF Stage, Context
<1>4. {<<m.pos, m.data>> : m \in Stage(d, random_value)} \in SUBSET (Positions \X RandomValues)
  BY <1>3
<1> QED
  BY <1>1, <1>2, <1>4 DEF FinalBlockOf, FinalBlock

\* The context of a node that has put the final block together.
Assembled(d) ==
    [d EXCEPT !.final_block = FinalBlockOf(d), !.state = send_and_wait_for_signed_blocks]

\* Assembling the final block changes that block and the state.
LEMMA AssembledFacts ==
    ASSUME NEW d \in Context, Stage(d, block_template) # {}
    PROVE  LET e == Assembled(d)
           IN  /\ e \in Context /\ e.state = send_and_wait_for_signed_blocks
               /\ e.height = d.height /\ e.top = d.top /\ e.round = d.round
               /\ e.queue = d.queue /\ e.received = d.received /\ e.sent = d.sent
               /\ e.final_block \in FinalBlock
<1> DEFINE b == FinalBlockOf(d)
<1>1. send_and_wait_for_signed_blocks \in null_state .. send_and_wait_for_signed_blocks
  BY AllStates
<1>2. b \in FinalBlock
  BY FinalBlockFacts
<1>3. Assembled(d) = [d EXCEPT !.final_block = b, !.state = send_and_wait_for_signed_blocks]
  BY DEF Assembled
<1> HIDE DEF b
<1> QED
  BY <1>1, <1>2, <1>3, Zenon DEF Context

\* The step of send_and_wait_for_random_value.
LEMMA StepSendAndWaitForRandomValue ==
    ASSUME IInv, NEW n \in Nodes, SendAndWaitForRandomValue(n)
    PROVE  LocalStep(n)
<1> DEFINE c == context[n]
           data == c.random_value
           own == OwnMessage(n, c, random_value, data)
           d == Drain(SendOnce(c, own), random_value)
           M == IF random_value \in c.sent THEN {} ELSE {own}
           e == context'[n]
<1>1. /\ c.state = send_and_wait_for_random_value
      /\ c.state = StageOf(random_value)
      /\ random_value \in (handshake .. signed_block) \ {handshake_bitset, block_template}
  BY DEF SendAndWaitForRandomValue, StageOf, handshake, handshake_bitset,
         block_template, random_value_hash, random_value, signed_block
<1>2. data \in RandomValues /\ Stage(c, block_template) # {}
  BY <1>1, NodeFacts, Zenon DEF RoleOK
<1> HIDE DEF data
<1>3. /\ M \in SUBSET Message
      /\ Grown(c, d, M) /\ d.sent = c.sent \cup {random_value} /\ d.queue \subseteq net
      /\ \A m \in M : /\ m.key = n /\ m.top = c.top /\ m.round = c.round
                      /\ MessageOK(m) /\ SignatureCheck(c, m)
                      /\ m.type \notin c.sent /\ m.type \in d.sent
                      /\ m.type \notin {handshake_bitset, block_template}
      /\ \A m, o \in M : m = o
  <2>1. Sends(n, c, random_value, d, M)
    BY <1>1, <1>2, SendingStage, Zenon
  <2> HIDE DEF d, M, own
  <2> QED
    BY <2>1, Zenon DEF Sends
<1>4. /\ context' = [context EXCEPT ![n] = e] /\ net' = net \cup d.received
      /\ UNCHANGED <<chain, locks, produced>>
      /\ e \in {d, Assembled(d), goto_preparing_for_next_round(d)}
  <2>1. context \in [Nodes -> Context]
    BY NodeFacts, Zenon
  <2>2. \/ context' = [context EXCEPT ![n] = d]
        \/ context' = [context EXCEPT ![n] = Assembled(d)]
        \/ context' = [context EXCEPT ![n] = goto_preparing_for_next_round(d)]
    BY Zenon DEF SendAndWaitForRandomValue, data, Assembled
  <2>3. net' = net \cup d.received /\ UNCHANGED <<chain, locks, produced>>
    BY DEF SendAndWaitForRandomValue, Relay, data
  <2> HIDE DEF d
  <2> QED
    BY <2>1, <2>2, <2>3
<1> HIDE DEF d, e, M, own
<1>5. /\ d \in Context /\ d.state = c.state /\ d.random_value = data
      /\ Stage(d, block_template) # {} /\ c.sent \subseteq d.sent
  BY <1>2, <1>3 DEF Grown, Stage, data
<1>6. /\ e \in Context /\ e.top = d.top /\ e.height = d.height
      /\ \/ /\ e.state = prepare_for_round /\ e.queue_for_next_round
            /\ e.round = d.round /\ e.queue = d.queue /\ e.received = d.received
         \/ /\ e.state >= c.state /\ e.sent = d.sent
            /\ e.round = d.round /\ e.queue = d.queue /\ e.received = d.received
            /\ \/ e.final_block = d.final_block
               \/ /\ c.state = send_and_wait_for_random_value
                  /\ e.state = send_and_wait_for_signed_blocks
            /\ \/ /\ e.state = send_and_wait_for_random_value
                  /\ e.random_value \in RandomValues
                  /\ Stage(d, block_template) # {}
               \/ /\ e.state = send_and_wait_for_signed_blocks
                  /\ e.final_block \in FinalBlock
  <2>1. CASE e = goto_preparing_for_next_round(d)
    BY <1>5, <2>1, EndFacts
  <2>2. CASE e = d
    BY <1>1, <1>2, <1>5, <2>2 DEF send_and_wait_for_random_value
  <2>3. CASE e = Assembled(d)
    BY <1>1, <1>5, <2>3, AssembledFacts
       DEF send_and_wait_for_random_value, send_and_wait_for_signed_blocks
  <2> QED
    BY <1>4, <2>1, <2>2, <2>3, Zenon
<1>7. c.state >= wait_for_block_template
  BY <1>1 DEF wait_for_block_template, send_and_wait_for_random_value
<1> QED
  BY <1>3, <1>4, <1>5, <1>6, <1>7, SameChain, LaterStage, Zenon

\* The signatures a node selects were made by validators of the round, on its block.
LEMMA SignersFacts ==
    ASSUME NEW d \in Context, NEW N, d.received \subseteq N,
           \A m \in d.received : SignatureCheck(d, m),
           \A m \in Stage(d, signed_block) : m.data = d.final_block,
           NEW signers \in SignatureChoices(Bitset(d, signed_block))
    PROVE  /\ signers \in SUBSET Positions /\ Cardinality(signers) = Required
           /\ \A p \in signers :
                 \E m \in N : /\ m.type = signed_block /\ m.top = d.top /\ m.pos = p
                              /\ m.key = Validators[d.top][d.round][p]
                              /\ m.data = d.final_block
<1>1. signers \in SUBSET Bitset(d, signed_block) /\ Cardinality(signers) = Required
  BY DEF SignatureChoices
<1>2. \A m \in Stage(d, signed_block) :
         /\ m \in Message /\ m \in N /\ m.type = signed_block
         /\ m.top = d.top /\ m.key = Validators[d.top][d.round][m.pos]
  BY DEF Stage, Context, SignatureCheck, Validator, signed_block, block_template
<1>3. \A p \in signers : \E m \in Stage(d, signed_block) : m.pos = p
  BY <1>1 DEF Bitset
<1>4. \A m \in Stage(d, signed_block) : m.pos \in Positions
  BY <1>2, MessageFields
<1> QED
  BY <1>1, <1>2, <1>3, <1>4

\* A block found extends the chain or leaves it.
LEMMA BlockFoundFacts ==
    ASSUME IInv, NEW n \in Nodes, NEW block, HandleBlockFound(n, block)
    PROVE  /\ HeightOf[chain[n]] <= HeightOf[chain'[n]] /\ chain'[n] \in Tips
           /\ \A k \in Nodes \ {n} : chain'[k] = chain[k]
           /\ chain' \in [Nodes -> Tips]
BY NodeFacts DEF HandleBlockFound

\* The step of send_and_wait_for_signed_blocks.
LEMMA StepSendAndWaitForSignedBlocks ==
    ASSUME IInv, NEW n \in Nodes, SendAndWaitForSignedBlocks(n)
    PROVE  LocalStep(n)
<1> DEFINE c == context[n]
           data == c.final_block
           own == OwnMessage(n, c, signed_block, data)
           d == Drain(SendOnce(c, own), signed_block)
           M == IF signed_block \in c.sent THEN {} ELSE {own}
           e == context'[n]
           B(signers) == [node |-> n, top |-> d.top, round |-> d.round,
                          block |-> d.final_block, signers |-> signers]
<1>1. /\ c.state = send_and_wait_for_signed_blocks
      /\ c.state = StageOf(signed_block)
      /\ signed_block \in (handshake .. signed_block) \ {handshake_bitset, block_template}
  BY DEF SendAndWaitForSignedBlocks, StageOf, handshake, handshake_bitset,
         block_template, random_value_hash, random_value, signed_block
<1>2. data \in FinalBlock
  BY <1>1, NodeFacts, Zenon DEF RoleOK
<1>0. d = WithSignatures(n)
  BY DEF WithSignatures
<1> HIDE DEF data
<1>3. /\ M \in SUBSET Message
      /\ Grown(c, d, M) /\ d.sent = c.sent \cup {signed_block} /\ d.queue \subseteq net
      /\ \A m \in M : /\ m.key = n /\ m.top = c.top /\ m.round = c.round
                      /\ MessageOK(m) /\ SignatureCheck(c, m)
                      /\ m.type \notin c.sent /\ m.type \in d.sent
                      /\ m.type \notin {handshake_bitset, block_template}
      /\ \A m, o \in M : m = o
  <2>1. Sends(n, c, signed_block, d, M)
    BY <1>1, <1>2, SendingStage, Zenon
  <2> HIDE DEF d, M, own
  <2> QED
    BY <2>1, Zenon DEF Sends
<1> HIDE DEF d, M, own
<1>4. /\ d \in Context /\ d.state = c.state /\ d.final_block = data
      /\ d.top = c.top /\ d.round = c.round /\ c.sent \subseteq d.sent
  BY <1>3 DEF Grown, data
<1>5. /\ context' = [context EXCEPT ![n] = e] /\ net' = net \cup d.received
      /\ UNCHANGED locks
      /\ \/ e \in {d, goto_preparing_for_next_round(d)} /\ UNCHANGED <<chain, produced>>
         \/ /\ e = goto_wait_for_next_block(d)
            /\ HandleBlockFound(n, d.final_block)
            /\ \E signers \in SignatureChoices(Bitset(d, signed_block)) :
                  produced' = produced \cup {B(signers)}
  <2>1. context \in [Nodes -> Context]
    BY NodeFacts
  <2> HIDE DEF c
  <2>2. \/ context' = [context EXCEPT ![n] = d] /\ UNCHANGED <<chain, produced>>
        \/ /\ context' = [context EXCEPT ![n] = goto_preparing_for_next_round(d)]
           /\ UNCHANGED <<chain, produced>>
        \/ /\ context' = [context EXCEPT ![n] = goto_wait_for_next_block(d)]
           /\ HandleBlockFound(n, d.final_block)
           /\ \E signers \in SignatureChoices(Bitset(d, signed_block)) :
                 produced' = produced \cup {B(signers)}
    BY <1>0, Zenon DEF SendAndWaitForSignedBlocks
  <2>3. net' = net \cup d.received /\ UNCHANGED locks
    BY <1>0 DEF SendAndWaitForSignedBlocks, Relay
  <2> HIDE DEF B
  <2> QED
    BY <2>1, <2>2, <2>3
<1> HIDE DEF e
<1>6. /\ e \in Context /\ e.top = d.top /\ e.height = d.height
      /\ \/ e.state = wait_for_next_block /\ e.queue = {} /\ e.received = {}
         \/ /\ e.state = prepare_for_round /\ e.queue_for_next_round
            /\ e.round = d.round /\ e.queue = d.queue /\ e.received = d.received
         \/ /\ e.state >= c.state /\ e.sent = d.sent
            /\ e.round = d.round /\ e.queue = d.queue /\ e.received = d.received
            /\ e.final_block = d.final_block
            /\ e.state = send_and_wait_for_signed_blocks /\ e.final_block \in FinalBlock
  <2>1. CASE e \in {goto_preparing_for_next_round(d), goto_wait_for_next_block(d)}
    BY <1>4, <2>1, EndFacts
  <2>2. CASE e = d
    BY <1>1, <1>2, <1>4, <2>2 DEF send_and_wait_for_signed_blocks
  <2> QED
    BY <1>5, <2>1, <2>2, Zenon
<1>7. c.state >= wait_for_block_template /\ c.top \in Tips
  <2>1. c.state >= wait_for_block_template /\ c.state > wait_for_next_block
    BY <1>1 DEF wait_for_next_block, wait_for_block_template, send_and_wait_for_signed_blocks
  <2> QED
    BY <2>1, NodeFacts
<1>8. ASSUME NEW signers \in SignatureChoices(Bitset(d, signed_block))
      PROVE  B(signers) \in Produced /\ \A b : b = B(signers) => ProducedOK(b)'
  <2>1. d.received \subseteq net'
    BY <1>5, Zenon
  <2>2. \A m \in d.received : SignatureCheck(d, m)
    <3>1. \A m \in c.received \cup c.queue : SignatureCheck(c, m)
      BY NodeFacts DEF HoldingOK
    <3>2. \A m \in d.received : SignatureCheck(c, m)
      BY <1>3, <3>1, Zenon DEF Grown
    <3> QED
      BY <1>4, <3>2, Zenon DEF SignatureCheck, Validator
  <2>3. \A m \in Stage(d, signed_block) : m.data = d.final_block
    <3>1. \A m \in Stage(c, signed_block) : m.data = data
      <4>1. SignaturesOK(n) /\ c.state >= wait_for_round
        BY <1>1 DEF IInv, wait_for_round, send_and_wait_for_signed_blocks
      <4> QED
        BY <4>1 DEF SignaturesOK, data
    <3>2. \A m \in d.received \ c.received : m.type = signed_block => m.data = data
      BY <1>3 DEF Grown, data
    <3> QED
      BY <1>4, <3>1, <3>2 DEF Stage
  <2>4. /\ signers \in SUBSET Positions /\ Cardinality(signers) = Required
        /\ \A p \in signers :
              \E m \in net' : /\ m.type = signed_block /\ m.top = d.top /\ m.pos = p
                              /\ m.key = Validators[d.top][d.round][p]
                              /\ m.data = d.final_block
    BY <1>4, <1>8, <2>1, <2>2, <2>3, SignersFacts, SMTT(20)
  <2>5. B(signers) \in Produced
    <3>1. d.top \in Tips /\ d.round \in Rounds /\ d.final_block \in FinalBlock
      BY <1>2, <1>4, <1>7 DEF Context
    <3> QED
      BY <2>4, <3>1 DEF Produced
  <2>6. ASSUME NEW b, b = B(signers)
        PROVE  ProducedOK(b)'
    <3>1. /\ b.top = d.top /\ b.round = d.round /\ b.block = d.final_block
          /\ b.signers = signers
      BY <2>6
    <3> QED
      BY <2>4, <3>1 DEF ProducedOK
  <2> QED
    BY <2>5, <2>6
<1>9. produced' \subseteq Produced /\ \A b \in produced' \ produced : ProducedOK(b)'
  <2> HIDE DEF B
  <2> QED
    BY <1>5, <1>8, NodeFacts, Zenon
<1>10. /\ HeightOf[chain[n]] <= HeightOf[chain'[n]] /\ chain'[n] \in Tips
       /\ \A k \in Nodes \ {n} : chain'[k] = chain[k]
       /\ chain' \in [Nodes -> Tips]
  BY <1>5, SameChain, BlockFoundFacts, NodeFacts, Zenon
<1> QED
  BY <1>3, <1>4, <1>5, <1>6, <1>7, <1>9, <1>10, LaterStage, Zenon

-----------------------------------------------------------------------------
(* The same steps and the order of the stages *)

\* The step of wait_for_handshake_bitsets: nothing of a later stage has been stored
\* when the participants are locked in.
LEMMA AdvanceWaitForHandshakeBitsets ==
    ASSUME IInv, IInv', NEW n \in Nodes, StageOK(n), WaitForHandshakeBitsets(n)
    PROVE  Advances(n)
<1> DEFINE c == context[n]
           d == Drain(c, handshake_bitset)
           best == MostCommonBitset(d)
           s == IF IsProducer(n, d) THEN send_block_template ELSE wait_for_block_template
           lock == [node |-> n, top |-> d.top, round |-> d.round, bitset |-> best]
           e == context'[n]
           M == {}
<1>1. /\ context \in [Nodes -> Context] /\ c \in Context /\ e \in Context
      /\ c.state = StageOf(handshake_bitset) /\ c.state = wait_for_handshake_bitsets
      /\ handshake_bitset \in handshake .. signed_block
  BY ContextNext, Stages DEF WaitForHandshakeBitsets, wait_for_handshake_bitsets,
         handshake, handshake_bitset, signed_block
<1>2. Grown(c, d, M) /\ Taken(c, d, handshake_bitset)
  <2>1. OnePerPosition(c.queue) /\ OnePerPosition(c.received)
    BY NodeFacts
  <2> QED
    BY <1>1, <2>1, DrainFacts, DrainTakes
<1>3. /\ net' = net \cup d.received /\ UNCHANGED produced
      /\ \/ e \in {d, goto_preparing_for_next_round(d)} /\ UNCHANGED locks
         \/ e = LockedIn(d, best, s) /\ locks' = locks \cup {lock}
  <2>1. \/ context' = [context EXCEPT ![n] = d] /\ UNCHANGED locks
        \/ /\ context' = [context EXCEPT ![n] = goto_preparing_for_next_round(d)]
           /\ UNCHANGED locks
        \/ /\ context' = [context EXCEPT ![n] = LockedIn(d, best, s)]
           /\ locks' = locks \cup {lock}
    BY Zenon DEF WaitForHandshakeBitsets, LockedIn
  <2>2. net' = net \cup d.received /\ UNCHANGED produced
    BY DEF WaitForHandshakeBitsets, Relay
  <2> HIDE DEF d, best, s, lock
  <2> QED
    BY <1>1, <2>1, <2>2
<1> HIDE DEF d, e
<1>4. d \in Context /\ d.state = c.state /\ context'[n] = e
  BY <1>2 DEF Grown, e
<1>5. (\A m \in net' \ net : InItsRound(n, m)) /\ Collected(d)
  <2>1. \A m \in M : m.top = c.top /\ m.round = c.round
    OBVIOUS
  <2> HIDE DEF M
  <2> QED
    BY <1>1, <1>2, <1>3, <2>1, StageTakes, Zenon
<1>6. ASSUME e = d PROVE StageOK(n)'
  <2>1. e.state >= d.state /\ e.state < send_block_template
    BY <1>1, <1>4, <1>6 DEF wait_for_handshake_bitsets, send_block_template
  <2> QED
    BY <1>1, <1>4, <1>5, <1>6, <2>1, EarlyStage, SMTT(20)
<1>7. ASSUME e = goto_preparing_for_next_round(d) PROVE StageOK(n)'
  <2>1. e.state = prepare_for_round
    BY <1>4, <1>7, EndFacts
  <2> QED
    BY <1>1, <2>1, FreshStage, Zenon DEF e
<1>8. ASSUME e = LockedIn(d, best, s), locks' = locks \cup {lock} PROVE StageOK(n)'
  <2> HIDE DEF best
  <2>1. s \in {send_block_template, wait_for_block_template}
    OBVIOUS
  <2> HIDE DEF s
  <2>2. /\ e.state = s /\ e.top = d.top /\ e.round = d.round
        /\ e.received = d.received /\ e.best_bitset = best
    BY <1>4, <1>8, Zenon DEF LockedIn, Context
  <2>3. e.state \in Int /\ e.state < send_and_wait_for_random_value /\ e.state > d.state
    BY <1>1, <1>4, <2>1, <2>2
       DEF send_block_template, wait_for_block_template, wait_for_handshake_bitsets,
           send_and_wait_for_random_value
  <2>4. LockOf(n, e) \in locks'
    BY <1>8, <2>2 DEF LockOf
  <2>5. \A m \in d.received : m.type \in {handshake, handshake_bitset}
    <3> SUFFICES ASSUME NEW m \in d.received PROVE m.type \in {handshake, handshake_bitset}
      OBVIOUS
    <3>1. StageOf(m.type) <= 6
      BY <1>1, <1>4, <1>5 DEF Collected, wait_for_handshake_bitsets
    <3>2. m.type \in handshake .. signed_block
      BY <1>4, MessageFields DEF Context
    <3>3. m.type \in {handshake, handshake_bitset, block_template, random_value_hash,
                      random_value, signed_block}
      BY <3>2 DEF handshake, handshake_bitset, block_template, random_value_hash,
                  random_value, signed_block
    <3> QED
      BY <3>1, <3>3, Stages
  <2>6. Collected(e)
    <3>1. \A m \in e.received : StageOf(m.type) <= e.state
      BY <1>1, <1>4, <2>2, <2>3, <2>5, Stages DEF wait_for_handshake_bitsets
    <3>2. \A m \in e.received : ~(m.type > handshake_bitset)
      BY <2>2, <2>5 DEF handshake, handshake_bitset
    <3>3. Stage(e, block_template) = {} /\ Stage(e, random_value) = {}
      BY <2>2, <2>5
         DEF Stage, handshake, handshake_bitset, block_template, random_value
    <3> QED
      BY <3>1, <3>2, <3>3 DEF Collected
  <2>7. Complete(e)
    BY <1>1, <2>3, NothingYet
  <2> QED
    BY <2>4, <2>6, <2>7, NextStage, Zenon DEF e
<1>9. StageOK(n)' /\ locks \subseteq locks'
  <2> HIDE DEF s, best, lock
  <2> QED
    BY <1>3, <1>6, <1>7, <1>8, Zenon
<1> QED
  BY <1>3, <1>5, <1>9 DEF Advances

\* The step of wait_for_block_template.
LEMMA AdvanceWaitForBlockTemplate ==
    ASSUME IInv, IInv', NEW n \in Nodes, StageOK(n), WaitForBlockTemplate(n)
    PROVE  Advances(n)
<1> DEFINE c == context[n]
           d == Drain(c, block_template)
           e == context'[n]
           M == {}
<1>1. /\ context \in [Nodes -> Context] /\ c \in Context /\ e \in Context
      /\ c.state = StageOf(block_template) /\ c.state = wait_for_block_template
      /\ block_template \in handshake .. signed_block
  <2>1. c.state = wait_for_block_template
    BY Zenon DEF WaitForBlockTemplate
  <2>2. /\ wait_for_block_template = StageOf(block_template)
        /\ block_template \in handshake .. signed_block
    BY Stages DEF wait_for_block_template, handshake, block_template, signed_block
  <2> QED
    BY <2>1, <2>2, ContextNext, Zenon
<1>2. Grown(c, d, M) /\ Taken(c, d, block_template)
  <2>1. OnePerPosition(c.queue) /\ OnePerPosition(c.received)
    BY NodeFacts
  <2> QED
    BY <1>1, <2>1, DrainFacts, DrainTakes
<1>3. /\ net' = net \cup d.received /\ UNCHANGED <<locks, produced>>
      /\ \/ e = d
         \/ e = goto_preparing_for_next_round(d)
         \/ \E value \in RandomValues : e = Drawn(d, value)
  <2>1. \/ context' = [context EXCEPT ![n] = d]
        \/ context' = [context EXCEPT ![n] = goto_preparing_for_next_round(d)]
        \/ \E value \in RandomValues : context' = [context EXCEPT ![n] = Drawn(d, value)]
    BY Zenon DEF WaitForBlockTemplate, Drawn
  <2>2. net' = net \cup d.received /\ UNCHANGED <<locks, produced>>
    BY DEF WaitForBlockTemplate, Relay
  <2> HIDE DEF d
  <2> QED
    BY <1>1, <2>1, <2>2
<1> HIDE DEF d, e
<1>4. d \in Context /\ d.state = c.state /\ context'[n] = e
  BY <1>2 DEF Grown, e
<1>5. /\ \A m \in net' \ net : InItsRound(n, m)
      /\ Collected(d) /\ Complete(d) /\ LockOf(n, d) \in locks
  <2>1. \A m \in M : m.top = c.top /\ m.round = c.round
    OBVIOUS
  <2>2. d.state >= send_block_template
    BY <1>1, <1>4 DEF send_block_template, wait_for_block_template
  <2> HIDE DEF M
  <2> QED
    BY <1>1, <1>2, <1>3, <2>1, <2>2, StageTakes, Zenon
<1>6. ASSUME e = d PROVE StageOK(n)'
  BY <1>3, <1>4, <1>5, <1>6, NextStage, Zenon
<1>7. ASSUME e = goto_preparing_for_next_round(d) PROVE StageOK(n)'
  BY <1>4, <1>7, EndStage
<1>8. ASSUME NEW value \in RandomValues, e = Drawn(d, value) PROVE StageOK(n)'
  <2>1. /\ e.received = d.received /\ e.round = d.round /\ e.top = d.top
        /\ e.best_bitset = d.best_bitset
        /\ e.state = send_and_wait_for_random_value_hashes
    BY <1>4, <1>8, Zenon DEF Drawn, Context
  <2>2. e.state >= d.state /\ e.state < send_and_wait_for_random_value
    BY <1>1, <1>4, <2>1 DEF wait_for_block_template, send_and_wait_for_random_value_hashes,
                            send_and_wait_for_random_value
  <2>3. Complete(e)
    BY <1>1, <2>2, NothingYet
  <2>4. locks \subseteq locks'
    BY <1>3
  <2> QED
    BY <1>1, <1>4, <1>5, <2>1, <2>2, <2>3, <2>4, StageGoesOn, Zenon
<1>9. StageOK(n)'
  BY <1>3, <1>6, <1>7, <1>8, Zenon
<1> QED
  BY <1>3, <1>5, <1>9 DEF Advances

\* The step of send_and_wait_for_random_value_hashes: it is left with the hashes of
\* all participants.
LEMMA AdvanceSendAndWaitForRandomValueHashes ==
    ASSUME IInv, IInv', NEW n \in Nodes, StageOK(n), SendAndWaitForRandomValueHashes(n)
    PROVE  Advances(n)
<1> DEFINE c == context[n]
           data == Hash(c.random_value)
           own == OwnMessage(n, c, random_value_hash, data)
           d == Drain(SendOnce(c, own), random_value_hash)
           M == IF random_value_hash \in c.sent THEN {} ELSE {own}
           next == [d EXCEPT !.state = send_and_wait_for_random_value]
           all == Bitset(d, random_value_hash) = d.best_bitset
           e == context'[n]
<1>1. /\ context \in [Nodes -> Context] /\ e \in Context
      /\ c.state = send_and_wait_for_random_value_hashes
      /\ c.state = StageOf(random_value_hash)
      /\ random_value_hash \in (handshake .. signed_block) \ {handshake_bitset, block_template}
      /\ random_value_hash \in handshake .. signed_block
  BY ContextNext, Stages
     DEF SendAndWaitForRandomValueHashes, send_and_wait_for_random_value_hashes,
         handshake, handshake_bitset, block_template, random_value_hash, signed_block
<1>2. data \in {Hash(v) : v \in RandomValues}
  BY <1>1, NodeFacts DEF RoleOK
<1> HIDE DEF data
<1>3. Sends(n, c, random_value_hash, d, M) /\ Taken(c, d, random_value_hash)
  BY <1>1, <1>2, SendingStage, Zenon
<1>4. /\ net' = net \cup d.received /\ UNCHANGED <<locks, produced>>
      /\ e = d \/ e = goto_preparing_for_next_round(d) \/ (all /\ e = next)
  <2>1. PICK timed_out \in TimedOut(send_and_wait_for_random_value_hashes) :
           context' = [context EXCEPT ![n] =
              IF ~(timed_out \/ all) THEN d
              ELSE IF Enforce(d, random_value_hash, timed_out, all) THEN next
              ELSE goto_preparing_for_next_round(d)]
    BY Zenon DEF SendAndWaitForRandomValueHashes, data
  <2>2. net' = net \cup d.received /\ UNCHANGED <<locks, produced>>
    BY DEF SendAndWaitForRandomValueHashes, Relay, data
  <2> HIDE DEF d, all, next
  <2>3. \/ context' = [context EXCEPT ![n] = d]
        \/ context' = [context EXCEPT ![n] = goto_preparing_for_next_round(d)]
        \/ all /\ context' = [context EXCEPT ![n] = next]
    <3>1. CASE ~(timed_out \/ all)
      BY <2>1, <3>1
    <3>2. CASE (timed_out \/ all) /\ ~Enforce(d, random_value_hash, timed_out, all)
      BY <2>1, <3>2
    <3>3. CASE (timed_out \/ all) /\ Enforce(d, random_value_hash, timed_out, all)
      <4>1. all
        BY <3>3, Zenon DEF Enforce
      <4> QED
        BY <2>1, <3>3, <4>1
    <3> QED
      BY <3>1, <3>2, <3>3, Zenon
  <2> QED
    BY <1>1, <2>2, <2>3, Zenon
<1> HIDE DEF d, M, own, e
<1>5. Grown(c, d, M) /\ \A m \in M : m.top = c.top /\ m.round = c.round
  BY <1>3, Zenon DEF Sends
<1>6. d \in Context /\ d.state = c.state /\ context'[n] = e
  BY <1>5 DEF Grown, e
<1>7. /\ \A m \in net' \ net : InItsRound(n, m)
      /\ Collected(d) /\ Complete(d) /\ LockOf(n, d) \in locks
  <2>1. d.state >= send_block_template
    BY <1>1, <1>6 DEF send_block_template, send_and_wait_for_random_value_hashes
  <2> QED
    BY <1>1, <1>3, <1>4, <1>5, <2>1, StageTakes
<1>8. ASSUME e = d PROVE StageOK(n)'
  BY <1>4, <1>6, <1>7, <1>8, NextStage
<1>9. ASSUME e = goto_preparing_for_next_round(d) PROVE StageOK(n)'
  BY <1>6, <1>9, EndStage
<1>10. ASSUME all, e = next PROVE StageOK(n)'
  <2>1. /\ e.received = d.received /\ e.round = d.round /\ e.top = d.top
        /\ e.best_bitset = d.best_bitset /\ e.state = send_and_wait_for_random_value
    BY <1>6, <1>10, StateFacts, AllStates
  <2>2. e.state >= d.state /\ e.state # send_and_wait_for_signed_blocks
    BY <1>1, <1>6, <2>1 DEF send_and_wait_for_random_value_hashes,
       send_and_wait_for_random_value, send_and_wait_for_signed_blocks
  <2>3. Bitset(e, random_value_hash) = e.best_bitset
    BY <1>10, <2>1 DEF Bitset, Stage
  <2>4. Complete(e)
    BY <2>2, <2>3, Zenon DEF Complete
  <2>5. locks \subseteq locks'
    BY <1>4
  <2> QED
    BY <1>1, <1>6, <1>7, <2>1, <2>2, <2>4, <2>5, StageGoesOn, Zenon
<1>11. StageOK(n)'
  BY <1>4, <1>8, <1>9, <1>10, Zenon
<1> QED
  BY <1>4, <1>7, <1>11 DEF Advances

\* The final block is put together from the template and the values of the stages.
LEMMA AssembledIsComplete ==
    ASSUME NEW d \in Context, Collected(d), Stage(d, block_template) # {},
           Bitset(d, random_value_hash) = d.best_bitset,
           Bitset(d, random_value) = d.best_bitset,
           NEW e \in Context, e = Assembled(d)
    PROVE  /\ e.received = d.received /\ e.round = d.round /\ e.top = d.top
           /\ e.best_bitset = d.best_bitset /\ e.state = send_and_wait_for_signed_blocks
           /\ Complete(e)
<1> DEFINE b == FinalBlockOf(d)
           m == CHOOSE m \in Stage(d, block_template) : TRUE
<1>1. /\ b.template = m.data
      /\ b.values = {<<o.pos, o.data>> : o \in Stage(d, random_value)}
  BY DEF FinalBlockOf
<1>2. m \in Stage(d, block_template)
  OBVIOUS
<1>3. b.template.round = d.round /\ b.template.bitset = d.best_bitset
  <2> HIDE DEF m, b
  <2> QED
    BY <1>1, <1>2, Zenon DEF Collected
<1>4. e = [d EXCEPT !.final_block = b, !.state = send_and_wait_for_signed_blocks]
  BY DEF Assembled
<1> HIDE DEF b, m
<1>5. /\ e.received = d.received /\ e.round = d.round /\ e.top = d.top
      /\ e.best_bitset = d.best_bitset /\ e.state = send_and_wait_for_signed_blocks
      /\ e.final_block = b
  BY <1>4, Zenon DEF Context
<1>6. /\ Stage(e, random_value) = Stage(d, random_value)
      /\ Bitset(e, random_value) = Bitset(d, random_value)
      /\ Bitset(e, random_value_hash) = Bitset(d, random_value_hash)
  BY <1>5, Zenon DEF Stage, Bitset
<1>7. Assembly(e)
  BY <1>1, <1>3, <1>5, <1>6, Zenon DEF Assembly
<1>8. Complete(e)
  BY <1>5, <1>6, <1>7, Zenon DEF Complete
<1> QED
  BY <1>5, <1>8, Zenon

\* The step of send_and_wait_for_random_value: it is left with the values of all
\* participants.
LEMMA AdvanceSendAndWaitForRandomValue ==
    ASSUME IInv, IInv', NEW n \in Nodes, StageOK(n), SendAndWaitForRandomValue(n)
    PROVE  Advances(n)
<1> DEFINE c == context[n]
           data == c.random_value
           own == OwnMessage(n, c, random_value, data)
           d == Drain(SendOnce(c, own), random_value)
           M == IF random_value \in c.sent THEN {} ELSE {own}
           all == Bitset(d, random_value) = d.best_bitset
           e == context'[n]
<1>1. /\ context \in [Nodes -> Context] /\ e \in Context
      /\ c.state = send_and_wait_for_random_value
      /\ c.state = StageOf(random_value)
      /\ random_value \in (handshake .. signed_block) \ {handshake_bitset, block_template}
      /\ random_value \in handshake .. signed_block
  <2>1. c.state = send_and_wait_for_random_value
    BY Zenon DEF SendAndWaitForRandomValue
  <2>2. /\ send_and_wait_for_random_value = StageOf(random_value)
        /\ random_value \in (handshake .. signed_block) \ {handshake_bitset, block_template}
    BY Stages DEF send_and_wait_for_random_value, handshake, handshake_bitset,
                  block_template, random_value, signed_block
  <2> QED
    BY <2>1, <2>2, ContextNext, Zenon
<1>2. data \in RandomValues /\ Stage(c, block_template) # {}
  BY <1>1, NodeFacts, Zenon DEF RoleOK
<1> HIDE DEF data
<1>3. Sends(n, c, random_value, d, M) /\ Taken(c, d, random_value)
  BY <1>1, <1>2, SendingStage, Zenon
<1>4. /\ net' = net \cup d.received /\ UNCHANGED <<locks, produced>>
      /\ e = d \/ e = goto_preparing_for_next_round(d) \/ (all /\ e = Assembled(d))
  <2>1. PICK timed_out \in TimedOut(send_and_wait_for_random_value) :
           context' = [context EXCEPT ![n] =
              IF ~(timed_out \/ all) THEN d
              ELSE IF Enforce(d, random_value, timed_out, all) THEN Assembled(d)
              ELSE goto_preparing_for_next_round(d)]
    BY Zenon DEF SendAndWaitForRandomValue, data, Assembled
  <2>2. net' = net \cup d.received /\ UNCHANGED <<locks, produced>>
    BY DEF SendAndWaitForRandomValue, Relay, data
  <2> HIDE DEF d, all
  <2>3. \/ context' = [context EXCEPT ![n] = d]
        \/ context' = [context EXCEPT ![n] = goto_preparing_for_next_round(d)]
        \/ all /\ context' = [context EXCEPT ![n] = Assembled(d)]
    <3>1. CASE ~(timed_out \/ all)
      BY <2>1, <3>1
    <3>2. CASE (timed_out \/ all) /\ ~Enforce(d, random_value, timed_out, all)
      BY <2>1, <3>2
    <3>3. CASE (timed_out \/ all) /\ Enforce(d, random_value, timed_out, all)
      <4>1. all
        BY <3>3, Zenon DEF Enforce
      <4> QED
        BY <2>1, <3>3, <4>1
    <3> QED
      BY <3>1, <3>2, <3>3, Zenon
  <2> QED
    BY <1>1, <2>2, <2>3, Zenon
<1> HIDE DEF d, M, own, e
<1>5. Grown(c, d, M) /\ \A m \in M : m.top = c.top /\ m.round = c.round
  BY <1>3, Zenon DEF Sends
<1>6. /\ d \in Context /\ d.state = c.state /\ context'[n] = e
      /\ Stage(d, block_template) # {}
  BY <1>2, <1>5 DEF Grown, Stage, e
<1>7. /\ \A m \in net' \ net : InItsRound(n, m)
      /\ Collected(d) /\ Complete(d) /\ LockOf(n, d) \in locks
  <2>1. d.state >= send_block_template
    BY <1>1, <1>6 DEF send_block_template, send_and_wait_for_random_value
  <2> QED
    BY <1>1, <1>3, <1>4, <1>5, <2>1, StageTakes, Zenon
<1>8. ASSUME e = d PROVE StageOK(n)'
  BY <1>4, <1>6, <1>7, <1>8, NextStage, Zenon
<1>9. ASSUME e = goto_preparing_for_next_round(d) PROVE StageOK(n)'
  BY <1>6, <1>9, EndStage
<1>10. ASSUME all, e = Assembled(d) PROVE StageOK(n)'
  <2>1. Bitset(d, random_value_hash) = d.best_bitset
    BY <1>1, <1>6, <1>7 DEF Complete, send_and_wait_for_random_value
  <2>2. /\ e.received = d.received /\ e.round = d.round /\ e.top = d.top
        /\ e.best_bitset = d.best_bitset /\ e.state = send_and_wait_for_signed_blocks
        /\ Complete(e)
    BY <1>1, <1>6, <1>7, <1>10, <2>1, AssembledIsComplete, Zenon
  <2>3. e.state >= d.state
    BY <1>1, <1>6, <2>2 DEF send_and_wait_for_random_value, send_and_wait_for_signed_blocks
  <2>4. locks \subseteq locks'
    BY <1>4
  <2> QED
    BY <1>1, <1>6, <1>7, <2>2, <2>3, <2>4, StageGoesOn, Zenon
<1>11. StageOK(n)'
  BY <1>4, <1>8, <1>9, <1>10, Zenon
<1> QED
  BY <1>4, <1>7, <1>11 DEF Advances

\* What a block owes to the stages it comes from; N are the messages on the network.
OwedToStages(d, N, signers) ==
    /\ signers \subseteq d.final_block.template.bitset
    /\ d.final_block.template.round = d.round
    /\ {v[1] : v \in d.final_block.values} = d.final_block.template.bitset
    /\ \A v \in d.final_block.values :
          \E h \in N : /\ h.type = random_value_hash
                       /\ h.key = Validators[d.top][d.round][v[1]]
                       /\ h.data = Hash(v[2])

\* The block of a node that has collected every stage owes what it should.
LEMMA BlockOfStages ==
    ASSUME NEW d \in Context, d.state = send_and_wait_for_signed_blocks,
           Collected(d), Complete(d), NEW N, d.received \subseteq N,
           \A m \in d.received : SignatureCheck(d, m),
           Bitset(d, signed_block) \subseteq d.best_bitset,
           NEW signers \in SignatureChoices(Bitset(d, signed_block))
    PROVE  OwedToStages(d, N, signers)
<1>1. Assembly(d) /\ Bitset(d, random_value) = d.best_bitset
  BY Zenon DEF Complete
<1>2. /\ d.final_block.template.round = d.round
      /\ d.final_block.template.bitset = d.best_bitset
      /\ d.final_block.values = {<<m.pos, m.data>> : m \in Stage(d, random_value)}
  BY <1>1, Zenon DEF Assembly
<1>3. signers \subseteq d.best_bitset
  BY DEF SignatureChoices
<1>4. {v[1] : v \in d.final_block.values} = d.best_bitset
  <2> DEFINE V == {<<m.pos, m.data>> : m \in Stage(d, random_value)}
  <2>1. {v[1] : v \in V} = {m.pos : m \in Stage(d, random_value)}
    <3>1. ASSUME NEW v \in V PROVE v[1] \in {m.pos : m \in Stage(d, random_value)}
      <4>1. PICK m \in Stage(d, random_value) : v = <<m.pos, m.data>>
        OBVIOUS
      <4> QED
        BY <4>1
    <3>2. ASSUME NEW m \in Stage(d, random_value) PROVE m.pos \in {v[1] : v \in V}
      <4>1. <<m.pos, m.data>> \in V /\ <<m.pos, m.data>>[1] = m.pos
        OBVIOUS
      <4> QED
        BY <4>1, Zenon
    <3> HIDE DEF V
    <3> QED
      BY <3>1, <3>2
  <2>2. d.final_block.values = V
    BY <1>2
  <2> HIDE DEF V
  <2> QED
    BY <1>1, <2>1, <2>2 DEF Bitset
<1>5. ASSUME NEW v \in d.final_block.values
      PROVE  \E h \in N : /\ h.type = random_value_hash
                          /\ h.key = Validators[d.top][d.round][v[1]]
                          /\ h.data = Hash(v[2])
  <2>1. PICK m \in Stage(d, random_value) : v = <<m.pos, m.data>>
    BY <1>2
  <2>2. v[1] = m.pos /\ v[2] = m.data
    BY <2>1
  <2>3. m.pos \in Bitset(d, random_value_hash)
    <3>1. Bitset(d, random_value_hash) = d.best_bitset
      BY DEF Complete, send_and_wait_for_random_value, send_and_wait_for_signed_blocks
    <3>2. m.pos \in Bitset(d, random_value)
      BY DEF Bitset
    <3> QED
      BY <1>1, <3>1, <3>2
  <2>4. PICK h \in Stage(d, random_value_hash) : h.pos = m.pos
    BY <2>3 DEF Bitset
  <2>5. h.data = Hash(m.data)
    BY <2>4 DEF Collected
  <2>6. h \in d.received /\ h.type = random_value_hash
    BY DEF Stage
  <2>7. h.key = Validators[d.top][d.round][h.pos]
    BY <2>6 DEF SignatureCheck, Validator, random_value_hash, block_template
  <2> QED
    BY <2>2, <2>4, <2>5, <2>6, <2>7
<1> QED
  BY <1>2, <1>3, <1>4, <1>5, Zenon DEF OwedToStages

\* The step of send_and_wait_for_signed_blocks.
LEMMA AdvanceSendAndWaitForSignedBlocks ==
    ASSUME IInv, IInv', NEW n \in Nodes, StageOK(n), SendAndWaitForSignedBlocks(n)
    PROVE  Advances(n)
<1> DEFINE c == context[n]
           data == c.final_block
           own == OwnMessage(n, c, signed_block, data)
           d == Drain(SendOnce(c, own), signed_block)
           M == IF signed_block \in c.sent THEN {} ELSE {own}
           e == context'[n]
           B(signers) == [node |-> n, top |-> d.top, round |-> d.round,
                          block |-> d.final_block, signers |-> signers]
<1>1. /\ context \in [Nodes -> Context] /\ e \in Context
      /\ c.state = send_and_wait_for_signed_blocks
      /\ c.state = StageOf(signed_block)
      /\ signed_block \in (handshake .. signed_block) \ {handshake_bitset, block_template}
      /\ signed_block \in handshake .. signed_block
  <2>1. c.state = send_and_wait_for_signed_blocks
    BY Zenon DEF SendAndWaitForSignedBlocks
  <2>2. /\ send_and_wait_for_signed_blocks = StageOf(signed_block)
        /\ signed_block \in (handshake .. signed_block) \ {handshake_bitset, block_template}
    BY Stages DEF send_and_wait_for_signed_blocks, handshake, handshake_bitset,
                  block_template, signed_block
  <2> QED
    BY <2>1, <2>2, ContextNext, Zenon
<1>2. data \in FinalBlock
  BY <1>1, NodeFacts, Zenon DEF RoleOK
<1>0. d = WithSignatures(n)
  BY DEF WithSignatures
<1> HIDE DEF data
<1>3. Sends(n, c, signed_block, d, M) /\ Taken(c, d, signed_block)
  BY <1>1, <1>2, SendingStage, Zenon
<1> HIDE DEF d, M, own
<1>4. /\ net' = net \cup d.received /\ UNCHANGED locks
      /\ \/ e \in {d, goto_preparing_for_next_round(d)} /\ UNCHANGED produced
         \/ /\ e = goto_wait_for_next_block(d)
            /\ Bitset(d, signed_block) \subseteq d.best_bitset
            /\ \E signers \in SignatureChoices(Bitset(d, signed_block)) :
                  produced' = produced \cup {B(signers)}
  <2> HIDE DEF c
  <2>1. \/ context' = [context EXCEPT ![n] = d] /\ UNCHANGED produced
        \/ /\ context' = [context EXCEPT ![n] = goto_preparing_for_next_round(d)]
           /\ UNCHANGED produced
        \/ /\ context' = [context EXCEPT ![n] = goto_wait_for_next_block(d)]
           /\ Bitset(d, signed_block) \subseteq d.best_bitset
           /\ \E signers \in SignatureChoices(Bitset(d, signed_block)) :
                 produced' = produced \cup {B(signers)}
    BY <1>0, Zenon DEF SendAndWaitForSignedBlocks, Enforce
  <2>2. net' = net \cup d.received /\ UNCHANGED locks
    BY <1>0, Zenon DEF SendAndWaitForSignedBlocks, Relay
  <2> HIDE DEF B
  <2> QED
    BY <1>1, <2>1, <2>2, SMTT(20)
<1> HIDE DEF e
<1>5. Grown(c, d, M) /\ \A m \in M : m.top = c.top /\ m.round = c.round /\ SignatureCheck(c, m)
  BY <1>3, Zenon DEF Sends
<1>6. d \in Context /\ d.state = c.state /\ context'[n] = e
  BY <1>5, Zenon DEF Grown, e
<1>7. /\ \A m \in net' \ net : InItsRound(n, m)
      /\ Collected(d) /\ Complete(d) /\ LockOf(n, d) \in locks
  <2>1. d.state >= send_block_template
    BY <1>1, <1>6 DEF send_block_template, send_and_wait_for_signed_blocks
  <2> QED
    BY <1>1, <1>3, <1>4, <1>5, <2>1, StageTakes, Zenon
<1>8. StageOK(n)'
  <2>1. ASSUME e = d PROVE StageOK(n)'
    BY <1>4, <1>6, <1>7, <2>1, NextStage, Zenon
  <2>2. ASSUME e \in {goto_preparing_for_next_round(d), goto_wait_for_next_block(d)}
        PROVE  StageOK(n)'
    BY <1>6, <2>2, EndStage
  <2> QED
    BY <1>4, <2>1, <2>2, Zenon
<1>9. \A m \in d.received : SignatureCheck(d, m)
  <2>1. \A m \in c.received \cup c.queue : SignatureCheck(c, m)
    BY NodeFacts, Zenon DEF HoldingOK
  <2>2. \A m \in d.received : SignatureCheck(c, m)
    BY <1>5, <2>1, Zenon DEF Grown
  <2>3. d.top = c.top /\ d.round = c.round
    BY <1>5, Zenon DEF Grown
  <2> QED
    BY <2>2, <2>3, Zenon DEF SignatureCheck, Validator
<1>10. ASSUME Bitset(d, signed_block) \subseteq d.best_bitset,
              NEW signers \in SignatureChoices(Bitset(d, signed_block)),
              NEW b, b = B(signers)
       PROVE  BlockOK(b)'
  <2>1. /\ b.top = d.top /\ b.round = d.round /\ b.block = d.final_block
        /\ b.signers = signers
    BY <1>10
  <2>2. d.received \subseteq net'
    BY <1>4, Zenon
  <2>3. /\ signers \subseteq d.final_block.template.bitset
        /\ d.final_block.template.round = d.round
        /\ {v[1] : v \in d.final_block.values} = d.final_block.template.bitset
        /\ \A v \in d.final_block.values :
              \E h \in net' : /\ h.type = random_value_hash
                              /\ h.key = Validators[d.top][d.round][v[1]]
                              /\ h.data = Hash(v[2])
    <3> DEFINE N == net'
    <3>1. d.received \subseteq N /\ d.state = send_and_wait_for_signed_blocks
      BY <1>1, <1>6, <2>2
    <3> HIDE DEF N
    <3> HIDE DEF B
    <3>2. OwedToStages(d, N, signers)
      BY <1>6, <1>7, <1>9, <1>10, <3>1, BlockOfStages, Zenon
    <3> QED
      BY <3>2, Zenon DEF N, OwedToStages
  <2> QED
    BY <2>1, <2>3, Zenon DEF BlockOK
<1>11. produced \subseteq produced' /\ \A b \in produced' \ produced : BlockOK(b)'
  <2> HIDE DEF B
  <2> QED
    BY <1>4, <1>10, Zenon
<1>12. locks \subseteq locks'
  BY <1>4
<1> QED
  BY <1>7, <1>8, <1>11, <1>12, Zenon DEF Advances

=============================================================================
