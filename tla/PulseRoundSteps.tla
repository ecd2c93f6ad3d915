--------------------------- MODULE PulseRoundSteps --------------------------
(***************************************************************************)
(* The steps of Pulse that keep its two invariants, part one: between the  *)
(* rounds, from the start of a round to the handshake bitsets, and the     *)
(* steps of the environment.                                               *)
(***************************************************************************)
EXTENDS PulseLemmas

-----------------------------------------------------------------------------
(* The handshakes *)

\* The step of send_and_wait_for_handshakes.
LEMMA StepSendAndWaitForHandshakes ==
    ASSUME IInv, NEW n \in Nodes, SendAndWaitForHandshakes(n)
    PROVE  LocalStep(n)
<1> DEFINE c == context[n]
           own == OwnMessage(n, c, handshake, None)
           d == Drain(SendOnce(c, own), handshake)
           M == IF handshake \in c.sent THEN {} ELSE {own}
           e == context'[n]
           next == [d EXCEPT !.state = send_handshake_bitsets]
<1>1. /\ c.state = send_and_wait_for_handshakes
      /\ c.state = StageOf(handshake)
      /\ handshake \in (handshake .. signed_block) \ {handshake_bitset, block_template}
  BY DEF SendAndWaitForHandshakes, StageOf, handshake, handshake_bitset, block_template,
         random_value_hash, random_value, signed_block
<1>2. /\ Grown(c, d, M) /\ d.sent = c.sent \cup {handshake} /\ d.queue \subseteq net
      /\ M \in SUBSET Message
      /\ \A m \in M : /\ m.key = n /\ m.top = c.top /\ m.round = c.round
                      /\ MessageOK(m) /\ SignatureCheck(c, m)
                      /\ m.type \notin c.sent /\ m.type \in d.sent
                      /\ m.type \notin {handshake_bitset, block_template}
      /\ \A m, o \in M : m = o
      /\ MyPosition(n, c) \in Bitset(d, handshake)
  <2>1. Sends(n, c, handshake, d, M) /\ MyPosition(n, c) \in Bitset(d, handshake)
    BY <1>1, SendingStage, Zenon
  <2> HIDE DEF d, M, own
  <2> QED
    BY <2>1, Zenon DEF Sends
<1>3. /\ e \in {d, next}
      /\ context' = [context EXCEPT ![n] = e]
      /\ net' = net \cup d.received
      /\ UNCHANGED <<chain, locks, produced>>
  BY NodeFacts, Zenon DEF SendAndWaitForHandshakes, Relay
<1> HIDE DEF d, M, own
<1>4. d \in Context
  BY <1>2 DEF Grown
<1>5. /\ e \in Context /\ e.state \in {send_and_wait_for_handshakes, send_handshake_bitsets}
      /\ e.top = c.top /\ e.height = c.height /\ e.round = c.round
      /\ e.queue = d.queue /\ e.received = d.received /\ e.sent = d.sent
      /\ e.final_block = d.final_block
  <2>1. /\ next \in Context /\ next.state = send_handshake_bitsets
        /\ next.top = d.top /\ next.height = d.height /\ next.round = d.round
        /\ next.queue = d.queue /\ next.received = d.received /\ next.sent = d.sent
        /\ next.final_block = d.final_block
    BY <1>4, StateFacts, AllStates
  <2> HIDE DEF next
  <2> QED
    BY <1>1, <1>2, <1>3, <1>4, <2>1 DEF Grown
<1>6. /\ e.state >= c.state /\ c.state >= send_and_wait_for_handshakes
      /\ c.state > wait_for_next_block
      /\ c.sent \subseteq d.sent /\ e.round = d.round
  BY <1>1, <1>2, <1>5
     DEF Grown, wait_for_next_block, send_and_wait_for_handshakes, send_handshake_bitsets
<1>7. /\ HeightOf[chain[n]] <= HeightOf[chain'[n]] /\ chain'[n] \in Tips
  BY <1>3, NodeFacts
<1> HIDE DEF e
<1>8. /\ \A m \in net' \ net : m \in Message /\ m.key = n /\ MessageOK(m)
      /\ HoldingOK(n)'
      /\ SignaturesOK(n)'
      /\ n \notin Unsteady => SteadyOK(n)'
  BY <1>2, <1>3, <1>5, <1>6, <1>7, StageStep, Zenon
<1>9. RoleOK(n)'
  <2>1. RoleOK(n) /\ c.top \in Tips
    BY <1>6, NodeFacts
  <2>2. MyPosition(n, e) = MyPosition(n, c) /\ IsValidator(n, e) = IsValidator(n, c)
    BY <1>5 DEF MyPosition, IsValidator, Validator
  <2>3. Bitset(e, handshake) = Bitset(d, handshake)
    BY <1>5 DEF Bitset, Stage
  <2> HIDE DEF c
  <2> QED
    BY <1>1, <1>2, <1>5, <2>1, <2>2, <2>3
       DEF RoleOK, c, e, wait_for_next_block, wait_for_round, wait_for_handshake_bitsets,
           send_and_wait_for_handshakes, send_handshake_bitsets,
           send_block_template, wait_for_block_template,
           send_and_wait_for_random_value_hashes, send_and_wait_for_random_value,
           send_and_wait_for_signed_blocks
<1> QED
  BY <1>3, <1>5, <1>8, <1>9, NodeFacts DEF LocalStep, e

-----------------------------------------------------------------------------
(* The other steps of a round *)

\* A message arrives.
LEMMA StepHandleMessage ==
    ASSUME IInv, NEW n \in Nodes, NEW m \in net, HandleMessage(n, m)
    PROVE  LocalStep(n)
<1> DEFINE c == context[n]
           e == Handle(c, m)
           M == {}
           R == {m}
<1>1. /\ c \in Context /\ m \in Message /\ c.state >= wait_for_round
      /\ OnePerPosition(c.queue) /\ OnePerPosition(c.received)
      /\ c.received \subseteq net /\ HoldingOK(n) /\ RoleOK(n) /\ SignatureCheck(c, m)
      /\ c.state \in Int /\ c.top \in Tips
  BY NodeFacts DEF HandleMessage, wait_for_round, wait_for_next_block
<1>2. /\ e \in Context
      /\ e.state = c.state /\ e.height = c.height /\ e.top = c.top
      /\ e.round = c.round /\ e.sent = c.sent
      /\ e.queue_for_next_round = c.queue_for_next_round
      /\ e.random_value = c.random_value /\ e.final_block = c.final_block
      /\ c.queue \subseteq e.queue /\ e.queue \subseteq c.queue \cup {m}
      /\ c.received \subseteq e.received /\ e.received \subseteq c.received \cup {m}
      /\ OnePerPosition(e.queue) /\ OnePerPosition(e.received)
      /\ \A o \in e.received \ c.received : o.type = signed_block => o.data = c.final_block
  BY <1>1, HandleFacts
<1>3. context' = [context EXCEPT ![n] = e] /\ UNCHANGED <<chain, net, locks, produced>>
  BY DEF HandleMessage
<1> HIDE DEF e
<1>4. StepInRound(n, e, M, R)
  <2>1. \A o \in e.queue \ net' :
           /\ e.state = wait_for_handshake_bitsets /\ o.type = handshake_bitset
           /\ o.key = n /\ o.top = c.top /\ o.round = c.round
    BY <1>1, <1>2, <1>3 DEF HoldingOK
  <2>2. /\ e.queue \cup e.received \subseteq c.queue \cup c.received \cup M \cup R
        /\ e.received \subseteq net'
    BY <1>1, <1>2, <1>3
  <2>3. HeightOf[chain[n]] <= HeightOf[chain'[n]] /\ chain'[n] \in Tips
    BY <1>3, NodeFacts
  <2> QED
    BY <1>1, <1>2, <1>3, <2>1, <2>2, <2>3 DEF StepInRound, Goes, Signs, Holds, Collects
<1>5. RoleOK(n)'
  <2>1. context'[n] = e
    BY <1>3, NodeFacts
  <2>2. /\ MyPosition(n, e) = MyPosition(n, c)
        /\ IsValidator(n, e) = IsValidator(n, c) /\ IsProducer(n, e) = IsProducer(n, c)
    BY <1>2 DEF MyPosition, IsValidator, IsProducer, Validator
  <2>3. /\ Bitset(c, handshake) \subseteq Bitset(e, handshake)
        /\ Stage(c, block_template) \subseteq Stage(e, block_template)
    BY <1>2 DEF Bitset, Stage
  <2>4. ~(e.state <= wait_for_next_block)
    BY <1>1, <1>2 DEF wait_for_round, wait_for_next_block
  <2> HIDE DEF c
  <2> QED
    BY <1>1, <1>2, <2>1, <2>2, <2>3, <2>4 DEF RoleOK, c
<1>6. M \in SUBSET Message /\ R \in SUBSET net
  OBVIOUS
<1> HIDE DEF M, R
<1> QED
  BY <1>2, <1>3, <1>4, <1>5, <1>6, QuietStep

\* The round begins.
LEMMA StepWaitForRound ==
    ASSUME IInv, NEW n \in Nodes, WaitForRound(n)
    PROVE  LocalStep(n)
<1> DEFINE c == context[n]
           e == context'[n]
           M == {}
           R == {}
<1>1. /\ c \in Context /\ c.state = wait_for_round /\ c.state \in Int
      /\ OnePerPosition(c.queue) /\ OnePerPosition(c.received)
      /\ c.received \subseteq net /\ c.queue \subseteq net /\ RoleOK(n)
      /\ c.state > wait_for_next_block /\ c.top \in Tips
  BY NodeFacts DEF WaitForRound, wait_for_round, wait_for_next_block,
                   wait_for_handshake_bitsets
<1>2. context' = [context EXCEPT ![n] = e] /\ UNCHANGED <<chain, net, locks, produced>>
  BY NodeFacts, Zenon DEF WaitForRound
<1>3. \/ e = goto_wait_for_next_block(c)
      \/ e = goto_preparing_for_next_round(c)
      \/ e = [c EXCEPT !.state = send_and_wait_for_handshakes] /\ IsValidator(n, c)
      \/ e = [c EXCEPT !.state = wait_for_handshake_bitsets] /\ IsProducer(n, c)
  <2>1. n \in DOMAIN context
    BY NodeFacts
  <2> QED
    BY <2>1, Zenon DEF WaitForRound
<1>4. HeightOf[chain[n]] <= HeightOf[chain'[n]] /\ chain'[n] \in Tips
  BY <1>2, NodeFacts
<1>5. M \in SUBSET Message /\ R \in SUBSET net /\ OnePerPosition({})
  BY DEF OnePerPosition
<1> HIDE DEF e
<1>6. CASE e \in {goto_wait_for_next_block(c), goto_preparing_for_next_round(c)}
  <2>1. /\ e \in Context /\ e.top = c.top /\ e.height = c.height
        /\ \/ e.state = wait_for_next_block /\ e.queue = {} /\ e.received = {}
           \/ /\ e.state = prepare_for_round /\ e.queue_for_next_round /\ e.round = c.round
              /\ e.queue = c.queue /\ e.received = c.received
    BY <1>1, <1>6, EndFacts
  <2>2. StepInRound(n, e, M, R)
    <3>1. Goes(n, e)
      BY <1>1, <1>2, <1>4, <2>1 DEF Goes
    <3>2. Signs(n, e, M)
      BY DEF Signs
    <3>3. Holds(n, e, M, R)
      BY <1>1, <1>2, <1>5, <2>1 DEF Holds
    <3>4. Collects(n, e)
      BY <1>1, <2>1 DEF Collects, wait_for_next_block, prepare_for_round, wait_for_round
    <3> QED
      BY <3>1, <3>2, <3>3, <3>4 DEF StepInRound
  <2>3. RoleOK(n)'
    BY <1>1, <1>2, <2>1, RoleOfEnd DEF e
  <2> HIDE DEF M, R
  <2> QED
    BY <1>2, <1>5, <2>1, <2>2, <2>3, QuietStep
<1>7. CASE ~(e \in {goto_wait_for_next_block(c), goto_preparing_for_next_round(c)})
  <2>1. /\ e \in Context /\ e.top = c.top /\ e.height = c.height /\ e.round = c.round
        /\ e.queue = c.queue /\ e.received = c.received /\ e.sent = c.sent
        /\ e.final_block = c.final_block
        /\ \/ e.state = send_and_wait_for_handshakes /\ IsValidator(n, c)
           \/ e.state = wait_for_handshake_bitsets /\ IsProducer(n, c)
    <3>1. \A s \in {send_and_wait_for_handshakes, wait_for_handshake_bitsets} :
             LET x == [c EXCEPT !.state = s]
             IN  /\ x \in Context /\ x.state = s /\ x.top = c.top /\ x.height = c.height
                 /\ x.round = c.round /\ x.queue = c.queue /\ x.received = c.received
                 /\ x.sent = c.sent /\ x.final_block = c.final_block
      BY <1>1, StateFacts, AllStates
    <3> HIDE DEF c
    <3> QED
      BY <1>3, <1>7, <3>1, Zenon
  <2>2. e.state >= c.state
    BY <1>1, <2>1 DEF wait_for_round, send_and_wait_for_handshakes, wait_for_handshake_bitsets
  <2>3. StepInRound(n, e, M, R)
    BY <1>1, <1>2, <1>4, <1>5, <2>1, <2>2, SMTT(20) DEF StepInRound, Goes, Signs, Holds, Collects
  <2>4. RoleOK(n)'
    <3>1. context'[n] = e /\ c.sent = {}
      BY <1>1 DEF e, RoleOK
    <3>2. IsValidator(n, e) = IsValidator(n, c) /\ IsProducer(n, e) = IsProducer(n, c)
      BY <2>1 DEF IsValidator, IsProducer, Validator
    <3> HIDE DEF c
    <3> QED
      BY <1>1, <2>1, <3>1, <3>2
         DEF RoleOK, c, wait_for_next_block, wait_for_round, send_and_wait_for_handshakes,
             send_handshake_bitsets, wait_for_handshake_bitsets, send_block_template,
             wait_for_block_template, send_and_wait_for_random_value_hashes,
             send_and_wait_for_random_value, send_and_wait_for_signed_blocks
  <2> HIDE DEF M, R
  <2> QED
    BY <1>2, <1>5, <2>1, <2>3, <2>4, QuietStep
<1> QED
  BY <1>6, <1>7

\* The relay of the handshake, or of the bitset, throws.
LEMMA StepRelayFails ==
    ASSUME IInv, NEW n \in Nodes, RelayFails(n)
    PROVE  LocalStep(n)
<1> DEFINE c == context[n]
           own == OwnMessage(n, c, handshake, None)
           e == goto_preparing_for_next_round(c)
           M == IF net' = net THEN {} ELSE {own}
           R == {}
<1>1. /\ c \in Context /\ c.state \in {send_and_wait_for_handshakes, send_handshake_bitsets}
      /\ net' # net =>
            /\ c.state = send_and_wait_for_handshakes /\ handshake \notin c.sent
            /\ net' = net \cup {own}
      /\ context' = [context EXCEPT ![n] = e] /\ UNCHANGED <<chain, locks, produced>>
  BY NodeFacts DEF RelayFails
<1>2. /\ c.state > wait_for_next_block /\ c.state # wait_for_handshake_bitsets
      /\ c.state >= wait_for_round /\ c.state # wait_for_round
  BY <1>1 DEF wait_for_next_block, wait_for_round, wait_for_handshake_bitsets,
              send_and_wait_for_handshakes, send_handshake_bitsets
<1>3. /\ OnePerPosition(c.queue) /\ OnePerPosition(c.received)
      /\ c.received \subseteq net /\ c.queue \subseteq net /\ c.top \in Tips
      /\ IsValidator(n, c)
  BY <1>1, <1>2, NodeFacts, Zenon DEF RoleOK
<1>4. /\ own \in Message
      /\ own.type = handshake /\ own.key = n /\ own.top = c.top /\ own.round = c.round
      /\ SignatureCheck(c, own) /\ MessageOK(own)
  <2>1. handshake \in (handshake .. signed_block) \ {block_template}
    BY DEF handshake, signed_block, block_template
  <2>3. DataOf(n, c, handshake, None)
    BY <1>1, <1>3, <2>1, Zenon DEF DataOf
  <2>4. Owns(n, c, handshake, None, own)
    BY <1>1, <1>3, <2>1, <2>3, OwnMessageFacts, Zenon
  <2> HIDE DEF own
  <2> QED
    BY <2>4, Zenon DEF Owns
<1> HIDE DEF own
<1>5. net' # net => ~SignedInRound(c, own)
  BY <1>1, <1>4 DEF SignedInRound, handshake, handshake_bitset, block_template
<1>6. /\ e \in Context /\ e.state = prepare_for_round /\ e.queue_for_next_round
      /\ e.round = c.round /\ e.top = c.top /\ e.height = c.height
      /\ e.queue = c.queue /\ e.received = c.received
  BY <1>1, EndFacts
<1> HIDE DEF e
<1>7. StepInRound(n, e, M, R)
  <2>1. HeightOf[chain[n]] <= HeightOf[chain'[n]] /\ chain'[n] \in Tips
    BY <1>1, NodeFacts
  <2>2. net \subseteq net' /\ net' \subseteq net \cup c.queue \cup M
    BY <1>1
  <2>3. ~(e.state >= c.state)
    BY <1>1, <1>6 DEF prepare_for_round, send_and_wait_for_handshakes, send_handshake_bitsets
  <2>4. Goes(n, e)
    BY <1>1, <1>2, <1>6, <2>1 DEF Goes
  <2>5. Signs(n, e, M)
    BY <1>2, <1>4, <1>5, <2>3 DEF Signs
  <2>6. Holds(n, e, M, R)
    BY <1>3, <1>6, <2>2 DEF Holds
  <2>7. Collects(n, e)
    BY <1>6, <2>3 DEF Collects
  <2> QED
    BY <2>4, <2>5, <2>6, <2>7 DEF StepInRound
<1>8. context'[n] = e
  BY <1>1, NodeFacts
<1>9. RoleOK(n)'
  BY <1>2, <1>6, <1>8, RoleOfEnd
<1>10. M \in SUBSET Message /\ R \in SUBSET net
  BY <1>4
<1> HIDE DEF M, R
<1> QED
  BY <1>1, <1>6, <1>7, <1>9, <1>10, QuietStep

\* A validator signs its bitset and queues it.
LEMMA StepSendHandshakeBitsets ==
    ASSUME IInv, NEW n \in Nodes, SendHandshakeBitsets(n)
    PROVE  LocalStep(n)
<1> DEFINE c == context[n]
           own == OwnMessage(n, c, handshake_bitset, Bitset(c, handshake))
           d == Handle(c, own)
           e == [d EXCEPT !.state = wait_for_handshake_bitsets]
           M == {own}
           R == {}
<1>1. /\ c \in Context /\ c.state = send_handshake_bitsets
      /\ context' = [context EXCEPT ![n] = e] /\ UNCHANGED <<chain, net, locks, produced>>
  BY NodeFacts DEF SendHandshakeBitsets
<1>2. /\ c.state > wait_for_next_block /\ c.state # wait_for_handshake_bitsets
      /\ c.state >= wait_for_round /\ c.state # wait_for_round
      /\ c.state < wait_for_handshake_bitsets /\ c.state < StageOf(handshake_bitset)
  BY <1>1 DEF wait_for_next_block, wait_for_round, wait_for_handshake_bitsets,
              send_handshake_bitsets, StageOf, handshake, handshake_bitset,
              block_template, random_value_hash, random_value, signed_block
<1>3. /\ OnePerPosition(c.queue) /\ OnePerPosition(c.received)
      /\ c.received \subseteq net /\ c.queue \subseteq net /\ c.top \in Tips
      /\ IsValidator(n, c) /\ MyPosition(n, c) \in Bitset(c, handshake)
  BY <1>1, <1>2, NodeFacts DEF RoleOK
<1>4. /\ own \in Message
      /\ own.type = handshake_bitset /\ own.key = n /\ own.top = c.top
      /\ own.round = c.round /\ SignatureCheck(c, own) /\ MessageOK(own)
  <2>1. handshake_bitset \in (handshake .. signed_block) \ {block_template}
    BY DEF handshake, handshake_bitset, signed_block, block_template
  <2>2. Bitset(c, handshake) \in SUBSET Positions
    BY <1>1, MessageFields DEF Bitset, Stage, Context
  <2>3. DataOf(n, c, handshake_bitset, Bitset(c, handshake))
    BY <1>1, <1>3, <2>1, <2>2, Zenon DEF DataOf
  <2>4. Owns(n, c, handshake_bitset, Bitset(c, handshake), own)
    BY <1>1, <1>3, <2>1, <2>3, OwnMessageFacts, Zenon
  <2> HIDE DEF own
  <2> QED
    BY <2>4, Zenon DEF Owns
<1> HIDE DEF own
<1>5. ~SignedInRound(c, own)
  BY <1>1, <1>4 DEF SignedInRound, send_handshake_bitsets, wait_for_handshake_bitsets
<1>6. /\ d \in Context /\ d.height = c.height /\ d.top = c.top /\ d.round = c.round
      /\ d.sent = c.sent /\ d.final_block = c.final_block
      /\ d.queue \subseteq c.queue \cup {own} /\ d.received = c.received
      /\ OnePerPosition(d.queue) /\ OnePerPosition(d.received)
  BY <1>1, <1>2, <1>3, <1>4, HandleFacts
<1> HIDE DEF d
<1>7. /\ e \in Context /\ e.state = wait_for_handshake_bitsets
      /\ e.height = c.height /\ e.top = c.top /\ e.round = c.round
      /\ e.queue = d.queue /\ e.received = d.received /\ e.sent = c.sent
      /\ e.final_block = c.final_block
  BY <1>6, StateFacts, AllStates
<1> HIDE DEF e
<1>8. SignedInRound(e, own) /\ e.state >= c.state
  BY <1>1, <1>4, <1>7 DEF SignedInRound, handshake_bitset, block_template,
                          send_handshake_bitsets, wait_for_handshake_bitsets
<1>9. StepInRound(n, e, M, R)
  <2>1. HeightOf[chain[n]] <= HeightOf[chain'[n]] /\ chain'[n] \in Tips
    BY <1>1, NodeFacts
  <2>2. \A m \in e.queue \ net' : m = own
    BY <1>1, <1>3, <1>6, <1>7
  <2>3. /\ OnePerPosition(e.queue) /\ OnePerPosition(e.received)
        /\ e.queue \cup e.received \subseteq c.queue \cup c.received \cup M \cup R
        /\ e.received \subseteq net' /\ net \subseteq net' /\ net' \subseteq net \cup c.queue \cup M
    BY <1>1, <1>3, <1>6, <1>7
  <2>4. \A m \in e.queue \ net' :
           /\ e.state = wait_for_handshake_bitsets /\ m.type = handshake_bitset
           /\ m.key = n /\ m.top = c.top /\ m.round = c.round
    BY <1>4, <1>7, <2>2
  <2>5. /\ \A m \in M : /\ m.key = n /\ m.top = c.top /\ m.round = c.round
                        /\ MessageOK(m) /\ SignatureCheck(c, m) /\ ~SignedInRound(c, m)
                        /\ SignedInRound(e, m)
        /\ \A m, o \in M : m = o
        /\ c.sent \subseteq e.sent /\ e.received = c.received
    BY <1>4, <1>5, <1>6, <1>7, <1>8
  <2> HIDE DEF c, M
  <2> QED
    BY <1>1, <1>2, <1>7, <1>8, <2>1, <2>3, <2>4, <2>5, Zenon
       DEF StepInRound, Goes, Signs, Holds, Collects, c
<1>10. RoleOK(n)'
  <2>1. context'[n] = e
    BY <1>1, NodeFacts
  <2> QED
    BY <1>2, <1>3, <1>7, <2>1, RoleOfNext
<1>11. M \in SUBSET Message /\ R \in SUBSET net
  BY <1>4
<1> HIDE DEF M, R
<1> QED
  BY <1>1, <1>7, <1>9, <1>10, <1>11, QuietStep

\* The producer sends its template, or gives up.
LEMMA StepSendBlockTemplate ==
    ASSUME IInv, NEW n \in Nodes, SendBlockTemplate(n)
    PROVE  LocalStep(n)
<1> DEFINE c == context[n]
           e == context'[n]
           T(contents) == [prev |-> chain[n], round |-> c.round, bitset |-> c.best_bitset,
                           contents |-> contents]
           own(contents) == [type |-> block_template, top |-> c.top, round |-> c.round,
                             pos |-> 0, key |-> n, data |-> T(contents)]
           M == net' \ net
           R == {}
<1>1. /\ c \in Context /\ c.state = send_block_template
      /\ context' = [context EXCEPT ![n] = e]
      /\ e \in {goto_wait_for_next_block(c), goto_preparing_for_next_round(c)}
      /\ UNCHANGED <<chain, locks, produced>>
      /\ net' = net \/ \E contents \in Contents : net' = net \cup {own(contents)}
  <2>1. c \in Context /\ context \in [Nodes -> Context]
    BY NodeFacts
  <2>2. \/ context' = [context EXCEPT ![n] = goto_preparing_for_next_round(c)]
        \/ context' = [context EXCEPT ![n] = goto_wait_for_next_block(c)]
    BY DEF SendBlockTemplate
  <2>3. /\ context' = [context EXCEPT ![n] = e]
        /\ e \in {goto_wait_for_next_block(c), goto_preparing_for_next_round(c)}
    BY <2>1, <2>2
  <2>4. net' = net \/ \E contents \in Contents : net' = net \cup {own(contents)}
    BY DEF SendBlockTemplate
  <2> QED
    BY <2>1, <2>3, <2>4 DEF SendBlockTemplate
<1>2. /\ c.state > wait_for_next_block /\ c.state # wait_for_handshake_bitsets
      /\ c.state >= wait_for_round /\ c.state # wait_for_round
  BY <1>1 DEF wait_for_next_block, wait_for_round, wait_for_handshake_bitsets,
              send_block_template
<1>3. /\ OnePerPosition(c.queue) /\ OnePerPosition(c.received)
      /\ c.received \subseteq net /\ c.queue \subseteq net /\ c.top \in Tips
      /\ IsProducer(n, c) /\ chain[n] \in Tips
  BY <1>1, <1>2, NodeFacts, Zenon DEF RoleOK
<1>4. ASSUME NEW contents \in Contents
      PROVE  LET m == own(contents)
             IN  /\ m \in Message /\ m.type = block_template
                 /\ m.key = n /\ m.top = c.top /\ m.round = c.round
                 /\ SignatureCheck(c, m) /\ MessageOK(m)
  <2>1. T(contents) \in BlockTemplate /\ 0 \in Positions /\ c.round \in Rounds
    <3>1. c.round \in Rounds /\ c.best_bitset \in SUBSET Positions
      BY <1>1 DEF Context
    <3>2. 0 \in Positions
      BY SizeAssumption DEF Positions
    <3>3. T(contents) \in BlockTemplate
      BY <1>3, <3>1, Zenon DEF BlockTemplate
    <3> QED
      BY <3>1, <3>2, <3>3, Zenon
  <2> HIDE DEF T
  <2>2. own(contents) \in Message
    BY <1>3, <2>1, Zenon DEF Message, MessageOf
  <2>3. LET m == own(contents)
        IN  /\ m.type = block_template /\ m.pos = 0
            /\ m.key = n /\ m.top = c.top /\ m.round = c.round
    OBVIOUS
  <2>4. n = Producer[c.top][c.round]
    BY <1>3 DEF IsProducer
  <2>5. block_template # handshake_bitset
    BY DEF block_template, handshake_bitset
  <2> HIDE DEF own
  <2> QED
    BY <2>2, <2>3, <2>4, <2>5, Zenon DEF SignatureCheck, MessageOK
<1> HIDE DEF own
<1>5. /\ \A m \in M : /\ m \in Message /\ m.key = n /\ m.top = c.top /\ m.round = c.round
                      /\ MessageOK(m) /\ SignatureCheck(c, m)
                      /\ m.type = block_template
      /\ \A m, o \in M : m = o
      /\ net \subseteq net'
  BY <1>1, <1>4
<1>6. \A m \in M : ~SignedInRound(c, m)
  BY <1>5 DEF SignedInRound, block_template, handshake_bitset
<1>7. /\ e \in Context /\ e.top = c.top /\ e.height = c.height
      /\ \/ e.state = wait_for_next_block /\ e.queue = {} /\ e.received = {}
         \/ /\ e.state = prepare_for_round /\ e.queue_for_next_round /\ e.round = c.round
            /\ e.queue = c.queue /\ e.received = c.received
  BY <1>1, EndFacts
<1> HIDE DEF e
<1>8. StepInRound(n, e, M, R)
  <2>1. HeightOf[chain[n]] <= HeightOf[chain'[n]] /\ chain'[n] \in Tips
    BY <1>1, NodeFacts
  <2>2. /\ OnePerPosition(e.queue) /\ OnePerPosition(e.received)
        /\ e.queue \cup e.received \subseteq c.queue \cup c.received \cup M \cup R
        /\ e.received \subseteq net' /\ e.queue \subseteq net'
        /\ net' \subseteq net \cup c.queue \cup M
    BY <1>3, <1>5, <1>7 DEF OnePerPosition
  <2>3. ~(e.state >= c.state)
    BY <1>1, <1>7 DEF wait_for_next_block, prepare_for_round, send_block_template
  <2>4. Goes(n, e)
    BY <1>1, <1>2, <1>7, <2>1, SMTT(20) DEF Goes
  <2>5. Signs(n, e, M)
    BY <1>2, <1>5, <1>6, <2>3 DEF Signs
  <2>6. Holds(n, e, M, R)
    BY <1>5, <2>2 DEF Holds
  <2>7. Collects(n, e)
    BY <1>7, <2>3 DEF Collects
  <2> QED
    BY <2>4, <2>5, <2>6, <2>7 DEF StepInRound
<1>9. RoleOK(n)'
  BY <1>2, <1>7, RoleOfEnd DEF e
<1>10. M \in SUBSET Message /\ R \in SUBSET net
  BY <1>5
<1> HIDE DEF M, R
<1> QED
  BY <1>1, <1>7, <1>8, <1>9, <1>10, QuietStep

-----------------------------------------------------------------------------
(* Between the rounds *)

\* The context that begins a ceremony.
LEMMA BeginContext ==
    ASSUME NEW c \in Context, NEW b \in BOOLEAN, NEW r \in Rounds, NEW h \in Nat,
           NEW t \in Tips, NEW s \in null_state .. send_and_wait_for_signed_blocks
    PROVE  [c EXCEPT !.state = s, !.height = h, !.top = t, !.queue_for_next_round = b,
                     !.round = r] \in Context
BY Zenon DEF Context

\* The context that begins a round.
LEMMA RoundContext ==
    ASSUME NEW c \in Context, NEW r \in Rounds
    PROVE  LET x == BeginRound(c, r)
           IN  /\ x \in Context /\ x.state = wait_for_round /\ x.round = r
               /\ x.top = c.top /\ x.height = c.height /\ x.sent = {}
               /\ x.queue = {} /\ x.received = {} /\ x.final_block = None
<1> DEFINE k == Cleared(c)
           x == [k EXCEPT !.state = wait_for_round, !.round = r]
<1>1. /\ FALSE \in BOOLEAN /\ 0 \in Rounds
      /\ prepare_for_round \in null_state .. send_and_wait_for_signed_blocks
      /\ wait_for_round \in null_state .. send_and_wait_for_signed_blocks
  BY SizeAssumption DEF Rounds, null_state, prepare_for_round, wait_for_round,
                        send_and_wait_for_signed_blocks
<1>2. k \in Context
  BY <1>1, QueueingContext, Zenon DEF Cleared
<1>3. /\ k.top = c.top /\ k.height = c.height /\ k.sent = {}
      /\ k.queue = {} /\ k.received = {} /\ k.final_block = None
  BY DEF Cleared, Context
<1>4. x = BeginRound(c, r)
  BY DEF BeginRound
<1> HIDE DEF k
<1>5. x \in Context
  BY <1>1, <1>2, Zenon DEF Context
<1>6. /\ x.state = wait_for_round /\ x.round = r
      /\ x.top = k.top /\ x.height = k.height /\ x.sent = k.sent
      /\ x.queue = k.queue /\ x.received = k.received /\ x.final_block = k.final_block
  BY <1>2 DEF Context
<1> HIDE DEF x
<1> QED
  BY <1>3, <1>4, <1>5, <1>6, SMTT(20)

\* A node that begins a ceremony.
LEMMA StepWaitForNextBlock ==
    ASSUME IInv, NEW n \in Nodes, WaitForNextBlock(n)
    PROVE  LocalStep(n)
<1> DEFINE c == context[n]
           e == [c EXCEPT !.state = prepare_for_round, !.height = HeightOf[chain[n]],
                          !.top = chain[n], !.queue_for_next_round = FALSE, !.round = 0]
<1>1. /\ c \in Context /\ c.state \in {null_state, wait_for_next_block}
      /\ context' = [context EXCEPT ![n] = e] /\ UNCHANGED <<chain, net, locks, produced>>
      /\ c.height # HeightOf[chain[n]]
  BY NodeFacts DEF WaitForNextBlock, HeightChanged
<1>2. /\ c.queue = {} /\ c.received = {} /\ chain[n] \in Tips /\ HeightOf[chain[n]] \in Nat
      /\ chain[n] # None
  BY <1>1, NodeFacts, ChainAssumption, NoneAssumption DEF RoleOK, null_state, wait_for_next_block
<1>3. /\ e.state = prepare_for_round /\ e.height = HeightOf[chain[n]] /\ e.top = chain[n]
      /\ e.queue = {} /\ e.received = {}
  BY <1>1, <1>2 DEF Context
<1>4. e \in Context
  <2>1. /\ FALSE \in BOOLEAN /\ 0 \in Rounds
        /\ prepare_for_round \in null_state .. send_and_wait_for_signed_blocks
    BY SizeAssumption
       DEF Rounds, null_state, prepare_for_round, send_and_wait_for_signed_blocks
  <2> QED
    BY <1>1, <1>2, <2>1, BeginContext, Zenon
<1> HIDE DEF e
<1>5. context'[n] = e
  BY <1>1, NodeFacts
<1>6. HoldingOK(n)'
  BY <1>3, <1>5 DEF HoldingOK, OnePerPosition
<1>7. RoleOK(n)'
  <2>1. e.top \in Tips /\ e.height = HeightOf[e.top]
    BY <1>2, <1>3, Zenon
  <2> QED
    BY <1>3, <1>5, <2>1, RoleOfState, Zenon
<1>8. ASSUME n \notin Unsteady
      PROVE  SteadyOK(n)'
  <2>1. SteadyOK(n)
    BY <1>8 DEF IInv
  <2>2. SignedBy(n)' = SignedBy(n) /\ c.height \in Nat
    BY <1>1, <1>2, <1>3, <1>5 DEF SignedBy, Context
  <2>3. \A m \in SignedBy(n) : HeightOf[m.top] \in Nat
    BY <1>2, NodeFacts, MessageFields, ChainAssumption DEF SignedBy
  <2>4. \A m \in SignedBy(n) : HeightOf[m.top] < e.height
    BY <1>1, <1>2, <1>3, <2>1, <2>2, <2>3, SMTT(20) DEF SteadyOK
  <2>5. \A m \in SignedBy(n) : HeightOf[m.top] <= e.height /\ HeightOf[m.top] # e.height
    BY <1>2, <1>3, <2>3, <2>4
  <2>6. e.height <= HeightOf[chain'[n]]
    BY <1>1, <1>2, <1>3
  <2>7. \A m, o \in SignedBy(n) :
           (m.type = o.type /\ m.top = o.top /\ m.round = o.round) => m = o
    BY <2>1, Zenon DEF SteadyOK
  <2> QED
    BY <1>5, <2>2, <2>5, <2>6, <2>7, Zenon DEF SteadyOK
<1>9. SignaturesOK(n)'
  BY <1>3, <1>5
     DEF SignaturesOK, prepare_for_round, wait_for_round, send_and_wait_for_random_value
<1> QED
  BY <1>1, <1>4, <1>6, <1>7, <1>8, <1>9, NodeFacts, Zenon DEF LocalStep

\* A node that prepares a round has not signed anything for it.
LEMMA StepPrepareForRound ==
    ASSUME IInv, NEW n \in Nodes, PrepareForRound(n)
    PROVE  LocalStep(n)
<1> DEFINE c == context[n]
           e == context'[n]
<1>1. /\ c \in Context /\ c.state = prepare_for_round
      /\ c.state > wait_for_next_block /\ c.top \in Tips /\ RoleOK(n)
      /\ c.round \in Nat /\ c.height \in Nat /\ chain[n] \in Tips /\ MaxRound \in Nat
  <2>1. c \in Context /\ c.state = prepare_for_round /\ chain[n] \in Tips
    BY NodeFacts, SMTT(20) DEF PrepareForRound
  <2>2. c.state > wait_for_next_block
    BY <2>1 DEF prepare_for_round, wait_for_next_block
  <2>3. c.top \in Tips /\ RoleOK(n)
    BY <2>2, NodeFacts
  <2>4. c.round \in Nat /\ c.height \in Nat /\ MaxRound \in Nat
    BY <2>1, SizeAssumption DEF Context, Rounds
  <2> QED
    BY <2>1, <2>2, <2>3, <2>4
<1>2. /\ context' = [context EXCEPT ![n] = e] /\ UNCHANGED <<chain, net, locks, produced>>
      /\ \/ e = goto_wait_for_next_block(c)
         \/ \E r \in Rounds : /\ e = BeginRound(c, r)
                              /\ c.queue_for_next_round => r > c.round
  <2>1. context \in [Nodes -> Context]
    BY NodeFacts
  <2>2. CASE context' = [context EXCEPT ![n] = goto_wait_for_next_block(c)]
    BY <2>1, <2>2 DEF PrepareForRound
  <2>3. CASE \E now \in ClockRounds(NextRound(c)) :
                /\ c.queue_for_next_round => RoundsLeft(c)
                /\ context' = [context EXCEPT ![n] =
                      IF now > MaxRound \/ c.top \notin PulsePossible
                      THEN goto_wait_for_next_block(c)
                      ELSE BeginRound(c, RoundToPrepare(now, NextRound(c)))]
    <3>1. PICK now \in ClockRounds(NextRound(c)) :
                /\ c.queue_for_next_round => RoundsLeft(c)
                /\ context' = [context EXCEPT ![n] =
                      IF now > MaxRound \/ c.top \notin PulsePossible
                      THEN goto_wait_for_next_block(c)
                      ELSE BeginRound(c, RoundToPrepare(now, NextRound(c)))]
      BY <2>3, Zenon
    <3> DEFINE r == RoundToPrepare(now, NextRound(c))
    <3>2. c.round \in Rounds
      BY <1>1 DEF Context
    <3>3. NextRound(c) \in Rounds /\ (c.queue_for_next_round => NextRound(c) > c.round)
      BY <1>1, <3>1, <3>2, SMTT(20) DEF NextRound, RoundsLeft, Rounds
    <3>4. now \in Nat
      BY <1>1, <3>3 DEF ClockRounds, Rounds
    <3>5. now <= MaxRound => r \in Rounds /\ (c.queue_for_next_round => r > c.round)
      BY <1>1, <3>3, <3>4, SMTT(20) DEF RoundToPrepare, Rounds
    <3> HIDE DEF r
    <3>6. /\ context' = [context EXCEPT ![n] = e]
          /\ \/ e = goto_wait_for_next_block(c)
             \/ now <= MaxRound /\ e = BeginRound(c, r)
      BY <1>1, <2>1, <3>1, <3>4, SMTT(20) DEF r
    <3>7. UNCHANGED <<chain, net, locks, produced>>
      BY DEF PrepareForRound
    <3> QED
      BY <3>5, <3>6, <3>7
  <2>4. \/ context' = [context EXCEPT ![n] = goto_wait_for_next_block(c)]
        \/ \E now \in ClockRounds(NextRound(c)) :
                /\ c.queue_for_next_round => RoundsLeft(c)
                /\ context' = [context EXCEPT ![n] =
                      IF now > MaxRound \/ c.top \notin PulsePossible
                      THEN goto_wait_for_next_block(c)
                      ELSE BeginRound(c, RoundToPrepare(now, NextRound(c)))]
    BY Zenon DEF PrepareForRound
  <2> QED
    BY <2>2, <2>3, <2>4
<1> HIDE DEF e
<1>3. /\ e \in Context /\ e.top = c.top /\ e.height = c.height
      /\ e.queue = {} /\ e.received = {}
      /\ \/ e.state = wait_for_next_block
         \/ /\ e.state = wait_for_round /\ e.sent = {} /\ e.final_block = None
            /\ c.queue_for_next_round => e.round > c.round
  <2>1. CASE e = goto_wait_for_next_block(c)
    BY <1>1, <2>1, EndFacts, SMTT(20)
  <2>2. ASSUME NEW r \in Rounds, e = BeginRound(c, r), c.queue_for_next_round => r > c.round
        PROVE  /\ e \in Context /\ e.top = c.top /\ e.height = c.height
               /\ e.queue = {} /\ e.received = {}
               /\ e.state = wait_for_round /\ e.sent = {} /\ e.round = r
               /\ e.final_block = None
    BY <1>1, <2>2, RoundContext
  <2> QED
    BY <1>2, <2>1, <2>2
<1>4. context'[n] = e
  BY <1>2, NodeFacts, SMTT(20)
<1>5. HoldingOK(n)'
  BY <1>3, <1>4 DEF HoldingOK, OnePerPosition
<1>6. RoleOK(n)'
  <2>1. c.state > wait_for_next_block
    BY <1>1 DEF wait_for_next_block, prepare_for_round
  <2>2. e.top \in Tips /\ e.height = HeightOf[e.top]
    BY <1>3, <2>1, HeightOfTop, Zenon
  <2> QED
    BY <1>3, <1>4, <2>2, RoleOfState, Zenon
<1>7. ASSUME n \notin Unsteady
      PROVE  SteadyOK(n)'
  <2>1. SteadyOK(n)
    BY <1>7 DEF IInv
  <2>2. SignedBy(n)' \subseteq SignedBy(n)
    BY <1>2, <1>3, <1>4 DEF SignedBy
  <2>3. \A m \in SignedBy(n) : m.round \in Nat
    BY <1>1, NodeFacts, MessageFields, SizeAssumption, SMTT(20) DEF SignedBy, Context, Rounds
  <2>4. e.round \in Nat
    BY <1>3, SizeAssumption DEF Context, Rounds
  <2>5. \A m \in SignedBy(n) :
           /\ HeightOf[m.top] <= e.height
           /\ HeightOf[m.top] = e.height =>
                 m.top = e.top /\ (e.state = wait_for_round => m.round < e.round)
    BY <1>1, <1>3, <2>1, <2>3, <2>4, SMTT(20)
       DEF SteadyOK, prepare_for_round, wait_for_round, wait_for_next_block
  <2>6. e.state # prepare_for_round /\ ~(e.state > wait_for_round)
    BY <1>3 DEF prepare_for_round, wait_for_round, wait_for_next_block
  <2> QED
    BY <1>2, <1>3, <1>4, <2>1, <2>2, <2>5, <2>6, Zenon DEF SteadyOK
<1>8. SignaturesOK(n)'
  BY <1>3, <1>4
     DEF SignaturesOK, Stage, wait_for_next_block, wait_for_round,
         send_and_wait_for_random_value
<1> QED
  BY <1>2, <1>3, <1>5, <1>6, <1>7, <1>8, NodeFacts, Zenon DEF LocalStep

-----------------------------------------------------------------------------
(* The environment of the ceremony *)

\* The chain of a node changes.
LEMMA StepChainUpdate ==
    ASSUME IInv, NEW n \in Nodes, ChainUpdate(n)
    PROVE  LocalStep(n)
<1>1. /\ chain' \in [Nodes -> Tips] /\ \A k \in Nodes \ {n} : chain'[k] = chain[k]
      /\ n \notin Unsteady => HeightOf[chain[n]] <= HeightOf[chain'[n]]
      /\ UNCHANGED <<context, net, locks, produced>>
  <2>1. PICK t \in Tips \ {chain[n]} :
           /\ n \in Unsteady \/ HeightOf[t] >= HeightOf[chain[n]]
           /\ chain' = [chain EXCEPT ![n] = t]
    BY Zenon DEF ChainUpdate
  <2>2. HeightOf[t] \in Nat /\ HeightOf[chain[n]] \in Nat
    BY <2>1, NodeFacts, ChainAssumption
  <2> QED
    BY <2>1, <2>2, NodeFacts DEF ChainUpdate
<1>2. HoldingOK(n)' /\ RoleOK(n)' /\ SignaturesOK(n)'
  <2>1. HoldingOK(n) /\ RoleOK(n) /\ SignaturesOK(n)
    BY DEF IInv
  <2>2. HoldingOK(n)'
    BY <1>1, <2>1, Zenon DEF HoldingOK, OnePerPosition, SignatureCheck, MessageOK, Validator
  <2>3. RoleOK(n)'
    BY <1>1, <2>1, Zenon DEF RoleOK, IsValidator, IsProducer, MyPosition, Bitset, Stage, Validator
  <2>4. SignaturesOK(n)'
    BY <1>1, <2>1 DEF SignaturesOK, Stage
  <2> QED
    BY <2>2, <2>3, <2>4
<1>3. ASSUME n \notin Unsteady
      PROVE  SteadyOK(n)'
  <2>1. SteadyOK(n)
    BY <1>3 DEF IInv
  <2>2. SignedBy(n)' = SignedBy(n)
    BY <1>1 DEF SignedBy
  <2>3. context[n].height \in Int /\ HeightOf[chain[n]] \in Int /\ HeightOf[chain'[n]] \in Int
    BY <1>1, NodeFacts, ChainAssumption DEF Context
  <2>4. context[n].height <= HeightOf[chain'[n]]
    <3>1. context[n].height <= HeightOf[chain[n]]
      BY <2>1, Zenon DEF SteadyOK
    <3>2. HeightOf[chain[n]] <= HeightOf[chain'[n]]
      BY <1>1, <1>3, Zenon
    <3> QED
      BY <2>3, <3>1, <3>2
  <2> QED
    BY <1>1, <2>1, <2>2, <2>4, Zenon DEF SteadyOK, SignedInRound
<1> QED
  BY <1>1, <1>2, <1>3, NodeFacts, SMTT(20) DEF LocalStep

\* A node in the initial context.
LEMMA InitNode ==
    ASSUME NEW c, c = InitContext
    PROVE  /\ c.state <= wait_for_next_block /\ c.state < wait_for_round
           /\ c.state \notin wait_for_round .. send_and_wait_for_random_value
           /\ c.queue = {} /\ c.received = {}
           /\ c.top = None /\ c.height = 0 /\ c.state = null_state
BY InitContextFacts DEF null_state, wait_for_next_block, wait_for_round,
                        send_and_wait_for_random_value

\* Its state has no role in a ceremony.
LEMMA InitRole ==
    ASSUME NEW c, c = InitContext
    PROVE  /\ ~(c.state > wait_for_next_block) /\ ~(c.state >= wait_for_block_template)
           /\ c.state # wait_for_round /\ c.state # send_and_wait_for_handshakes
           /\ c.state # send_handshake_bitsets /\ c.state # wait_for_handshake_bitsets
           /\ c.state # send_block_template
           /\ c.state # send_and_wait_for_random_value_hashes
           /\ c.state # send_and_wait_for_random_value
           /\ c.state # send_and_wait_for_signed_blocks
<1>1. c.state = null_state
  BY InitNode, Zenon
<1> QED
  BY <1>1
     DEF null_state, wait_for_next_block, wait_for_round, send_and_wait_for_handshakes,
         send_handshake_bitsets, wait_for_handshake_bitsets, send_block_template,
         wait_for_block_template, send_and_wait_for_random_value_hashes,
         send_and_wait_for_random_value, send_and_wait_for_signed_blocks

\* A node restarts.
LEMMA StepRestart ==
    ASSUME IInv, NEW n \in Nodes, Restart(n)
    PROVE  LocalStep(n)
<1>1. /\ n \in Unsteady /\ context' = [context EXCEPT ![n] = InitContext]
      /\ UNCHANGED <<chain, net, locks, produced>>
  BY DEF Restart
<1>2. context'[n] = InitContext /\ context' \in [Nodes -> Context]
      /\ \A k \in Nodes \ {n} : context'[k] = context[k]
  BY <1>1, NodeFacts, InitContextFacts, SMTT(20)
<1>3. HoldingOK(n)'
  <2>1. context'[n].queue = {} /\ context'[n].received = {}
    BY <1>2, InitNode, Zenon
  <2> QED
    BY <2>1 DEF HoldingOK, OnePerPosition
<1>4. RoleOK(n)'
  <2> DEFINE e == context'[n]
  <2>1. e.queue = {} /\ e.received = {} /\ e.top = None /\ e.height = 0
    BY <1>2, InitNode, Zenon
  <2> QED
    BY <1>2, <2>1, InitRole, Zenon DEF RoleOK
<1>5. SignaturesOK(n)'
  BY <1>2, InitNode
     DEF SignaturesOK, null_state, wait_for_round, send_and_wait_for_random_value
<1> QED
  BY <1>1, <1>2, <1>3, <1>4, <1>5, NodeFacts, SMTT(20) DEF LocalStep

-----------------------------------------------------------------------------
(* The same steps and the order of the stages *)

\* A node begins a ceremony, prepares a round or restarts, or its chain changes.
LEMMA AdvanceBetweenRounds ==
    ASSUME IInv, IInv', NEW n \in Nodes, StageOK(n),
           WaitForNextBlock(n) \/ PrepareForRound(n) \/ ChainUpdate(n) \/ Restart(n)
    PROVE  Advances(n)
<1> DEFINE c == context[n]
           e == context'[n]
<1>1. c \in Context /\ e \in Context /\ context \in [Nodes -> Context]
  BY ContextNext
<1>2. UNCHANGED <<net, locks, produced>>
  BY DEF WaitForNextBlock, PrepareForRound, ChainUpdate, Restart
<1>3. CASE ChainUpdate(n)
  <2>1. context' = context /\ locks' = locks
    BY <1>3 DEF ChainUpdate
  <2>2. StageOK(n)'
    BY <2>1, Zenon DEF StageOK, Collected, Complete, Assembly, LockOf, Bitset, Stage
  <2> QED
    BY <1>2, <2>2, QuietAdvance
<1>4. CASE WaitForNextBlock(n)
  <2>1. e.state = prepare_for_round
    BY <1>1, <1>4 DEF WaitForNextBlock, Context
  <2> QED
    BY <1>1, <1>2, <2>1, FreshStage, QuietAdvance
<1>5. CASE Restart(n)
  <2>1. e = InitContext
    BY <1>1, <1>5 DEF Restart
  <2>2. e.state = null_state
    BY <2>1, InitContextFacts
  <2> QED
    BY <1>1, <1>2, <2>2, FreshStage, QuietAdvance
<1>6. CASE PrepareForRound(n)
  <2>1. e = goto_wait_for_next_block(c) \/ \E r : e = BeginRound(c, r)
    <3>1. \/ context' = [context EXCEPT ![n] = goto_wait_for_next_block(c)]
          \/ \E r : context' = [context EXCEPT ![n] = BeginRound(c, r)]
      BY <1>6, Zenon DEF PrepareForRound
    <3> QED
      BY <1>1, <3>1, Zenon
  <2>2. ASSUME NEW r
        PROVE  BeginRound(c, r).state = wait_for_round /\ BeginRound(c, r).received = {}
    BY <1>1 DEF BeginRound, Cleared, Context
  <2>3. goto_wait_for_next_block(c).state = wait_for_next_block
    BY <1>1, EndFacts, SMTT(20)
  <2>4. \/ e.state = wait_for_next_block
        \/ e.state = wait_for_round /\ e.received = {}
    BY <2>1, <2>2, <2>3, Zenon
  <2> QED
    BY <1>1, <1>2, <2>4, FreshStage, QuietAdvance, SMTT(20)
<1> QED
  BY <1>3, <1>4, <1>5, <1>6

\* The relay throws, or the producer sends its template or gives up: the round has
\* failed, or the ceremony is over.
LEMMA AdvanceGivesUp ==
    ASSUME IInv, IInv', NEW n \in Nodes, StageOK(n), RelayFails(n) \/ SendBlockTemplate(n)
    PROVE  Advances(n)
<1> DEFINE c == context[n]
           e == context'[n]
<1>1. c \in Context /\ e \in Context /\ context \in [Nodes -> Context]
  BY ContextNext
<1>2. e \in {goto_wait_for_next_block(c), goto_preparing_for_next_round(c)}
  <2>1. \/ context' = [context EXCEPT ![n] = goto_wait_for_next_block(c)]
        \/ context' = [context EXCEPT ![n] = goto_preparing_for_next_round(c)]
    BY Zenon DEF RelayFails, SendBlockTemplate
  <2> QED
    BY <1>1, <2>1, Zenon
<1>3. StageOK(n)'
  <2>1. e.state \in {wait_for_next_block, prepare_for_round}
    BY <1>1, <1>2, EndFacts
  <2> QED
    BY <1>1, <2>1, FreshStage
<1>4. UNCHANGED <<locks, produced>>
  BY Zenon DEF RelayFails, SendBlockTemplate
<1>5. ASSUME NEW m \in net' \ net
      PROVE  InItsRound(n, m)
  <2>1. /\ m.top = c.top /\ m.round = c.round /\ m.type \in {handshake, block_template}
        /\ c.state \in {send_and_wait_for_handshakes, send_block_template}
    <3>1. CASE RelayFails(n)
      <4>1. c.state = send_and_wait_for_handshakes /\ m = OwnMessage(n, c, handshake, None)
        BY <1>5, <3>1, Zenon DEF RelayFails
      <4> QED
        BY <4>1 DEF OwnMessage
    <3>2. CASE SendBlockTemplate(n)
      <4>1. PICK data : m = [type |-> block_template, top |-> c.top, round |-> c.round,
                             pos |-> 0, key |-> n, data |-> data]
        BY <1>5, <3>2, Zenon DEF SendBlockTemplate
      <4>2. c.state = send_block_template
        BY <3>2, SMTT(20) DEF SendBlockTemplate
      <4> QED
        BY <4>1, <4>2
    <3> QED
      BY <3>1, <3>2
  <2> QED
    BY <2>1 DEF InItsRound, handshake, block_template, random_value, wait_for_round,
                send_and_wait_for_handshakes, send_block_template
<1> QED
  BY <1>3, <1>4, <1>5 DEF Advances

\* The round begins, or a validator signs its bitset and queues it.
LEMMA AdvanceToBitsets ==
    ASSUME IInv, IInv', NEW n \in Nodes, StageOK(n), WaitForRound(n) \/ SendHandshakeBitsets(n)
    PROVE  Advances(n)
<1> DEFINE c == context[n]
           e == context'[n]
<1>1. c \in Context /\ e \in Context /\ context \in [Nodes -> Context]
  BY ContextNext
<1>2. UNCHANGED <<net, locks, produced>>
  BY DEF WaitForRound, SendHandshakeBitsets
<1>3. c.state \in {wait_for_round, send_handshake_bitsets} /\ c.state >= wait_for_round
  BY DEF WaitForRound, SendHandshakeBitsets, wait_for_round, send_handshake_bitsets
<1>4. Collected(c)
  BY <1>3, StageNow
<1>5. \/ e \in {goto_wait_for_next_block(c), goto_preparing_for_next_round(c)}
      \/ \E d \in Context, s \in {send_and_wait_for_handshakes, wait_for_handshake_bitsets} :
            /\ e = [d EXCEPT !.state = s] /\ d.received = c.received
            /\ d.round = c.round /\ d.best_bitset = c.best_bitset
            /\ s >= c.state
  <2>1. CASE WaitForRound(n)
    <3>1. \/ e \in {goto_wait_for_next_block(c), goto_preparing_for_next_round(c)}
          \/ e = [c EXCEPT !.state = send_and_wait_for_handshakes]
          \/ e = [c EXCEPT !.state = wait_for_handshake_bitsets]
      BY <1>1, <2>1, Zenon DEF WaitForRound
    <3>2. send_and_wait_for_handshakes >= c.state /\ wait_for_handshake_bitsets >= c.state
      BY <2>1 DEF WaitForRound, wait_for_round, send_and_wait_for_handshakes,
                  wait_for_handshake_bitsets
    <3> QED
      BY <1>1, <3>1, <3>2, Zenon
  <2>2. CASE SendHandshakeBitsets(n)
    <3> DEFINE own == OwnMessage(n, c, handshake_bitset, Bitset(c, handshake))
               d == Handle(c, own)
    <3>1. c.state = send_handshake_bitsets /\ own.type = handshake_bitset
      BY <2>2 DEF SendHandshakeBitsets, OwnMessage
    <3>2. c.state < StageOf(own.type) /\ wait_for_handshake_bitsets >= c.state
      BY <3>1, Stages DEF send_handshake_bitsets, wait_for_handshake_bitsets
    <3>3. d = c \/ d = [c EXCEPT !.queue = @ \cup {own}]
      BY <3>2 DEF Handle, Enqueue
    <3>4. /\ d \in Context /\ d.received = c.received
          /\ d.round = c.round /\ d.best_bitset = c.best_bitset
      <4>1. own \in Message
        <5>1. IsValidator(n, c) /\ MyPosition(n, c) \in Bitset(c, handshake) /\ c.top \in Tips
          <6>1. RoleOK(n) /\ (c.state > wait_for_next_block => c.top \in Tips)
            BY NodeFacts, Zenon
          <6>2. IsValidator(n, c) /\ MyPosition(n, c) \in Bitset(c, handshake)
            BY <3>1, <6>1, Zenon DEF RoleOK
          <6> QED
            BY <3>1, <6>1, <6>2, SMTT(20) DEF send_handshake_bitsets, wait_for_next_block
        <5>2. Bitset(c, handshake) \in SUBSET Positions
          BY <1>1, MessageFields, SMTT(20) DEF Bitset, Stage, Context
        <5>3. handshake_bitset \in (handshake .. signed_block) \ {block_template}
          BY DEF handshake, handshake_bitset, signed_block, block_template
        <5>4. DataOf(n, c, handshake_bitset, Bitset(c, handshake))
          BY <5>1, <5>2, Zenon DEF DataOf
        <5> QED
          BY <1>1, <5>1, <5>3, <5>4, OwnMessageFacts, Zenon DEF Owns
      <4> HIDE DEF own
      <4> QED
        BY <1>1, <3>3, <4>1 DEF Context
    <3>5. e = [d EXCEPT !.state = wait_for_handshake_bitsets]
      BY <1>1, <2>2, Zenon DEF SendHandshakeBitsets
    <3> HIDE DEF d
    <3> QED
      BY <3>2, <3>4, <3>5, Zenon
  <2> QED
    BY <2>1, <2>2, Zenon
<1>6. CASE e \in {goto_wait_for_next_block(c), goto_preparing_for_next_round(c)}
  <2>1. e.state \in {wait_for_next_block, prepare_for_round}
    BY <1>1, <1>6, EndFacts
  <2> QED
    BY <1>1, <1>2, <2>1, FreshStage, QuietAdvance, Zenon
<1>7. ASSUME NEW d \in Context,
             NEW s \in {send_and_wait_for_handshakes, wait_for_handshake_bitsets},
             e = [d EXCEPT !.state = s], d.received = c.received,
             d.round = c.round, d.best_bitset = c.best_bitset, s >= c.state
      PROVE  Advances(n)
  <2>1. /\ e.received = c.received /\ e.round = c.round /\ e.best_bitset = c.best_bitset
        /\ e.state = s
    BY <1>7 DEF Context
  <2>2. e.state >= c.state /\ e.state < send_block_template
    BY <1>7, <2>1 DEF send_and_wait_for_handshakes, wait_for_handshake_bitsets,
                      send_block_template
  <2>3. StageOK(n)'
    BY <1>1, <1>4, <2>1, <2>2, EarlyStage, Zenon
  <2> QED
    BY <1>2, <2>3, QuietAdvance
<1> QED
  BY <1>5, <1>6, <1>7, Zenon

\* A message that arrives is queued, dropped or stored.
LEMMA AdvanceHandleMessage ==
    ASSUME IInv, IInv', NEW n \in Nodes, StageOK(n), NEW m \in net, HandleMessage(n, m)
    PROVE  Advances(n)
<1> DEFINE c == context[n]
           e == context'[n]
<1>1. c \in Context /\ e \in Context /\ context \in [Nodes -> Context] /\ c.state \in Int
  BY ContextNext
<1>2. /\ UNCHANGED <<net, locks, produced>> /\ e = Handle(c, m)
      /\ c.state >= wait_for_round /\ c.state <= StageOf(m.type)
  BY <1>1, Zenon DEF HandleMessage
<1>3. m \in Message /\ m.type \in handshake .. signed_block
  BY MessageFields, Zenon DEF IInv, TypeOK
<1>4. StageOf(m.type) \in Int
  BY <1>3, StageOfState DEF send_and_wait_for_handshakes, send_and_wait_for_signed_blocks
<1>5. Collected(c) /\ Complete(c) /\ (c.state >= send_block_template => LockOf(n, c) \in locks)
  BY <1>2, StageNow, Zenon
<1>6. CASE c.state < StageOf(m.type)
  <2>1. e = c \/ e = [c EXCEPT !.queue = @ \cup {m}]
    BY <1>2, <1>6 DEF Handle, Enqueue
  <2> HIDE DEF e
  <2>2. /\ e.state = c.state /\ e.received = c.received /\ e.round = c.round
        /\ e.best_bitset = c.best_bitset /\ e.top = c.top
        /\ e.final_block = c.final_block
    <3>1. CASE e = c
      BY <3>1, Zenon
    <3>2. CASE e = [c EXCEPT !.queue = @ \cup {m}]
      BY <1>1, <3>2, Zenon DEF Context
    <3> QED
      BY <2>1, <3>1, <3>2, Zenon
  <2>3. Collected(e) /\ Complete(e) /\ LockOf(n, e) = LockOf(n, c)
    <3>1. \A type : Stage(e, type) = Stage(c, type) /\ Bitset(e, type) = Bitset(c, type)
      BY <2>2, Zenon DEF Stage, Bitset
    <3>2. Collected(e)
      <4>1. e \in Context /\ e.state >= c.state
        BY <1>1, <2>2 DEF e
      <4> QED
        BY <1>1, <1>5, <2>2, <4>1, CollectedLater, Zenon
    <3>3. Complete(e)
      BY <1>5, <2>2, <3>1, Zenon DEF Complete, Assembly
    <3>4. LockOf(n, e) = LockOf(n, c)
      BY <2>2, Zenon DEF LockOf
    <3> QED
      BY <3>2, <3>3, <3>4
  <2>4. e.state >= send_block_template => LockOf(n, e) \in locks'
    BY <1>2, <1>5, <2>2, <2>3, SMTT(20)
  <2>5. StageOK(n)'
    BY <2>3, <2>4, NextStage, Zenon DEF e
  <2> QED
    BY <1>2, <2>5, QuietAdvance
<1>7. CASE c.state = StageOf(m.type)
  <2>1. e = Receive(c, {m})
    BY <1>1, <1>2, <1>4, <1>7 DEF Handle
  <2>2. /\ Grown(c, e, {m}) /\ e.received = c.received \cup {o \in {m} : Acceptable(c, o)}
    <3>1. /\ OnePerPosition({m}) /\ {m} \in SUBSET Message
          /\ OnePerPosition(c.received) /\ OnePerPosition(c.queue)
      BY <1>3, NodeFacts DEF OnePerPosition
    <3> QED
      BY <1>1, <2>1, <3>1, ReceiveFacts, Zenon
  <2> HIDE DEF e
  <2>3. Taken(c, e, m.type)
    BY <2>2 DEF Taken
  <2>4. Gains(c, e, m.type)
    BY <2>2, <2>3, Zenon DEF Grown, Gains
  <2>5. Collected(e) /\ Complete(e)
    BY <1>1, <1>3, <1>5, <1>7, <2>4, CollectedKept, Zenon
  <2>6. e.state >= send_block_template => LockOf(n, e) \in locks'
    <3>1. LockOf(n, e) = LockOf(n, c) /\ e.state = c.state
      BY <2>4 DEF Gains, LockOf
    <3> QED
      BY <1>2, <1>5, <3>1, Zenon
  <2>7. StageOK(n)'
    BY <2>5, <2>6, NextStage, Zenon DEF e
  <2> QED
    BY <1>2, <2>7, QuietAdvance
<1> QED
  BY <1>1, <1>2, <1>4, <1>6, <1>7

\* The step of send_and_wait_for_handshakes.
LEMMA AdvanceSendAndWaitForHandshakes ==
    ASSUME IInv, IInv', NEW n \in Nodes, StageOK(n), SendAndWaitForHandshakes(n)
    PROVE  Advances(n)
<1> DEFINE c == context[n]
           own == OwnMessage(n, c, handshake, None)
           d == Drain(SendOnce(c, own), handshake)
           M == IF handshake \in c.sent THEN {} ELSE {own}
           e == context'[n]
<1>1. /\ context \in [Nodes -> Context] /\ e \in Context
      /\ c.state = StageOf(handshake) /\ c.state = send_and_wait_for_handshakes
      /\ handshake \in (handshake .. signed_block) \ {handshake_bitset, block_template}
  BY ContextNext, Stages DEF SendAndWaitForHandshakes, send_and_wait_for_handshakes,
         handshake, handshake_bitset, block_template, signed_block
<1>2. Sends(n, c, handshake, d, M) /\ Taken(c, d, handshake)
  BY <1>1, SendingStage, Zenon
<1>3. /\ net' = net \cup d.received /\ UNCHANGED <<locks, produced>>
      /\ e \in {d, [d EXCEPT !.state = send_handshake_bitsets]}
  <2>1. /\ net' = net \cup d.received /\ UNCHANGED <<locks, produced>>
        /\ \/ context' = [context EXCEPT ![n] = d]
           \/ context' = [context EXCEPT ![n] = [d EXCEPT !.state = send_handshake_bitsets]]
    BY Zenon DEF SendAndWaitForHandshakes, Relay
  <2> HIDE DEF d
  <2> QED
    BY <1>1, <2>1
<1> HIDE DEF d, M, e
<1>4. Grown(c, d, M) /\ \A m \in M : m.top = c.top /\ m.round = c.round
  BY <1>2, Zenon DEF Sends
<1>5. d \in Context /\ d.state = c.state
  BY <1>4, SMTT(20) DEF Grown
<1>6. (\A m \in net' \ net : InItsRound(n, m)) /\ Collected(d)
  BY <1>1, <1>2, <1>3, <1>4, StageTakes, Zenon
<1>7. /\ e.received = d.received /\ e.round = d.round /\ e.best_bitset = d.best_bitset
      /\ e.state >= d.state /\ e.state < send_block_template
  <2>1. CASE e = d
    BY <1>1, <1>5, <2>1 DEF send_and_wait_for_handshakes, send_block_template
  <2>2. CASE e = [d EXCEPT !.state = send_handshake_bitsets]
    <3>1. /\ e.received = d.received /\ e.round = d.round /\ e.best_bitset = d.best_bitset
          /\ e.state = send_handshake_bitsets
      BY <1>5, <2>2, StateFacts, AllStates
    <3> QED
      BY <1>1, <1>5, <3>1 DEF send_and_wait_for_handshakes, send_handshake_bitsets,
                              send_block_template
  <2> QED
    BY <1>3, <2>1, <2>2, Zenon
<1>8. StageOK(n)'
  <2>1. context'[n] = e
    BY DEF e
  <2> QED
    BY <1>1, <1>5, <1>6, <1>7, <2>1, EarlyStage, Zenon
<1> QED
  BY <1>3, <1>6, <1>8 DEF Advances

=============================================================================
