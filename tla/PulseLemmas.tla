----------------------------- MODULE PulseLemmas ----------------------------
(***************************************************************************)
(* What the proofs about Pulse have in common: the fields of messages,     *)
(* what storing, queueing and sending a message does to a context, what a  *)
(* step of one node has to satisfy to keep the inductive invariant, and    *)
(* what the stages of a node have collected.                               *)
(***************************************************************************)
EXTENDS Pulse, TLAPS

-----------------------------------------------------------------------------
(* Messages *)

\* The fields of a message, whatever its type.
LEMMA MessageFields ==
    ASSUME NEW m \in Message
    PROVE  /\ m.type \in handshake .. signed_block
           /\ m.top \in Tips
           /\ m.round \in Rounds
           /\ m.pos \in Positions
           /\ m.key \in Nodes
           /\ m.type = handshake_bitset => m.data \in SUBSET Positions
           /\ m.type = block_template => m.data \in BlockTemplate
           /\ m.type = random_value => m.data \in RandomValues
           /\ m.type = signed_block => m.data \in FinalBlock
BY DEF Message, MessageOf, handshake, handshake_bitset, block_template, random_value_hash,
       random_value, signed_block

\* The stage of a type is one of the wait states.
LEMMA StageOfState ==
    ASSUME NEW type \in handshake .. signed_block
    PROVE  /\ StageOf(type) \in send_and_wait_for_handshakes .. send_and_wait_for_signed_blocks
           /\ StageOf(type) \notin {send_handshake_bitsets, send_block_template}
BY DEF StageOf, handshake, handshake_bitset, block_template, random_value_hash, random_value,
       signed_block, send_and_wait_for_handshakes, send_handshake_bitsets,
       wait_for_handshake_bitsets, send_block_template, wait_for_block_template,
       send_and_wait_for_random_value_hashes, send_and_wait_for_random_value,
       send_and_wait_for_signed_blocks

\* A validator finds its position.
LEMMA PositionOfValidator ==
    ASSUME NEW n, NEW c, IsValidator(n, c)
    PROVE  MyPosition(n, c) \in Positions /\ Validator(c, MyPosition(n, c)) = n
BY DEF IsValidator, MyPosition

-----------------------------------------------------------------------------
(* Storing and queueing messages *)

\* d is c after some messages of the queue and of M were stored.
Grown(c, d, M) ==
    /\ d \in Context
    /\ d.state = c.state /\ d.height = c.height /\ d.top = c.top /\ d.round = c.round
    /\ d.queue_for_next_round = c.queue_for_next_round
    /\ d.best_bitset = c.best_bitset
    /\ d.random_value = c.random_value /\ d.final_block = c.final_block
    /\ d.queue \subseteq c.queue
    /\ c.received \subseteq d.received
    /\ d.received \subseteq c.received \cup c.queue \cup M
    /\ OnePerPosition(d.queue)
    /\ OnePerPosition(d.received)
    /\ \A m \in d.received \ c.received : m.type = signed_block => m.data = c.final_block

\* What Receive does.
LEMMA ReceiveFacts ==
    ASSUME NEW c \in Context, NEW M \in SUBSET Message,
           OnePerPosition(c.received), OnePerPosition(c.queue), OnePerPosition(M)
    PROVE  /\ Grown(c, Receive(c, M), M)
           /\ Receive(c, M).sent = c.sent
           /\ Receive(c, M).queue = c.queue
           /\ Receive(c, M).received = c.received \cup {m \in M : Acceptable(c, m)}
<1> DEFINE d == Receive(c, M)
<1>1. /\ d \in Context
      /\ d.received = c.received \cup {m \in M : Acceptable(c, m)}
      /\ d.queue = c.queue /\ d.sent = c.sent
      /\ d.state = c.state /\ d.height = c.height /\ d.top = c.top /\ d.round = c.round
      /\ d.queue_for_next_round = c.queue_for_next_round
      /\ d.best_bitset = c.best_bitset
      /\ d.random_value = c.random_value /\ d.final_block = c.final_block
  BY DEF Receive, Context
<1>2. \A m \in M : Acceptable(c, m) =>
         \A o \in c.received : o.type = m.type => o.pos # m.pos
  BY DEF Acceptable, Bitset, Stage
<1>3. OnePerPosition(d.received)
  BY <1>1, <1>2 DEF OnePerPosition
<1>4. \A m \in d.received \ c.received : m.type = signed_block => m.data = c.final_block
  BY <1>1 DEF Acceptable
<1> HIDE DEF d
<1> QED
  BY <1>1, <1>3, <1>4 DEF Grown, d

\* What Drain does.
LEMMA DrainFacts ==
    ASSUME NEW c \in Context, NEW type,
           OnePerPosition(c.received), OnePerPosition(c.queue)
    PROVE  /\ Grown(c, Drain(c, type), {})
           /\ Drain(c, type).sent = c.sent
           /\ \A m \in Drain(c, type).queue : m.type # type
<1> DEFINE early == {m \in c.queue : m.type = type}
           r == Receive(c, early)
           d == Drain(c, type)
<1>1. early \in SUBSET Message /\ OnePerPosition(early)
  BY DEF Context, OnePerPosition
<1>2. Grown(c, r, early) /\ r.sent = c.sent /\ r.queue = c.queue
  BY <1>1, ReceiveFacts
<1>3. d = [r EXCEPT !.queue = @ \ early]
  BY DEF Drain
<1> HIDE DEF r, d
<1>4. /\ d \in Context
      /\ d.queue = c.queue \ early
      /\ d.received = r.received /\ d.sent = c.sent
      /\ d.state = c.state /\ d.height = c.height /\ d.top = c.top /\ d.round = c.round
      /\ d.queue_for_next_round = c.queue_for_next_round
      /\ d.best_bitset = c.best_bitset
      /\ d.random_value = c.random_value /\ d.final_block = c.final_block
  BY <1>2, <1>3 DEF Grown, Context
<1>5. OnePerPosition(d.queue)
  BY <1>4 DEF OnePerPosition
<1> QED
  BY <1>2, <1>4, <1>5 DEF Grown, d

\* What sending our own message does in the state that collects it.
LEMMA SendOnceFacts ==
    ASSUME NEW c \in Context, NEW m \in Message, c.state = StageOf(m.type),
           OnePerPosition(c.received), OnePerPosition(c.queue)
    PROVE  /\ Grown(c, SendOnce(c, m), IF m.type \in c.sent THEN {} ELSE {m})
           /\ SendOnce(c, m).sent = c.sent \cup {m.type}
           /\ SendOnce(c, m).queue = c.queue
           /\ (m.type = handshake /\ m.type \notin c.sent)
                 => m.pos \in Bitset(SendOnce(c, m), handshake)
<1> m.type \in handshake .. signed_block
  BY MessageFields
<1>1. CASE m.type \in c.sent
  <2>1. SendOnce(c, m) = c
    BY <1>1 DEF SendOnce
  <2> QED
    BY <1>1, <2>1 DEF Grown
<1>2. CASE m.type \notin c.sent
  <2> DEFINE s == [c EXCEPT !.sent = @ \cup {m.type}]
             d == Receive(s, {m})
  <2>1. /\ s \in Context
        /\ s.received = c.received /\ s.queue = c.queue
        /\ s.sent = c.sent \cup {m.type}
        /\ s.state = c.state /\ s.height = c.height /\ s.top = c.top /\ s.round = c.round
        /\ s.queue_for_next_round = c.queue_for_next_round
        /\ s.best_bitset = c.best_bitset
        /\ s.random_value = c.random_value /\ s.final_block = c.final_block
    BY DEF Context
  <2> HIDE DEF s
  <2>2. s.state \in Int /\ ~(s.state < StageOf(m.type))
    BY <2>1, StageOfState DEF Context, null_state, send_and_wait_for_signed_blocks
  <2>3. SendOnce(c, m) = d
    BY <1>2, <2>2 DEF SendOnce, Handle, s
  <2>4. /\ {m} \in SUBSET Message /\ OnePerPosition({m})
        /\ OnePerPosition(s.received) /\ OnePerPosition(s.queue)
    BY <2>1 DEF OnePerPosition
  <2>5. /\ Grown(s, d, {m}) /\ d.sent = s.sent /\ d.queue = s.queue
        /\ d.received = s.received \cup {o \in {m} : Acceptable(s, o)}
    BY <2>1, <2>4, ReceiveFacts, Zenon
  <2> HIDE DEF d
  <2>6. ASSUME m.type = handshake
        PROVE  m.pos \in Bitset(d, handshake)
    <3>1. Acceptable(s, m) \/ m.pos \in Bitset(s, handshake)
      BY <2>6 DEF Acceptable, handshake, handshake_bitset, block_template, random_value,
                  signed_block
    <3> QED
      BY <2>5, <2>6, <3>1 DEF Bitset, Stage
  <2> QED
    BY <1>2, <2>1, <2>3, <2>5, <2>6 DEF Grown
<1> QED
  BY <1>1, <1>2

\* A stage that sends our own message m and takes in the messages that came early.
LEMMA SendAndDrainFacts ==
    ASSUME NEW c \in Context, NEW m \in Message, c.state = StageOf(m.type),
           OnePerPosition(c.received), OnePerPosition(c.queue)
    PROVE  LET d == Drain(SendOnce(c, m), m.type)
           IN  /\ Grown(c, d, IF m.type \in c.sent THEN {} ELSE {m})
               /\ d.sent = c.sent \cup {m.type}
               /\ (m.type = handshake /\ m.type \notin c.sent)
                     => m.pos \in Bitset(d, handshake)
<1> DEFINE s == SendOnce(c, m)
           d == Drain(s, m.type)
           M == IF m.type \in c.sent THEN {} ELSE {m}
<1>1. /\ Grown(c, s, M)
      /\ s.sent = c.sent \cup {m.type}
      /\ s.queue = c.queue
      /\ (m.type = handshake /\ m.type \notin c.sent) => m.pos \in Bitset(s, handshake)
  BY SendOnceFacts
<1> HIDE DEF s, M
<1>2. Grown(s, d, {}) /\ d.sent = s.sent
  BY <1>1, DrainFacts DEF Grown
<1> HIDE DEF d
<1>3. Grown(c, d, M)
  BY <1>1, <1>2 DEF Grown
<1>4. m.pos \in Bitset(s, handshake) => m.pos \in Bitset(d, handshake)
  BY <1>2 DEF Grown, Bitset, Stage
<1> QED
  BY <1>1, <1>2, <1>3, <1>4 DEF d, s, M

\* What d has stored and c has not is of one type, and was acceptable to c.
Taken(c, d, type) == \A m \in d.received \ c.received : m.type = type /\ Acceptable(c, m)

\* A message that is acceptable to a context that holds more is acceptable.
LEMMA AcceptableToLess ==
    ASSUME NEW c, NEW d, NEW m, Acceptable(d, m),
           d.state = c.state, d.round = c.round, d.best_bitset = c.best_bitset,
           d.final_block = c.final_block, c.received \subseteq d.received
    PROVE  Acceptable(c, m)
<1>1. \A type : Stage(c, type) \subseteq Stage(d, type)
  BY DEF Stage
<1>2. m.pos \notin Bitset(c, m.type)
  <2>1. m.pos \notin Bitset(d, m.type)
    BY Zenon DEF Acceptable
  <2> QED
    BY <1>1, <2>1 DEF Bitset
<1> QED
  BY <1>1, <1>2, Zenon DEF Acceptable

\* Drain takes in messages of the type it is asked for.
LEMMA DrainTakes ==
    ASSUME NEW c \in Context, NEW type
    PROVE  Taken(c, Drain(c, type), type)
<1> DEFINE early == {m \in c.queue : m.type = type}
           r == Receive(c, early)
<1>1. r \in Context /\ r.received = c.received \cup {m \in early : Acceptable(c, m)}
  BY DEF Receive, Context
<1>2. Drain(c, type) = [r EXCEPT !.queue = @ \ early]
  BY DEF Drain
<1> HIDE DEF r
<1>3. Drain(c, type).received = r.received
  BY <1>1, <1>2 DEF Context
<1> QED
  BY <1>1, <1>3 DEF Taken

\* A stage that sends takes in its own message and those of its type that came early.
LEMMA SendAndDrainTakes ==
    ASSUME NEW c \in Context, NEW m \in Message, c.state = StageOf(m.type),
           OnePerPosition(c.received), OnePerPosition(c.queue)
    PROVE  Taken(c, Drain(SendOnce(c, m), m.type), m.type)
<1> DEFINE s == SendOnce(c, m)
           d == Drain(s, m.type)
<1>1. Grown(c, s, IF m.type \in c.sent THEN {} ELSE {m})
  BY SendOnceFacts
<1>2. Taken(c, s, m.type)
  <2>1. CASE m.type \in c.sent
    BY <2>1 DEF SendOnce, Taken
  <2>2. CASE m.type \notin c.sent
    <3> DEFINE x == [c EXCEPT !.sent = @ \cup {m.type}]
    <3>1. /\ x \in Context /\ x.received = c.received /\ x.state = c.state
          /\ x.round = c.round /\ x.best_bitset = c.best_bitset
          /\ x.final_block = c.final_block
      BY MessageFields DEF Context
    <3>2. x.state \in Int /\ ~(x.state < StageOf(m.type))
      BY <3>1, MessageFields, StageOfState
         DEF Context, null_state, send_and_wait_for_signed_blocks
    <3>3. s = Receive(x, {m})
      <4> HIDE DEF x
      <4> QED
        BY <2>2, <3>2 DEF SendOnce, Handle, x
    <3> HIDE DEF x
    <3>4. s.received = x.received \cup {o \in {m} : Acceptable(x, o)}
      BY <3>1, <3>3 DEF Receive, Context
    <3>5. ASSUME Acceptable(x, m) PROVE Acceptable(c, m)
      BY <3>1, <3>5, AcceptableToLess
    <3> HIDE DEF s
    <3> QED
      BY <3>1, <3>4, <3>5 DEF Taken
  <2> QED
    BY <2>1, <2>2
<1> HIDE DEF s
<1>3. s \in Context
  BY <1>1 DEF Grown
<1>4. Taken(s, d, m.type)
  BY <1>3, DrainTakes
<1> HIDE DEF d
<1>5. \A o : Acceptable(s, o) => Acceptable(c, o)
  BY <1>1, AcceptableToLess, Zenon DEF Grown
<1> QED
  BY <1>2, <1>4, <1>5 DEF Taken, d, s

\* A received message is queued, stored or dropped.
LEMMA HandleFacts ==
    ASSUME NEW c \in Context, NEW m \in Message,
           OnePerPosition(c.received), OnePerPosition(c.queue)
    PROVE  LET d == Handle(c, m)
           IN  /\ d \in Context
               /\ d.state = c.state /\ d.height = c.height /\ d.top = c.top
               /\ d.round = c.round /\ d.sent = c.sent
               /\ d.queue_for_next_round = c.queue_for_next_round
               /\ d.random_value = c.random_value /\ d.final_block = c.final_block
               /\ c.queue \subseteq d.queue /\ d.queue \subseteq c.queue \cup {m}
               /\ c.received \subseteq d.received /\ d.received \subseteq c.received \cup {m}
               /\ OnePerPosition(d.queue) /\ OnePerPosition(d.received)
               /\ c.state < StageOf(m.type) => d.received = c.received
               /\ \A o \in d.received \ c.received :
                     o.type = signed_block => o.data = c.final_block
<1> DEFINE d == Handle(c, m)
<1>1. CASE c.state < StageOf(m.type)
  <2>1. d = Enqueue(c, m)
    BY <1>1 DEF Handle
  <2>2. CASE \E q \in c.queue : q.type = m.type /\ q.pos = m.pos
    BY <2>1, <2>2 DEF Enqueue
  <2>3. CASE ~ \E q \in c.queue : q.type = m.type /\ q.pos = m.pos
    <3>1. d = [c EXCEPT !.queue = @ \cup {m}]
      BY <2>1, <2>3 DEF Enqueue
    <3>2. OnePerPosition(c.queue \cup {m})
      BY <2>3 DEF OnePerPosition
    <3> HIDE DEF d
    <3> QED
      BY <3>1, <3>2 DEF Context, d
  <2> QED
    BY <2>2, <2>3
<1>2. CASE ~(c.state < StageOf(m.type))
  <2>1. d = Receive(c, {m})
    BY <1>2 DEF Handle
  <2>2. OnePerPosition({m})
    BY DEF OnePerPosition
  <2>3. Grown(c, d, {m}) /\ d.sent = c.sent /\ d.queue = c.queue
        /\ d.received = c.received \cup {o \in {m} : Acceptable(c, o)}
    BY <2>1, <2>2, ReceiveFacts
  <2> HIDE DEF d
  <2> QED
    BY <1>2, <2>3 DEF Grown, d
<1> QED
  BY <1>1, <1>2

-----------------------------------------------------------------------------
(* A step of one node *)

\* What a step of node n has to show: only its own context and chain change, what it
\* adds to the network it has signed itself, and its part of IInv holds again.
LocalStep(n) ==
    /\ context' \in [Nodes -> Context]
    /\ chain' \in [Nodes -> Tips]
    /\ \A k \in Nodes \ {n} : context'[k] = context[k] /\ chain'[k] = chain[k]
    /\ net \subseteq net'
    /\ \A m \in net' \ net : m \in Message /\ m.key = n /\ MessageOK(m)
    /\ HoldingOK(n)'
    /\ RoleOK(n)'
    /\ SignaturesOK(n)'
    /\ n \notin Unsteady => SteadyOK(n)'
    /\ locks' \subseteq Lock
    /\ \A l \in locks' \ locks : LockOK(l)'
    /\ produced' \subseteq Produced
    /\ \A b \in produced' \ produced : ProducedOK(b)'

\* Node n is within its round and goes from context[n] to e: it stays in the round,
\* or the round has failed, or the ceremony is over.
Goes(n, e) ==
    /\ context[n].state >= wait_for_round
    /\ context' = [context EXCEPT ![n] = e]
    /\ HeightOf[chain[n]] <= HeightOf[chain'[n]] /\ chain'[n] \in Tips
    /\ e.top = context[n].top /\ e.height = context[n].height
    /\ \/ e.state = wait_for_next_block /\ e.queue = {} /\ e.received = {}
       \/ /\ e.state = prepare_for_round /\ e.queue_for_next_round
          /\ e.round = context[n].round
       \/ /\ e.state >= context[n].state /\ e.round = context[n].round
          /\ context[n].sent \subseteq e.sent

\* Node n signs the messages of M (at most one), which it has not signed yet.
Signs(n, e, M) ==
    /\ context[n].state = wait_for_round => M = {}
    /\ \A m \in M : /\ m.key = n /\ m.top = context[n].top /\ m.round = context[n].round
                    /\ MessageOK(m) /\ SignatureCheck(context[n], m)
                    /\ ~SignedInRound(context[n], m)
                    /\ e.state >= context[n].state => SignedInRound(e, m)
    /\ \A m, o \in M : m = o

\* Node n holds what it held and messages of M and R, and relays what it stores.
Holds(n, e, M, R) ==
    /\ net \subseteq net' /\ net' \subseteq net \cup context[n].queue \cup M
    /\ \A m \in R : SignatureCheck(context[n], m)
    /\ OnePerPosition(e.queue) /\ OnePerPosition(e.received)
    /\ e.queue \cup e.received
          \subseteq context[n].queue \cup context[n].received \cup M \cup R
    /\ e.received \subseteq net'
    /\ \A m \in e.queue \ net' :
          /\ e.state = wait_for_handshake_bitsets /\ m.type = handshake_bitset
          /\ m.key = n /\ m.top = context[n].top /\ m.round = context[n].round

\* The signatures node n stores are on its final block, which is set once.
Collects(n, e) ==
    /\ e.state >= context[n].state =>
          \/ e.final_block = context[n].final_block
          \/ /\ context[n].state = send_and_wait_for_random_value
             /\ e.state = send_and_wait_for_signed_blocks
    /\ \A m \in e.received \ context[n].received :
          m.type = signed_block => m.data = context[n].final_block

StepInRound(n, e, M, R) ==
    Goes(n, e) /\ Signs(n, e, M) /\ Holds(n, e, M, R) /\ Collects(n, e)

\* What such a step preserves.
LEMMA NodeStep ==
    ASSUME IInv, NEW n \in Nodes, NEW e \in Context,
           NEW M \in SUBSET Message, NEW R \in SUBSET net, StepInRound(n, e, M, R)
    PROVE  /\ \A m \in net' \ net : m \in Message /\ m.key = n /\ MessageOK(m)
           /\ HoldingOK(n)'
           /\ SignaturesOK(n)'
           /\ n \notin Unsteady => SteadyOK(n)'
<1> DEFINE c == context[n]
<1>1. c \in Context /\ HoldingOK(n) /\ context'[n] = e
  BY DEF IInv, TypeOK, StepInRound, Goes
<1>2. \A m \in c.queue \ net : m.key = n
  BY <1>1 DEF HoldingOK
<1>3. \A m \in c.queue \cup c.received \cup M \cup R :
         m \in Message /\ SignatureCheck(c, m) /\ MessageOK(m)
  BY <1>1, Zenon DEF HoldingOK, Context, IInv, TypeOK, StepInRound, Signs, Holds
<1>4. c.received \subseteq net
  BY <1>1 DEF HoldingOK
<1>5. \A m \in net' \ net : m \in Message /\ m.key = n /\ MessageOK(m)
  <2>1. /\ net' \subseteq net \cup c.queue \cup M /\ \A m \in M : m.key = n
    BY DEF StepInRound, Holds, Signs
  <2> QED
    BY <1>2, <1>3, <2>1
<1>6. HoldingOK(n)'
  <2>1. /\ OnePerPosition(e.queue) /\ OnePerPosition(e.received)
        /\ e.queue \cup e.received \subseteq c.queue \cup c.received \cup M \cup R
        /\ e.received \subseteq net'
        /\ \A m \in e.queue \ net' :
              /\ e.state = wait_for_handshake_bitsets /\ m.type = handshake_bitset
              /\ m.key = n /\ m.top = c.top /\ m.round = c.round
    BY DEF StepInRound, Holds
  <2>2. e.top = c.top /\ ((e.queue = {} /\ e.received = {}) \/ e.round = c.round)
    BY DEF StepInRound, Goes
  <2>3. CASE e.queue = {} /\ e.received = {}
    BY <1>1, <2>3 DEF HoldingOK, OnePerPosition
  <2>4. CASE e.round = c.round
    <3>1. \A m \in e.queue \cup e.received : SignatureCheck(e, m) /\ MessageOK(m)
      BY <1>3, <2>1, <2>2, <2>4 DEF SignatureCheck, Validator
    <3> QED
      BY <1>1, <2>1, <2>2, <2>4, <3>1 DEF HoldingOK
  <2> QED
    BY <2>2, <2>3, <2>4
<1>7. ASSUME n \notin Unsteady
      PROVE  SteadyOK(n)'
  <2>1. SteadyOK(n)
    BY <1>7 DEF IInv
  <2>2. SignedBy(n)' \subseteq SignedBy(n) \cup M
    BY <1>1, <1>4 DEF SignedBy, StepInRound, Holds
  <2>3. c.height <= HeightOf[chain[n]]
    BY <2>1 DEF SteadyOK
  <2>4. c.state \in Int /\ c.round \in Int /\ c.height \in Int /\ e.state \in Int
    BY <1>1, SizeAssumption DEF Context, Rounds, null_state, send_and_wait_for_signed_blocks
  <2>5. HeightOf[chain[n]] \in Int /\ HeightOf[chain'[n]] \in Int
    BY ChainAssumption DEF IInv, TypeOK, StepInRound, Goes
  <2>6. e.height <= HeightOf[chain'[n]]
    BY <2>3, <2>4, <2>5 DEF StepInRound, Goes
  <2> HIDE DEF c
  <2>7. /\ c.state >= wait_for_round /\ e.top = c.top /\ e.height = c.height
        /\ \/ e.state = wait_for_next_block
           \/ /\ e.state = prepare_for_round /\ e.queue_for_next_round /\ e.round = c.round
           \/ e.state >= c.state /\ e.round = c.round /\ c.sent \subseteq e.sent
    BY DEF StepInRound, Goes, c
  <2>8. /\ c.state = wait_for_round => M = {}
        /\ \A m \in M : /\ m.key = n /\ m.top = c.top /\ m.round = c.round
                        /\ ~SignedInRound(c, m)
                        /\ e.state >= c.state => SignedInRound(e, m)
        /\ \A m, o \in M : m = o
    BY DEF StepInRound, Signs, c
  <2>9. M # {} => HeightOf[c.top] = c.height
    <3>1. RoleOK(n) /\ (M # {} => c.top \in Tips)
      BY <1>3, <2>8, MessageFields DEF IInv
    <3> QED
      BY <3>1, NoneAssumption DEF RoleOK, c
  <2>10. \A m \in SignedBy(n) : m.round \in Int
    BY <1>1, MessageFields, SizeAssumption DEF SignedBy, IInv, TypeOK, Context, Rounds, c
  <2>11. ASSUME NEW m \in SignedBy(n) \cup M
         PROVE  /\ HeightOf[m.top] <= c.height
                /\ m.round \in Int
                /\ HeightOf[m.top] = c.height =>
                      /\ m.top = c.top
                      /\ m.round <= c.round
                      /\ m.round = c.round =>
                            c.state > wait_for_round /\ (m \in M \/ SignedInRound(c, m))
    <3>1. CASE m \in SignedBy(n)
      BY <2>1, <2>4, <2>7, <2>10, <3>1 DEF SteadyOK, prepare_for_round, wait_for_round, c
    <3>2. CASE m \in M
      BY <2>4, <2>7, <2>8, <2>9, <3>2 DEF wait_for_round
    <3> QED
      BY <2>11, <3>1, <3>2
  <2>12. ASSUME NEW m \in SignedBy(n) \cup M, NEW o \in SignedBy(n) \cup M,
                m.type = o.type, m.top = o.top, m.round = o.round
         PROVE  m = o
    <3>1. CASE m \in SignedBy(n) /\ o \in SignedBy(n)
      BY <2>1, <2>12, <3>1 DEF SteadyOK
    <3>2. CASE m \in M /\ o \in M
      BY <2>8, <3>2
    <3>3. ASSUME NEW x \in SignedBy(n) \ M, NEW y \in M,
                 x.type = y.type, x.top = y.top, x.round = y.round
          PROVE  FALSE
      <4>1. HeightOf[x.top] = c.height /\ x.round = c.round
        BY <2>8, <2>9, <3>3
      <4>2. SignedInRound(c, x) /\ ~SignedInRound(c, y)
        BY <2>8, <2>11, <4>1
      <4> QED
        BY <3>3, <4>2 DEF SignedInRound
    <3> QED
      BY <2>12, <3>1, <3>2, <3>3
  <2>13. ASSUME NEW m \in SignedBy(n) \cup M, e.state >= c.state, c.sent \subseteq e.sent,
                SignedInRound(c, m)
         PROVE  SignedInRound(e, m)
    BY <2>4, <2>13 DEF SignedInRound, wait_for_handshake_bitsets
  <2>14. ASSUME NEW m \in SignedBy(n)'
         PROVE  /\ HeightOf[m.top] <= e.height
                /\ HeightOf[m.top] = e.height =>
                      /\ m.top = e.top
                      /\ e.state = prepare_for_round =>
                            e.queue_for_next_round /\ m.round <= e.round
                      /\ e.state = wait_for_round => m.round < e.round
                      /\ e.state > wait_for_round =>
                            /\ m.round <= e.round
                            /\ m.round = e.round => SignedInRound(e, m)
    <3>1. m \in SignedBy(n) \cup M
      BY <2>2
    <3> QED
      BY <2>4, <2>7, <2>8, <2>11, <2>13, <3>1
         DEF wait_for_next_block, prepare_for_round, wait_for_round
  <2> QED
    BY <1>1, <2>2, <2>6, <2>12, <2>14 DEF SteadyOK, SignedInRound
<1>8. SignaturesOK(n)'
  <2>1. SignaturesOK(n) /\ c.state \in Int /\ e.state \in Int
    BY <1>1 DEF IInv, Context, null_state, send_and_wait_for_signed_blocks
  <2>2. CASE e.state < wait_for_round
    <3>1. /\ ~(e.state >= wait_for_round)
          /\ e.state \notin wait_for_round .. send_and_wait_for_random_value
      BY <2>1, <2>2 DEF wait_for_round, send_and_wait_for_random_value
    <3> QED
      BY <1>1, <3>1, Zenon DEF SignaturesOK
  <2>3. CASE e.state >= wait_for_round
    <3>1. /\ e.state >= c.state
          /\ \/ e.final_block = c.final_block
             \/ /\ c.state = send_and_wait_for_random_value
                /\ e.state = send_and_wait_for_signed_blocks
          /\ \A m \in e.received \ c.received : m.type = signed_block => m.data = c.final_block
      <4>1. e.state >= c.state /\ c.state >= wait_for_round
        BY <2>1, <2>3 DEF StepInRound, Goes, wait_for_next_block, prepare_for_round,
                          wait_for_round
      <4> QED
        BY <4>1 DEF StepInRound, Collects
    <3>2. \A m \in Stage(e, signed_block) : m.data = c.final_block /\ m.data \in FinalBlock
      <4>1. \A m \in Stage(e, signed_block) : m \in Message /\ m.type = signed_block
        BY DEF Stage, Context
      <4>2. \A m \in Stage(e, signed_block) : m.data = c.final_block
        <5>1. c.state >= wait_for_round
          BY DEF StepInRound, Goes
        <5> QED
          BY <2>1, <3>1, <5>1 DEF SignaturesOK, Stage
      <4> QED
        BY <4>1, <4>2, MessageFields
    <3>3. CASE e.final_block = c.final_block
      <4>1. e.state \in wait_for_round .. send_and_wait_for_random_value
               => c.state \in wait_for_round .. send_and_wait_for_random_value
        <5>1. c.state >= wait_for_round
          BY DEF StepInRound, Goes
        <5> QED
          BY <2>1, <3>1, <5>1 DEF wait_for_round, send_and_wait_for_random_value
      <4> QED
        BY <1>1, <2>1, <3>2, <3>3, <4>1 DEF SignaturesOK, Stage
    <3>4. CASE /\ c.state = send_and_wait_for_random_value
               /\ e.state = send_and_wait_for_signed_blocks
      <4>1. c.final_block = None
        BY <2>1, <3>4 DEF SignaturesOK, wait_for_round, send_and_wait_for_random_value
      <4>2. Stage(e, signed_block) = {}
        BY <3>2, <4>1, NoneAssumption
      <4>3. ~(e.state \in wait_for_round .. send_and_wait_for_random_value)
        BY <3>4 DEF wait_for_round, send_and_wait_for_random_value,
                    send_and_wait_for_signed_blocks
      <4> QED
        BY <1>1, <4>2, <4>3 DEF SignaturesOK, Stage
    <3> QED
      BY <3>1, <3>3, <3>4
  <2> QED
    BY <2>1, <2>2, <2>3 DEF wait_for_round
<1> QED
  BY <1>5, <1>6, <1>7, <1>8

\* The state of a context is a number.
LEMMA StateOfContext ==
    ASSUME NEW e \in Context
    PROVE  e.state \in Int
BY DEF Context, null_state, send_and_wait_for_signed_blocks

\* A node in a stage of the ceremony is past wait_for_round.
LEMMA InStage ==
    ASSUME IInv, NEW n \in Nodes, context[n].state >= send_and_wait_for_handshakes
    PROVE  /\ context[n] \in Context /\ context[n].received \subseteq net
           /\ context[n].state >= wait_for_round /\ context[n].state # wait_for_round
<1>1. context[n] \in Context /\ context[n].received \subseteq net
  BY DEF IInv, TypeOK, HoldingOK
<1>2. context[n].state \in Int
  BY <1>1, StateOfContext
<1> QED
  BY <1>1, <1>2 DEF wait_for_round, send_and_wait_for_handshakes

\* A step of a wait stage, from context[n] through d, in which the messages of M are
\* signed, to e: the next state of the ceremony, a failed round or the end.
LEMMA StageStep ==
    ASSUME IInv, NEW n \in Nodes, NEW d, NEW e \in Context, NEW M \in SUBSET Message,
           context[n].state >= send_and_wait_for_handshakes,
           Grown(context[n], d, M),
           d.queue \subseteq net,
           context[n].sent \subseteq d.sent,
           \A m \in M : /\ m.key = n /\ m.top = context[n].top /\ m.round = context[n].round
                        /\ MessageOK(m) /\ SignatureCheck(context[n], m)
                        /\ m.type \notin context[n].sent /\ m.type \in d.sent
                        /\ m.type \notin {handshake_bitset, block_template},
           \A m, o \in M : m = o,
           e.top = context[n].top, e.height = context[n].height,
           \/ /\ e.state = wait_for_next_block
              /\ e.queue = {} /\ e.received = {}
           \/ /\ e.state = prepare_for_round /\ e.queue_for_next_round
              /\ e.round = d.round /\ e.queue = d.queue /\ e.received = d.received
           \/ /\ e.state >= context[n].state /\ e.sent = d.sent
              /\ e.round = d.round /\ e.queue = d.queue /\ e.received = d.received
              /\ \/ e.final_block = d.final_block
                 \/ /\ context[n].state = send_and_wait_for_random_value
                    /\ e.state = send_and_wait_for_signed_blocks,
           context' = [context EXCEPT ![n] = e],
           net' = net \cup d.received,
           HeightOf[chain[n]] <= HeightOf[chain'[n]],
           chain'[n] \in Tips
    PROVE  /\ \A m \in net' \ net : m \in Message /\ m.key = n /\ MessageOK(m)
           /\ HoldingOK(n)'
           /\ SignaturesOK(n)'
           /\ n \notin Unsteady => SteadyOK(n)'
<1> DEFINE c == context[n]
           R == {}
<1>1. /\ c \in Context /\ c.received \subseteq net /\ c.state \in Int /\ e.state \in Int
      /\ c.state >= wait_for_round /\ c.state # wait_for_round
  BY InStage, StateOfContext, Zenon
<1>2. c.state >= wait_for_round /\ c.state # wait_for_round
  BY <1>1, Zenon
<1>3. \A m \in M : ~SignedInRound(c, m) /\ (e.sent = d.sent => SignedInRound(e, m))
  BY DEF SignedInRound
<1>4. /\ OnePerPosition(e.queue) /\ OnePerPosition(e.received)
      /\ e.queue \subseteq d.queue /\ e.received \subseteq d.received
  BY DEF Grown, OnePerPosition
<1>5. /\ net \subseteq net' /\ net' \subseteq net \cup c.queue \cup M
      /\ e.queue \cup e.received \subseteq c.queue \cup c.received \cup M \cup R
      /\ e.received \subseteq net' /\ e.queue \subseteq net'
  BY <1>1, <1>4 DEF Grown
<1>6. /\ d.round = c.round /\ d.final_block = c.final_block
      /\ \A m \in d.received \ c.received : m.type = signed_block => m.data = c.final_block
  BY Zenon DEF Grown
<1>7. e.state >= c.state => /\ e.sent = d.sent
                           /\ \/ e.final_block = d.final_block
                              \/ /\ c.state = send_and_wait_for_random_value
                                 /\ e.state = send_and_wait_for_signed_blocks
  BY <1>1 DEF wait_for_next_block, prepare_for_round, send_and_wait_for_handshakes
<1>8. Goes(n, e)
  BY <1>2, <1>6, Zenon DEF Goes
<1>9. Signs(n, e, M)
  BY <1>2, <1>3, <1>7, Zenon DEF Signs
<1>10. Holds(n, e, M, R)
  BY <1>4, <1>5 DEF Holds
<1>11. Collects(n, e)
  BY <1>4, <1>6, <1>7 DEF Collects
<1>12. StepInRound(n, e, M, R) /\ R \in SUBSET net
  BY <1>8, <1>9, <1>10, <1>11 DEF StepInRound
<1> HIDE DEF R
<1> QED
  BY <1>12, NodeStep

-----------------------------------------------------------------------------
(* The wait stages *)

\* The data node n puts in a message of a type.
DataOf(n, c, type, data) ==
    \/ type = handshake /\ data = None
    \/ type = handshake_bitset /\ data \in SUBSET Positions /\ MyPosition(n, c) \in data
    \/ type = random_value_hash /\ data \in {Hash(v) : v \in RandomValues}
    \/ type = random_value /\ data \in RandomValues
    \/ type = signed_block /\ data \in FinalBlock

\* m is a message that node n may sign in context c.
Owns(n, c, type, data, m) ==
    /\ m \in Message
    /\ m.type = type /\ m.key = n /\ m.top = c.top /\ m.round = c.round
    /\ m.pos = MyPosition(n, c) /\ m.data = data
    /\ SignatureCheck(c, m)
    /\ MessageOK(m)

\* The messages a validator makes are its own.
LEMMA OwnMessageFacts ==
    ASSUME NEW n \in Nodes, NEW c \in Context, c.top \in Tips, IsValidator(n, c),
           NEW type \in (handshake .. signed_block) \ {block_template}, NEW data,
           DataOf(n, c, type, data)
    PROVE  Owns(n, c, type, data, OwnMessage(n, c, type, data))
<1> DEFINE m == OwnMessage(n, c, type, data)
<1>1. MyPosition(n, c) \in Positions /\ Validator(c, MyPosition(n, c)) = n
  BY PositionOfValidator
<1>2. /\ m.type = type /\ m.key = n /\ m.top = c.top /\ m.round = c.round
      /\ m.pos = MyPosition(n, c) /\ m.data = data
  BY DEF OwnMessage
<1>3. c.round \in Rounds
  BY DEF Context
<1>4. m \in Message
  BY <1>1, <1>3, Zenon DEF DataOf, OwnMessage, Message, MessageOf
<1> HIDE DEF m
<1>5. m.type # block_template /\ m.pos \in Positions /\ Validator(c, m.pos) = n
  BY <1>1, <1>2, Zenon
<1>6. SignatureCheck(c, m)
  BY <1>2, <1>5, Zenon DEF SignatureCheck
<1>7. m.type = handshake_bitset => m.pos \in m.data
  BY <1>2 DEF DataOf, handshake, handshake_bitset, random_value_hash, random_value, signed_block
<1>8. MessageOK(m)
  BY <1>2, <1>5, <1>7 DEF MessageOK, Validator
<1> QED
  BY <1>2, <1>4, <1>6, <1>8, Zenon DEF m, Owns

\* What IInv says of one node.
LEMMA NodeFacts ==
    ASSUME IInv, NEW n \in Nodes
    PROVE  /\ context \in [Nodes -> Context] /\ chain \in [Nodes -> Tips]
           /\ context[n] \in Context /\ chain[n] \in Tips
           /\ context[n].state \in Int /\ context[n].round \in Int
           /\ HeightOf[chain[n]] \in Int
           /\ net \subseteq Message /\ locks \subseteq Lock /\ produced \subseteq Produced
           /\ HoldingOK(n) /\ RoleOK(n)
           /\ OnePerPosition(context[n].queue) /\ OnePerPosition(context[n].received)
           /\ context[n].received \subseteq net
           /\ context[n].state # wait_for_handshake_bitsets => context[n].queue \subseteq net
           /\ context[n].state > wait_for_next_block => context[n].top \in Tips
<1>1. context[n] \in Context /\ chain[n] \in Tips
  BY DEF IInv, TypeOK
<1>2. context[n].state \in Int /\ context[n].round \in Int
  BY <1>1, SizeAssumption DEF Context, Rounds, null_state, send_and_wait_for_signed_blocks
<1>3. HeightOf[chain[n]] \in Int
  BY <1>1, ChainAssumption
<1> QED
  BY <1>1, <1>2, <1>3, Zenon DEF IInv, TypeOK, HoldingOK, RoleOK

\* In context c, node n has signed the messages of M, at most one of the given type,
\* and has become d.
Sends(n, c, type, d, M) ==
    /\ M \in SUBSET Message
    /\ Grown(c, d, M)
    /\ d.sent = c.sent \cup {type}
    /\ d.queue \subseteq net
    /\ \A m \in M :
          /\ m.key = n /\ m.top = c.top /\ m.round = c.round
          /\ MessageOK(m) /\ SignatureCheck(c, m)
          /\ m.type \notin c.sent /\ m.type \in d.sent
          /\ m.type \notin {handshake_bitset, block_template}
    /\ \A m, o \in M : m = o

\* A stage that sends: its message and what it takes in.
LEMMA SendingStage ==
    ASSUME IInv, NEW n \in Nodes,
           NEW type \in (handshake .. signed_block) \ {handshake_bitset, block_template},
           NEW data,
           context[n].state = StageOf(type),
           \/ type = handshake /\ data = None
           \/ type = random_value_hash /\ data \in {Hash(v) : v \in RandomValues}
           \/ type = random_value /\ data \in RandomValues
           \/ type = signed_block /\ data \in FinalBlock
    PROVE  LET own == OwnMessage(n, context[n], type, data)
               d == Drain(SendOnce(context[n], own), type)
               M == IF type \in context[n].sent THEN {} ELSE {own}
           IN  /\ Sends(n, context[n], type, d, M)
               /\ Taken(context[n], d, type)
               /\ type = handshake => MyPosition(n, context[n]) \in Bitset(d, handshake)
<1> DEFINE c == context[n]
           own == OwnMessage(n, c, type, data)
           d == Drain(SendOnce(c, own), type)
           M == IF type \in c.sent THEN {} ELSE {own}
<1>1. c \in Context /\ RoleOK(n) /\ OnePerPosition(c.queue) /\ OnePerPosition(c.received)
  BY NodeFacts
<1>2. /\ c.state # wait_for_handshake_bitsets
      /\ c.state > wait_for_next_block
      /\ IsValidator(n, c)
  <2>1. \/ c.state = send_and_wait_for_handshakes
        \/ c.state >= wait_for_block_template
    BY DEF StageOf, handshake, handshake_bitset, block_template, random_value_hash,
           random_value, signed_block, wait_for_block_template,
           send_and_wait_for_random_value_hashes, send_and_wait_for_random_value,
           send_and_wait_for_signed_blocks
  <2>2. c.state \in Int
    BY NodeFacts
  <2>3. c.state # wait_for_handshake_bitsets /\ c.state > wait_for_next_block
    BY <2>1, <2>2 DEF wait_for_next_block, wait_for_handshake_bitsets,
       send_and_wait_for_handshakes, wait_for_block_template
  <2>4. IsValidator(n, c)
    BY <1>1, <2>1, Zenon DEF RoleOK
  <2> QED
    BY <2>3, <2>4, Zenon
<1>3. c.queue \subseteq net /\ c.top \in Tips
  BY <1>2, NodeFacts
<1>4. /\ own \in Message
      /\ own.type = type /\ own.key = n /\ own.top = c.top /\ own.round = c.round
      /\ own.pos = MyPosition(n, c)
      /\ SignatureCheck(c, own) /\ MessageOK(own)
  <2>1. type \in (handshake .. signed_block) \ {block_template} /\ DataOf(n, c, type, data)
    BY Zenon DEF DataOf
  <2>2. Owns(n, c, type, data, own)
    BY <1>1, <1>2, <1>3, <2>1, OwnMessageFacts, Zenon
  <2> HIDE DEF own
  <2> QED
    BY <2>2, Zenon DEF Owns
<1> HIDE DEF own
<1>5. /\ Grown(c, d, M)
      /\ d.sent = c.sent \cup {type}
      /\ (type = handshake /\ type \notin c.sent) => own.pos \in Bitset(d, handshake)
  BY <1>1, <1>4, SendAndDrainFacts, Zenon
<1>10. Taken(c, d, type)
  BY <1>1, <1>4, SendAndDrainTakes, Zenon
<1> HIDE DEF d
<1>6. d.queue \subseteq net
  BY <1>3, <1>5, Zenon DEF Grown
<1>7. type = handshake => MyPosition(n, c) \in Bitset(d, handshake)
  <2>1. (type = handshake /\ type \in c.sent) => MyPosition(n, c) \in Bitset(c, handshake)
    <3>1. type = handshake => c.state = send_and_wait_for_handshakes
      BY DEF StageOf, handshake, handshake_bitset, block_template, random_value_hash,
             random_value, signed_block
    <3> QED
      BY <1>1, <3>1 DEF RoleOK
  <2>2. Bitset(c, handshake) \subseteq Bitset(d, handshake)
    BY <1>5 DEF Grown, Bitset, Stage
  <2> QED
    BY <1>4, <1>5, <2>1, <2>2
<1>8. \A m \in M : /\ m.key = n /\ m.top = c.top /\ m.round = c.round
                   /\ MessageOK(m) /\ SignatureCheck(c, m)
                   /\ m.type \notin c.sent /\ m.type \in d.sent
                   /\ m.type \notin {handshake_bitset, block_template}
  BY <1>4, <1>5
<1>9. Sends(n, c, type, d, M)
  <2>1. M \in SUBSET Message /\ \A m, o \in M : m = o
    BY <1>4
  <2> HIDE DEF M
  <2> QED
    BY <1>5, <1>6, <1>8, <2>1, Zenon DEF Sends
<1> QED
  BY <1>7, <1>9, <1>10, Zenon DEF own, d

\* The updates that set queue_for_next_round, for either value.
LEMMA QueueingContext ==
    ASSUME NEW c \in Context, NEW b \in BOOLEAN, NEW r \in Rounds,
           NEW s \in null_state .. send_and_wait_for_signed_blocks
    PROVE  /\ [c EXCEPT !.state = s, !.queue_for_next_round = b] \in Context
           /\ [c EXCEPT !.queue_for_next_round = b, !.round = r, !.queue = {},
                         !.received = {}, !.sent = {}, !.best_bitset = {},
                         !.random_value = None, !.final_block = None] \in Context
BY Zenon DEF Context

\* A failed round, and the end of a ceremony.
LEMMA EndFacts ==
    ASSUME NEW c \in Context
    PROVE  /\ LET g == goto_preparing_for_next_round(c)
              IN  /\ g \in Context
                  /\ g.state = prepare_for_round /\ g.queue_for_next_round
                  /\ g.round = c.round /\ g.top = c.top /\ g.height = c.height
                  /\ g.queue = c.queue /\ g.received = c.received
           /\ LET g == goto_wait_for_next_block(c)
              IN  /\ g \in Context
                  /\ g.state = wait_for_next_block
                  /\ g.top = c.top /\ g.height = c.height
                  /\ g.queue = {} /\ g.received = {}
<1>1. /\ TRUE \in BOOLEAN /\ FALSE \in BOOLEAN /\ 0 \in Rounds
      /\ prepare_for_round \in null_state .. send_and_wait_for_signed_blocks
      /\ wait_for_next_block \in null_state .. send_and_wait_for_signed_blocks
  BY SizeAssumption
     DEF Rounds, null_state, wait_for_next_block, prepare_for_round,
         send_and_wait_for_signed_blocks
<1>2. goto_preparing_for_next_round(c) \in Context
  BY <1>1, QueueingContext, Zenon DEF goto_preparing_for_next_round
<1>4. Cleared(c) \in Context
  BY <1>1, QueueingContext, Zenon DEF Cleared
<1>5. goto_wait_for_next_block(c) \in Context
  BY <1>1, <1>4 DEF goto_wait_for_next_block, Context
<1>6. LET g == goto_preparing_for_next_round(c)
      IN  /\ g.state = prepare_for_round /\ g.queue_for_next_round
          /\ g.round = c.round /\ g.top = c.top /\ g.height = c.height
          /\ g.queue = c.queue /\ g.received = c.received
  BY DEF goto_preparing_for_next_round, Context
<1>7. LET g == goto_wait_for_next_block(c)
      IN  /\ g.state = wait_for_next_block
          /\ g.top = c.top /\ g.height = c.height
          /\ g.queue = {} /\ g.received = {}
  BY DEF goto_wait_for_next_block, Cleared, Context
<1> QED
  BY <1>2, <1>5, <1>6, <1>7

\* What the role of a node asks of its context, state by state.
LEMMA RoleOfState ==
    ASSUME NEW n \in Nodes, NEW e, context'[n] = e,
           e.top \in Tips, e.height = HeightOf[e.top],
           \/ e.state = prepare_for_round
           \/ e.state = wait_for_next_block /\ e.queue = {} /\ e.received = {}
           \/ e.state = wait_for_round /\ e.sent = {}
           \/ e.state \in {wait_for_handshake_bitsets, send_block_template} /\ IsProducer(n, e)
           \/ /\ IsValidator(n, e)
              /\ \/ e.state = wait_for_handshake_bitsets
                 \/ e.state = wait_for_block_template
                 \/ /\ e.state \in {send_and_wait_for_random_value_hashes,
                                    send_and_wait_for_random_value}
                    /\ e.random_value \in RandomValues /\ Stage(e, block_template) # {}
                 \/ e.state = send_and_wait_for_signed_blocks /\ e.final_block \in FinalBlock
    PROVE  RoleOK(n)'
<1>1. e.top # None
  BY NoneAssumption
<1> QED
  BY <1>1
     DEF RoleOK, wait_for_next_block, prepare_for_round, wait_for_round,
         send_and_wait_for_handshakes, send_handshake_bitsets, wait_for_handshake_bitsets,
         send_block_template, wait_for_block_template,
         send_and_wait_for_random_value_hashes, send_and_wait_for_random_value,
         send_and_wait_for_signed_blocks

\* The height of a node that has left wait_for_next_block is that of its top block.
LEMMA HeightOfTop ==
    ASSUME IInv, NEW n \in Nodes, context[n].state > wait_for_next_block
    PROVE  context[n].top \in Tips /\ context[n].height = HeightOf[context[n].top]
<1>1. RoleOK(n)
  BY Zenon DEF IInv
<1> QED
  BY <1>1, NoneAssumption DEF RoleOK

\* The role of a node whose round has ended.
LEMMA RoleOfEnd ==
    ASSUME IInv, NEW n \in Nodes, NEW e \in Context,
           context[n].state > wait_for_next_block,
           e.top = context[n].top, e.height = context[n].height,
           \/ e.state = prepare_for_round
           \/ e.state = wait_for_next_block /\ e.queue = {} /\ e.received = {},
           context'[n] = e
    PROVE  RoleOK(n)'
<1>1. e.top \in Tips /\ e.height = HeightOf[e.top]
  BY HeightOfTop, Zenon
<1> QED
  BY <1>1, RoleOfState, Zenon

\* The states a stage may go to.
LEMMA AllStates ==
    {send_and_wait_for_handshakes, send_handshake_bitsets, wait_for_handshake_bitsets,
     send_block_template, wait_for_block_template, send_and_wait_for_random_value_hashes,
     send_and_wait_for_random_value, send_and_wait_for_signed_blocks}
        \subseteq null_state .. send_and_wait_for_signed_blocks
BY DEF null_state, send_and_wait_for_handshakes, send_handshake_bitsets,
       wait_for_handshake_bitsets, send_block_template, wait_for_block_template,
       send_and_wait_for_random_value_hashes, send_and_wait_for_random_value,
       send_and_wait_for_signed_blocks

\* A context that has only changed its state, from the one it grew from.
LEMMA StateFacts ==
    ASSUME NEW d \in Context,
           NEW state \in null_state .. send_and_wait_for_signed_blocks
    PROVE  LET e == [d EXCEPT !.state = state]
           IN  /\ e \in Context /\ e.state = state
               /\ e.height = d.height /\ e.top = d.top /\ e.round = d.round
               /\ e.queue = d.queue /\ e.received = d.received /\ e.sent = d.sent
               /\ e.best_bitset = d.best_bitset
               /\ e.random_value = d.random_value /\ e.final_block = d.final_block
BY DEF Context

\* A step within a round that neither locks nor produces anything.
LEMMA QuietStep ==
    ASSUME IInv, NEW n \in Nodes, NEW e \in Context,
           NEW M \in SUBSET Message, NEW R \in SUBSET net,
           StepInRound(n, e, M, R), RoleOK(n)', UNCHANGED <<chain, locks, produced>>
    PROVE  LocalStep(n)
<1>1. context' = [context EXCEPT ![n] = e] /\ net \subseteq net'
  BY Zenon DEF StepInRound, Goes, Holds
<1> QED
  BY <1>1, NodeStep, NodeFacts, Zenon DEF LocalStep

\* The role of a validator that goes on with its round.
LEMMA RoleOfNext ==
    ASSUME IInv, NEW n \in Nodes, NEW e \in Context,
           context[n].state > wait_for_next_block,
           e.top = context[n].top, e.height = context[n].height, e.round = context[n].round,
           \/ e.state = wait_for_handshake_bitsets
           \/ e.state = wait_for_block_template
           \/ /\ e.state \in {send_and_wait_for_random_value_hashes,
                               send_and_wait_for_random_value}
              /\ e.random_value \in RandomValues /\ Stage(e, block_template) # {}
           \/ e.state = send_and_wait_for_signed_blocks /\ e.final_block \in FinalBlock,
           IsValidator(n, context[n]),
           context'[n] = e
    PROVE  RoleOK(n)'
<1>1. IsValidator(n, e)
  BY DEF IsValidator, Validator
<1>2. e.top \in Tips /\ e.height = HeightOf[e.top]
  BY HeightOfTop, Zenon
<1> QED
  BY <1>1, <1>2, RoleOfState, Zenon

\* The zero-initialised context.
LEMMA InitContextFacts ==
    /\ InitContext \in Context
    /\ InitContext.state = null_state /\ InitContext.height = 0 /\ InitContext.top = None
    /\ InitContext.queue = {} /\ InitContext.received = {}
<1>1. ASSUME NEW b \in BOOLEAN
      PROVE  [state |-> null_state, height |-> 0, top |-> None, queue_for_next_round |-> b,
              round |-> 0, queue |-> {}, received |-> {}, sent |-> {}, best_bitset |-> {},
              random_value |-> None, final_block |-> None] \in Context
  BY SizeAssumption DEF Context, Rounds, null_state, send_and_wait_for_signed_blocks
<1>2. InitContext \in Context
  BY <1>1, Zenon DEF InitContext
<1> QED
  BY <1>2, Zenon DEF InitContext

-----------------------------------------------------------------------------
(* What the stages collect *)

\* The names of the stages.
LEMMA Stages ==
    /\ StageOf(handshake) = 4 /\ StageOf(handshake_bitset) = 6 /\ StageOf(block_template) = 8
    /\ StageOf(random_value_hash) = 9 /\ StageOf(random_value) = 10
    /\ StageOf(signed_block) = 11
BY DEF StageOf, handshake, handshake_bitset, block_template, random_value_hash, random_value,
       signed_block, send_and_wait_for_handshakes, wait_for_handshake_bitsets,
       wait_for_block_template, send_and_wait_for_random_value_hashes,
       send_and_wait_for_random_value, send_and_wait_for_signed_blocks

\* d has taken in messages of a type, and is otherwise at the point where c is.
Gains(c, d, type) ==
    /\ d \in Context
    /\ d.state = c.state /\ d.top = c.top /\ d.round = c.round
    /\ d.best_bitset = c.best_bitset /\ d.final_block = c.final_block
    /\ c.received \subseteq d.received
    /\ Taken(c, d, type)

\* Taking in messages of the stage's type leaves what the other stages have collected.
LEMMA OtherStages ==
    ASSUME NEW c, NEW d, NEW type, Gains(c, d, type), NEW other, other # type
    PROVE  Stage(d, other) = Stage(c, other) /\ Bitset(d, other) = Bitset(c, other)
<1>1. Stage(d, other) = Stage(c, other)
  BY DEF Gains, Taken, Stage
<1> QED
  BY <1>1, Zenon DEF Bitset

\* A stage that takes in messages of its type keeps what it has in order.
LEMMA CollectedKept ==
    ASSUME NEW c \in Context, NEW d, NEW type \in handshake .. signed_block,
           c.state = StageOf(type), Gains(c, d, type), Collected(c), Complete(c)
    PROVE  Collected(d) /\ Complete(d)
<1>1. c.state \in Int /\ d.state = c.state
  BY StateOfContext DEF Gains
<1>2. \A m \in d.received : StageOf(m.type) <= d.state
  BY <1>1 DEF Gains, Taken, Collected
<1>3. \A m \in d.received : m.type > handshake_bitset => m.pos \in d.best_bitset
  <2>1. type > handshake_bitset => c.state > wait_for_handshake_bitsets
    BY DEF StageOf, handshake, handshake_bitset, block_template, random_value_hash,
           random_value, signed_block, wait_for_handshake_bitsets, wait_for_block_template,
           send_and_wait_for_random_value_hashes, send_and_wait_for_random_value,
           send_and_wait_for_signed_blocks
  <2>2. ASSUME NEW m \in d.received \ c.received, m.type > handshake_bitset
        PROVE  m.pos \in c.best_bitset
    BY <2>1, <2>2 DEF Gains, Taken, Acceptable
  <2> QED
    BY <2>2 DEF Gains, Collected
<1>4. \A m \in Stage(d, block_template) :
         m.data.round = d.round /\ m.data.bitset = d.best_bitset
  <2>1. ASSUME NEW m \in Stage(d, block_template), m \notin c.received
        PROVE  m.data.round = c.round /\ m.data.bitset = c.best_bitset
    BY <2>1 DEF Gains, Taken, Acceptable, Stage
  <2>2. ASSUME NEW m \in Stage(d, block_template), m \in c.received
        PROVE  m.data.round = c.round /\ m.data.bitset = c.best_bitset
    BY <2>2 DEF Collected, Stage
  <2> QED
    BY <2>1, <2>2 DEF Gains
<1>5. ASSUME NEW m \in Stage(d, random_value), NEW h \in Stage(d, random_value_hash),
             h.pos = m.pos
      PROVE  h.data = Hash(m.data)
  <2>1. random_value # random_value_hash
    BY DEF random_value, random_value_hash
  <2>2. CASE type = random_value_hash
    <3>1. Stage(c, random_value) = {}
      <4>1. ASSUME NEW o \in Stage(c, random_value) PROVE FALSE
        <5>1. StageOf(random_value) <= c.state
          BY <4>1 DEF Collected, Stage
        <5> QED
          BY <2>2, <5>1, Stages
      <4> QED
        BY <4>1
    <3>2. m \in Stage(c, random_value)
      BY <2>1, <2>2, OtherStages
    <3> QED
      BY <3>1, <3>2
  <2>3. CASE type # random_value_hash
    <3>1. h \in Stage(c, random_value_hash)
      BY <2>3, OtherStages
    <3>2. CASE m \in c.received
      <4>1. m \in Stage(c, random_value)
        BY <3>2 DEF Stage
      <4> QED
        BY <1>5, <3>1, <4>1 DEF Collected
    <3>3. CASE m \notin c.received
      <4>1. m.type = random_value /\ Acceptable(c, m)
        BY <3>3 DEF Gains, Taken, Stage
      <4> QED
        BY <1>5, <3>1, <4>1 DEF Acceptable
    <3> QED
      BY <3>2, <3>3
  <2> QED
    BY <2>2, <2>3
<1>6. Collected(d)
  BY <1>2, <1>3, <1>4, <1>5, Zenon DEF Collected
<1>7. ASSUME d.state >= send_and_wait_for_random_value
      PROVE  Bitset(d, random_value_hash) = d.best_bitset
  <2>1. random_value_hash # type
    BY <1>1, <1>7, Stages DEF send_and_wait_for_random_value
  <2>2. Bitset(d, random_value_hash) = Bitset(c, random_value_hash)
    BY <2>1, OtherStages
  <2> QED
    BY <1>1, <1>7, <2>2 DEF Complete, Gains
<1>8. ASSUME d.state = send_and_wait_for_signed_blocks
      PROVE  Bitset(d, random_value) = d.best_bitset /\ Assembly(d)
  <2>1. random_value # type
    <3>1. StageOf(type) = 11 /\ StageOf(random_value) = 10
      BY <1>1, <1>8, Stages DEF send_and_wait_for_signed_blocks
    <3> QED
      BY <3>1
  <2>2. /\ Bitset(d, random_value) = Bitset(c, random_value)
        /\ Stage(d, random_value) = Stage(c, random_value)
    BY <2>1, OtherStages
  <2>3. Bitset(c, random_value) = c.best_bitset /\ Assembly(c)
    BY <1>1, <1>8 DEF Complete
  <2>4. d.round = c.round /\ d.best_bitset = c.best_bitset /\ d.final_block = c.final_block
    BY Zenon DEF Gains
  <2>5. Assembly(d)
    BY <2>2, <2>3, <2>4 DEF Assembly
  <2> QED
    BY <2>2, <2>3, <2>4, <2>5, Zenon
<1> QED
  BY <1>6, <1>7, <1>8, Zenon DEF Complete

\* A state that is further on keeps what was collected.
LEMMA CollectedLater ==
    ASSUME NEW d \in Context, NEW e \in Context, Collected(d),
           e.received = d.received, e.round = d.round, e.best_bitset = d.best_bitset,
           e.state >= d.state
    PROVE  Collected(e)
<1>1. d.state \in Int /\ e.state \in Int
  BY StateOfContext
<1>2. \A m \in e.received : StageOf(m.type) <= e.state
  <2>1. ASSUME NEW m \in d.received PROVE StageOf(m.type) \in Int
    BY <2>1, MessageFields, StageOfState
       DEF Context, send_and_wait_for_handshakes, send_and_wait_for_signed_blocks
  <2> QED
    BY <1>1, <2>1 DEF Collected
<1>3. /\ Stage(e, block_template) = Stage(d, block_template)
      /\ Stage(e, random_value) = Stage(d, random_value)
      /\ Stage(e, random_value_hash) = Stage(d, random_value_hash)
  BY DEF Stage
<1> QED
  BY <1>2, <1>3 DEF Collected

\* Before the random values are revealed there is nothing to complete, and before the
\* bitsets are counted there is no lock.
LEMMA NothingYet ==
    ASSUME NEW e \in Context
    PROVE  /\ e.state < send_and_wait_for_random_value => Complete(e)
           /\ e.state < send_block_template =>
                 Complete(e) /\ ~(e.state >= send_block_template)
<1>1. e.state \in Int
  BY StateOfContext
<1> QED
  BY <1>1 DEF Complete, send_block_template, send_and_wait_for_random_value,
              send_and_wait_for_signed_blocks

\* What a produced block owes to the node that put it together.
BlockOK(b) ==
    /\ b.signers \subseteq b.block.template.bitset
    /\ b.block.template.round = b.round
    /\ {v[1] : v \in b.block.values} = b.block.template.bitset
    /\ \A v \in b.block.values :
          \E h \in net : /\ h.type = random_value_hash
                         /\ h.key = Validators[b.top][b.round][v[1]]
                         /\ h.data = Hash(v[2])

\* Node n signs only for the round it is in, and reveals its value only in the stage
\* for it.
InItsRound(n, m) ==
    /\ m.top = context[n].top /\ m.round = context[n].round
    /\ context[n].state > wait_for_round
    /\ m.type = random_value => context[n].state = send_and_wait_for_random_value

\* What a step of node n has to show, on top of LocalStep, for its stages.
Advances(n) ==
    /\ locks \subseteq locks' /\ produced \subseteq produced'
    /\ \A m \in net' \ net : InItsRound(n, m)
    /\ StageOK(n)'
    /\ \A b \in produced' \ produced : BlockOK(b)'

\* A node that is between rounds, or begins one, has nothing that may be out of order.
LEMMA FreshStage ==
    ASSUME NEW n, context'[n] \in Context,
           \/ context'[n].state \in {null_state, wait_for_next_block, prepare_for_round}
           \/ context'[n].state = wait_for_round /\ context'[n].received = {}
    PROVE  StageOK(n)'
<1> DEFINE e == context'[n]
<1>1. CASE e.state \in {null_state, wait_for_next_block, prepare_for_round}
  <2>1. ~(e.state >= wait_for_round)
    BY <1>1 DEF null_state, wait_for_next_block, prepare_for_round, wait_for_round
  <2> QED
    BY <2>1, Zenon DEF StageOK
<1>2. CASE e.state = wait_for_round /\ e.received = {}
  <2>1. e.state < send_block_template
    BY <1>2 DEF wait_for_round, send_block_template
  <2>2. Complete(e) /\ ~(e.state >= send_block_template)
    BY <2>1, NothingYet
  <2>3. Collected(e)
    BY <1>2 DEF Collected, Stage
  <2> HIDE DEF e
  <2>4. context'[n] = e
    BY DEF e
  <2> QED
    BY <2>2, <2>3, <2>4, Zenon DEF StageOK, Collected, Complete, Assembly, Bitset, Stage
<1> QED
  BY <1>1, <1>2

\* The context of a node after a step.
LEMMA ContextNext ==
    ASSUME IInv, IInv', NEW n \in Nodes
    PROVE  /\ context \in [Nodes -> Context] /\ context[n] \in Context
           /\ context'[n] \in Context
           /\ context[n].state \in Int /\ context'[n].state \in Int
<1>1. context \in [Nodes -> Context] /\ context[n] \in Context /\ context'[n] \in Context
  BY DEF IInv, TypeOK
<1> QED
  BY <1>1, StateOfContext

\* A step that neither signs, locks nor produces anything.
LEMMA QuietAdvance ==
    ASSUME NEW n, StageOK(n)', UNCHANGED <<net, locks, produced>>
    PROVE  Advances(n)
BY DEF Advances

\* What a node has to show of its next context.
LEMMA NextStage ==
    ASSUME NEW n, NEW e, context'[n] = e, Collected(e), Complete(e),
           e.state >= send_block_template => LockOf(n, e) \in locks'
    PROVE  StageOK(n)'
BY Zenon DEF StageOK, Collected, Complete, Assembly, LockOf, Bitset, Stage

\* A node goes on to a state before the lock.
LEMMA EarlyStage ==
    ASSUME NEW n, NEW d \in Context, NEW e \in Context, context'[n] = e, Collected(d),
           e.received = d.received, e.round = d.round, e.best_bitset = d.best_bitset,
           e.state >= d.state, e.state < send_block_template
    PROVE  StageOK(n)'
<1>1. Collected(e)
  BY CollectedLater
<1>2. Complete(e) /\ ~(e.state >= send_block_template)
  BY NothingYet
<1> QED
  BY <1>1, <1>2, NextStage, Zenon

\* What StageOK says of a node in its round.
LEMMA StageNow ==
    ASSUME IInv, NEW n \in Nodes, StageOK(n), context[n].state >= wait_for_round
    PROVE  /\ Collected(context[n]) /\ Complete(context[n])
           /\ context[n].state >= send_block_template => LockOf(n, context[n]) \in locks
BY Zenon DEF StageOK

\* A stage that takes in messages relays only messages of its round, its own or those
\* it holds, and keeps what it has in order.
LEMMA StageTakes ==
    ASSUME IInv, NEW n \in Nodes, StageOK(n), NEW type \in handshake .. signed_block,
           context[n].state = StageOf(type), NEW d, NEW M,
           Grown(context[n], d, M), Taken(context[n], d, type),
           \A m \in M : m.top = context[n].top /\ m.round = context[n].round,
           net' = net \cup d.received
    PROVE  /\ \A m \in net' \ net : InItsRound(n, m)
           /\ Collected(d) /\ Complete(d)
           /\ d.state >= send_block_template => LockOf(n, d) \in locks
<1> DEFINE c == context[n]
<1>1. c \in Context /\ c.state \in Int /\ HoldingOK(n) /\ c.received \subseteq net
  BY NodeFacts, Zenon
<1>2. c.state > wait_for_round /\ c.state >= wait_for_round
  BY <1>1, StageOfState
     DEF wait_for_round, send_and_wait_for_handshakes, send_and_wait_for_signed_blocks
<1>3. Collected(c) /\ Complete(c) /\ (c.state >= send_block_template => LockOf(n, c) \in locks)
  BY <1>2, StageNow, Zenon
<1>4. Gains(c, d, type)
  BY Zenon DEF Grown, Gains
<1>5. Collected(d) /\ Complete(d)
  BY <1>1, <1>3, <1>4, CollectedKept, Zenon
<1>6. d.state >= send_block_template => LockOf(n, d) \in locks
  <2>1. LockOf(n, d) = LockOf(n, c) /\ d.state = c.state
    BY <1>4 DEF Gains, LockOf
  <2> QED
    BY <1>3, <2>1, Zenon
<1>7. ASSUME NEW m \in net' \ net
      PROVE  InItsRound(n, m)
  <2>1. m \in d.received \ c.received
    BY <1>1, <1>7, Zenon
  <2>2. m \in M \/ m \in c.queue \ net
    BY <1>7, <2>1, Zenon DEF Grown
  <2>3. m.top = c.top /\ m.round = c.round
    BY <1>1, <2>2, Zenon DEF HoldingOK
  <2>4. m.type = type
    BY <2>1, Zenon DEF Taken
  <2>5. m.type = random_value => c.state = send_and_wait_for_random_value
    BY <2>4, Stages DEF send_and_wait_for_random_value
  <2> QED
    BY <1>2, <2>3, <2>5, Zenon DEF InItsRound
<1> QED
  BY <1>5, <1>6, <1>7, Zenon

\* A stage after the lock that goes on keeps its lock.
LEMMA StageGoesOn ==
    ASSUME NEW n, NEW d \in Context, NEW e \in Context, context'[n] = e,
           Collected(d), Complete(e), LockOf(n, d) \in locks, locks \subseteq locks',
           e.received = d.received, e.round = d.round, e.top = d.top,
           e.best_bitset = d.best_bitset, e.state >= d.state
    PROVE  StageOK(n)'
<1>1. Collected(e)
  BY CollectedLater
<1>2. LockOf(n, e) \in locks'
  BY DEF LockOf
<1> QED
  BY <1>1, <1>2, NextStage, Zenon

\* A round that has failed, or is over, leaves nothing to keep in order.
LEMMA EndStage ==
    ASSUME NEW n, NEW d \in Context,
           context'[n] \in {goto_preparing_for_next_round(d), goto_wait_for_next_block(d)}
    PROVE  StageOK(n)'
<1>1. /\ context'[n] \in Context
      /\ context'[n].state \in {wait_for_next_block, prepare_for_round}
  BY EndFacts
<1> QED
  BY <1>1, FreshStage, Zenon

\* What holds on top of IInv: the stages are in order, what was revealed had been
\* committed to, and the blocks are what the stages have collected.
StagesInv ==
    /\ StagesOK
    /\ CommitBeforeReveal
    /\ \A b \in produced : BlockOK(b)

\* A node that reveals its value has locked in its participants, and holds the hashes
\* of all of them.
LEMMA RevealsCommitted ==
    ASSUME IInv, NEW n \in Nodes, StageOK(n),
           context[n].state = send_and_wait_for_random_value,
           NEW m, m.key = n, m.top = context[n].top, m.round = context[n].round
    PROVE  \E l \in locks :
              /\ l.node = m.key /\ l.top = m.top /\ l.round = m.round
              /\ \A p \in l.bitset :
                    \E h \in net : /\ h.type = random_value_hash
                                   /\ h.top = m.top
                                   /\ h.key = Validators[m.top][m.round][p]
<1> DEFINE c == context[n]
           l == LockOf(n, c)
<1>1. c.state >= wait_for_round /\ c.state >= send_block_template
  BY DEF wait_for_round, send_block_template, send_and_wait_for_random_value
<1>2. l \in locks /\ Complete(c)
  BY <1>1, StageNow
<1>3. Bitset(c, random_value_hash) = c.best_bitset
  BY <1>2 DEF Complete, send_and_wait_for_random_value
<1>4. l.node = n /\ l.top = c.top /\ l.round = c.round /\ l.bitset = c.best_bitset
  BY DEF LockOf
<1>5. HoldingOK(n) /\ c.received \subseteq net
  BY NodeFacts
<1> HIDE DEF l
<1>6. ASSUME NEW p \in l.bitset
      PROVE  \E h \in net : /\ h.type = random_value_hash
                            /\ h.top = m.top
                            /\ h.key = Validators[m.top][m.round][p]
  <2>1. PICK h \in Stage(c, random_value_hash) : h.pos = p
    BY <1>3, <1>4, <1>6 DEF Bitset
  <2>2. h \in c.received /\ h.type = random_value_hash
    BY DEF Stage
  <2>3. h.top = c.top /\ h.key = Validators[c.top][c.round][p]
    <3>1. SignatureCheck(c, h)
      BY <1>5, <2>2, Zenon DEF HoldingOK
    <3> QED
      BY <2>1, <2>2, <3>1 DEF SignatureCheck, Validator, random_value_hash, block_template
  <2> QED
    BY <1>5, <2>2, <2>3
<1> QED
  BY <1>2, <1>4, <1>6

\* The second invariant is preserved by a step that is right for the node that takes it.
LEMMA StageSuffices ==
    ASSUME IInv, StagesInv, NEW n \in Nodes, LocalStep(n), Advances(n)
    PROVE  StagesInv'
<1>1. /\ net \subseteq net' /\ locks \subseteq locks' /\ produced \subseteq produced'
      /\ \A k \in Nodes \ {n} : context'[k] = context[k]
      /\ \A m \in net' \ net : m.key = n /\ InItsRound(n, m)
  BY Zenon DEF LocalStep, Advances
<1>2. ASSUME NEW k \in Nodes PROVE StageOK(k)'
  <2>1. CASE k = n
    BY <2>1, Zenon DEF Advances
  <2>2. CASE k # n
    <3>1. context'[k] = context[k] /\ StageOK(k)
      BY <1>1, <2>2, Zenon DEF StagesInv, StagesOK
    <3> QED
      BY <1>1, <3>1, Zenon
         DEF StageOK, Collected, Complete, Assembly, LockOf, Bitset, Stage
  <2> QED
    BY <2>1, <2>2
<1>3. CommitBeforeReveal'
  <2> SUFFICES ASSUME NEW m \in net', m.type = random_value
               PROVE  \E l \in locks' :
                         /\ l.node = m.key /\ l.top = m.top /\ l.round = m.round
                         /\ \A p \in l.bitset :
                               \E h \in net' : /\ h.type = random_value_hash
                                               /\ h.top = m.top
                                               /\ h.key = Validators[m.top][m.round][p]
    BY DEF CommitBeforeReveal
  <2>1. \E l \in locks :
           /\ l.node = m.key /\ l.top = m.top /\ l.round = m.round
           /\ \A p \in l.bitset :
                 \E h \in net : /\ h.type = random_value_hash
                                /\ h.top = m.top
                                /\ h.key = Validators[m.top][m.round][p]
    <3>1. CASE m \in net
      BY <3>1, Zenon DEF StagesInv, CommitBeforeReveal
    <3>2. CASE m \notin net
      <4>1. /\ m.key = n /\ m.top = context[n].top /\ m.round = context[n].round
            /\ context[n].state = send_and_wait_for_random_value
        BY <1>1, <3>2, Zenon DEF InItsRound
      <4>2. StageOK(n)
        BY Zenon DEF StagesInv, StagesOK
      <4> QED
        BY <4>1, <4>2, RevealsCommitted
    <3> QED
      BY <3>1, <3>2
  <2> QED
    BY <1>1, <2>1, Zenon
<1>4. ASSUME NEW b \in produced' PROVE BlockOK(b)'
  <2>1. CASE b \in produced
    <3>1. BlockOK(b)
      BY <2>1 DEF StagesInv
    <3>2. \A v \in b.block.values :
             \E h \in net' : /\ h.type = random_value_hash
                             /\ h.key = Validators[b.top][b.round][v[1]]
                             /\ h.data = Hash(v[2])
      BY <1>1, <3>1, Zenon DEF BlockOK
    <3> QED
      BY <3>1, <3>2 DEF BlockOK
  <2>2. CASE b \notin produced
    BY <2>2, Zenon DEF Advances
  <2> QED
    BY <2>1, <2>2
<1> QED
  BY <1>2, <1>3, <1>4, Zenon DEF StagesInv, StagesOK

=============================================================================
