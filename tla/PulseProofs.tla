----------------------------- MODULE PulseProofs ----------------------------
(***************************************************************************)
(* Proofs about Pulse: the types of its variables, that no steady node     *)
(* signs two messages of a type for one round or goes back to an earlier   *)
(* one, that all nodes agree on the participants and on the block of a     *)
(* round, and that a block is made of what its participants committed to   *)
(* and signed.                                                             *)
(***************************************************************************)
EXTENDS PulseRoundSteps, PulseBlockSteps, FiniteSetTheorems

-----------------------------------------------------------------------------
(* The invariant of the first layer *)

\* The invariant holds when the daemons start.
LEMMA InitIInv == Init => IInv
<1> SUFFICES ASSUME Init PROVE IInv
  OBVIOUS
<1>1. /\ chain = StartTip /\ net = {} /\ locks = {} /\ produced = {}
      /\ \A n \in Nodes : context[n] = InitContext
      /\ context \in [Nodes -> Context]
  BY InitContextFacts DEF Init
<1>2. TypeOK
  BY <1>1, ChainAssumption DEF TypeOK
<1>3. ASSUME NEW n \in Nodes
      PROVE  HoldingOK(n) /\ RoleOK(n) /\ SignaturesOK(n)
  <2>1. context[n] = InitContext
    BY <1>1
  <2>2. HoldingOK(n)
    BY <2>1, InitNode DEF HoldingOK, OnePerPosition
  <2>3. RoleOK(n)
    <3>1. /\ context[n].queue = {} /\ context[n].received = {}
          /\ context[n].top = None /\ context[n].height = 0
      BY <2>1, InitNode, Zenon
    <3> QED
      BY <2>1, <3>1, InitRole, Zenon DEF RoleOK
  <2>4. SignaturesOK(n)
    BY <2>1, InitNode
       DEF SignaturesOK, null_state, wait_for_round, send_and_wait_for_random_value
  <2> QED
    BY <2>2, <2>3, <2>4
<1>4. ASSUME NEW n \in Nodes
      PROVE  SteadyOK(n)
  <2>1. /\ context[n].height = 0 /\ SignedBy(n) = {}
        /\ HeightOf[chain[n]] \in Nat
    BY <1>1, InitNode, ChainAssumption DEF SignedBy
  <2> QED
    BY <2>1 DEF SteadyOK
<1> QED
  BY <1>1, <1>2, <1>3, <1>4 DEF IInv

\* There are NumValidators positions.
LEMMA FinitePositions ==
    /\ IsFiniteSet(Positions) /\ Cardinality(Positions) = NumValidators
    /\ \A P \in SUBSET Positions : IsFiniteSet(P) /\ Cardinality(P) \in Nat
<1>1. IsFiniteSet(Positions) /\ Cardinality(Positions) = NumValidators
  BY FS_Interval, SizeAssumption DEF Positions
<1>2. \A P \in SUBSET Positions : IsFiniteSet(P) /\ Cardinality(P) \in Nat
  BY <1>1, FS_Subset, FS_CardinalityType
<1> QED
  BY <1>1, <1>2

\* Counting the bitsets a node holds counts validators.
LEMMA CountOfVotes ==
    ASSUME NEW d \in Context, NEW N, NEW b,
           OnePerPosition(d.received), d.received \subseteq N,
           \A m \in d.received : SignatureCheck(d, m),
           Count(d, b) >= Required
    PROVE  /\ Cardinality(VotersIn(N, d.top, d.round, b)) >= Required
           /\ b \in SUBSET Positions
<1> DEFINE S == {m \in Stage(d, handshake_bitset) : m.data = b}
           V == VotersIn(N, d.top, d.round, b)
           f == [m \in S |-> m.pos]
<1>1. \A m \in S : m \in Message /\ m.pos \in Positions /\ m.pos \in V
  <2>1. ASSUME NEW m \in S
        PROVE  m \in d.received /\ m \in Message /\ m.type = handshake_bitset /\ m.data = b
    BY DEF Stage, Context
  <2>2. ASSUME NEW m \in S
        PROVE  m.top = d.top /\ m.key = Validators[d.top][d.round][m.pos]
    BY <2>1 DEF SignatureCheck, Validator, handshake_bitset, block_template
  <2> HIDE DEF S
  <2> QED
    BY <2>1, <2>2, MessageFields DEF VotersIn
<1>2. \A m, o \in S : m.pos = o.pos => m = o
  BY DEF Stage, OnePerPosition
<1>3. IsFiniteSet(V)
  BY FinitePositions DEF VotersIn
<1>4. f \in Injection(S, V)
  <2> HIDE DEF S, V
  <2> QED
    BY <1>1, <1>2 DEF Injection, IsInjective
<1>5. IsFiniteSet(S) /\ Cardinality(S) <= Cardinality(V)
  <2> HIDE DEF S, V, f
  <2> QED
    BY <1>3, <1>4, FS_Injection
<1>6. Cardinality(S) \in Nat /\ Cardinality(V) \in Nat /\ Required \in Nat /\ Required > 0
  BY <1>3, <1>5, FS_CardinalityType, SizeAssumption
<1>7. Cardinality(S) >= Required
  BY DEF Count
<1> HIDE DEF V
<1>8. Cardinality(V) >= Required
  BY <1>5, <1>6, <1>7
<1>9. S # {}
  BY <1>6, <1>7, FS_EmptySet
<1>10. b \in SUBSET Positions
  BY <1>1, <1>9, MessageFields DEF Stage
<1> QED
  BY <1>8, <1>10 DEF V

\* The same, as the steps use it.
LEMMA CountIsVotes == CountsVotes
BY CountOfVotes DEF CountsVotes

\* The invariant is preserved by a step that is right for the node that takes it.
LEMMA LocalSuffices ==
    ASSUME IInv, NEW n \in Nodes, LocalStep(n)
    PROVE  IInv'
<1>1. TypeOK'
  BY DEF IInv, LocalStep, TypeOK
<1>2. \A m \in net' : MessageOK(m)'
  BY DEF IInv, LocalStep, MessageOK
<1>3. ASSUME NEW k \in Nodes
      PROVE  HoldingOK(k)' /\ RoleOK(k)' /\ SignaturesOK(k)'
  <2>1. CASE k = n
    BY <2>1 DEF LocalStep
  <2>2. CASE k # n
    <3>1. context'[k] = context[k] /\ net \subseteq net'
      BY <2>2 DEF LocalStep
    <3>2. HoldingOK(k) /\ RoleOK(k) /\ SignaturesOK(k)
      BY DEF IInv
    <3>3. HoldingOK(k)'
      BY <3>1, <3>2, SMTT(20) DEF HoldingOK, OnePerPosition, SignatureCheck, MessageOK, Validator
    <3>4. RoleOK(k)'
      BY <3>1, <3>2, Zenon DEF RoleOK, IsValidator, IsProducer, MyPosition, Bitset, Stage, Validator
    <3>5. SignaturesOK(k)'
      BY <3>1, <3>2 DEF SignaturesOK, Stage
    <3> QED
      BY <3>3, <3>4, <3>5
  <2> QED
    BY <2>1, <2>2
<1>4. ASSUME NEW k \in Nodes \ Unsteady
      PROVE  SteadyOK(k)'
  <2>1. CASE k = n
    BY <2>1 DEF LocalStep
  <2>2. CASE k # n
    <3>1. /\ context'[k] = context[k] /\ chain'[k] = chain[k]
          /\ net \subseteq net' /\ \A m \in net' \ net : m.key = n
      BY <2>2 DEF LocalStep
    <3>2. SignedBy(k)' = SignedBy(k)
      BY <2>2, <3>1 DEF SignedBy
    <3>3. SteadyOK(k)
      BY DEF IInv
    <3> QED
      BY <3>1, <3>2, <3>3 DEF SteadyOK, SignedInRound
  <2> QED
    BY <2>1, <2>2
<1>5. ASSUME NEW l \in locks'
      PROVE  LockOK(l)'
  <2>1. CASE l \in locks
    <3> DEFINE V == Voters(l.top, l.round, l.bitset)
    <3>1. V \subseteq V' /\ V' \subseteq Positions
      BY DEF LocalStep, Voters
    <3>2. IsFiniteSet(Positions)
      BY FS_Interval, SizeAssumption DEF Positions
    <3>3. IsFiniteSet(V') /\ IsFiniteSet(V)
      BY <3>1, <3>2, FS_Subset
    <3>4. Cardinality(V) <= Cardinality(V')
      BY <3>1, <3>3, FS_Subset
    <3>5. Cardinality(V) >= Required
      BY <2>1 DEF IInv, LockOK
    <3>6. Cardinality(V) \in Nat /\ Cardinality(V') \in Nat /\ Required \in Nat
      BY <3>3, FS_CardinalityType, SizeAssumption
    <3> HIDE DEF V
    <3>7. Cardinality(V') >= Required
      BY <3>4, <3>5, <3>6
    <3> QED
      BY <3>7 DEF LockOK, V
  <2>2. CASE l \notin locks
    BY <2>2 DEF LocalStep
  <2> QED
    BY <2>1, <2>2
<1>6. \A b \in produced' : ProducedOK(b)'
  BY DEF IInv, LocalStep, ProducedOK
<1> QED
  BY <1>1, <1>2, <1>3, <1>4, <1>5, <1>6, SMTT(20) DEF IInv

\* The invariant is preserved by every step.
LEMMA NextIInv == IInv /\ [Next]_vars => IInv'
<1> SUFFICES ASSUME IInv, [Next]_vars PROVE IInv'
  OBVIOUS
<1>1. CASE UNCHANGED vars
  <2>1. UNCHANGED <<context, chain, net, locks, produced>>
    BY <1>1 DEF vars
  <2>2. TypeOK' /\ \A m \in net' : MessageOK(m)'
    BY <2>1 DEF IInv, TypeOK, MessageOK
  <2>3. ASSUME NEW n \in Nodes
        PROVE  HoldingOK(n)'
    <3>1. HoldingOK(n)
      BY <2>3 DEF IInv
    <3> QED
      BY <2>1, <3>1, Zenon DEF HoldingOK, OnePerPosition, SignatureCheck, MessageOK, Validator
  <2>4. ASSUME NEW n \in Nodes
        PROVE  RoleOK(n)'
    <3>1. RoleOK(n)
      BY <2>4 DEF IInv
    <3> QED
      BY <2>1, <3>1, Zenon
         DEF RoleOK, IsValidator, IsProducer, MyPosition, Bitset, Stage, Validator
  <2>5. \A n \in Nodes : SignaturesOK(n)'
    BY <2>1 DEF IInv, SignaturesOK, Stage
  <2>6. \A n \in Nodes \ Unsteady : SteadyOK(n)'
    BY <2>1 DEF IInv, SteadyOK, SignedBy, SignedInRound
  <2>7. \A l \in locks' : LockOK(l)'
    BY <2>1 DEF IInv, LockOK, Voters
  <2>8. \A b \in produced' : ProducedOK(b)'
    BY <2>1 DEF IInv, ProducedOK
  <2> QED
    BY <2>2, <2>3, <2>4, <2>5, <2>6, <2>7, <2>8, SMTT(20) DEF IInv
<1>2. CASE Next
  <2>1. PICK n \in Nodes : \/ Main(n)
                           \/ \E m \in net : HandleMessage(n, m)
                           \/ ChainUpdate(n)
                           \/ Restart(n)
    BY <1>2 DEF Next
  <2>2. CASE Main(n)
    <3> SUFFICES LocalStep(n)
      BY LocalSuffices
    <3>1. CASE WaitForNextBlock(n)
      BY <3>1, StepWaitForNextBlock
    <3>2. CASE PrepareForRound(n)
      BY <3>2, StepPrepareForRound
    <3>3. CASE WaitForRound(n)
      BY <3>3, StepWaitForRound
    <3>4. CASE RelayFails(n)
      BY <3>4, StepRelayFails
    <3>5. CASE SendAndWaitForHandshakes(n)
      BY <3>5, StepSendAndWaitForHandshakes
    <3>6. CASE SendHandshakeBitsets(n)
      BY <3>6, StepSendHandshakeBitsets
    <3>7. CASE WaitForHandshakeBitsets(n)
      BY <3>7, StepWaitForHandshakeBitsets, CountIsVotes
    <3>8. CASE SendBlockTemplate(n)
      BY <3>8, StepSendBlockTemplate
    <3>9. CASE WaitForBlockTemplate(n)
      BY <3>9, StepWaitForBlockTemplate
    <3>10. CASE SendAndWaitForRandomValueHashes(n)
      BY <3>10, StepSendAndWaitForRandomValueHashes
    <3>11. CASE SendAndWaitForRandomValue(n)
      BY <3>11, StepSendAndWaitForRandomValue
    <3>12. CASE SendAndWaitForSignedBlocks(n)
      BY <3>12, StepSendAndWaitForSignedBlocks
    <3> QED
      BY <2>2, <3>1, <3>2, <3>3, <3>4, <3>5, <3>6, <3>7, <3>8, <3>9, <3>10, <3>11, <3>12, SMTT(20)
         DEF Main
  <2>3. CASE \E m \in net : HandleMessage(n, m)
    BY <2>3, StepHandleMessage, LocalSuffices
  <2>4. CASE ChainUpdate(n)
    BY <2>4, StepChainUpdate, LocalSuffices
  <2>5. CASE Restart(n)
    BY <2>5, StepRestart, LocalSuffices
  <2> QED
    BY <2>1, <2>2, <2>3, <2>4, <2>5
<1> QED
  BY <1>1, <1>2

\* In every reachable state the inductive invariant of the ceremony holds.
THEOREM Invariance == Spec => []IInv
BY InitIInv, NextIInv, PTL DEF Spec

\* In every reachable state the variables have their types.
THEOREM TypeCorrect == Spec => []TypeOK
<1>1. IInv => TypeOK
  BY DEF IInv
<1> QED
  BY <1>1, Invariance, PTL

\* A steady node never signs two different messages of one type for one round.
THEOREM Equivocation == Spec => []NoEquivocation
<1>1. ASSUME IInv PROVE NoEquivocation
  <2> SUFFICES ASSUME NEW m \in net, NEW o \in net, m.key \notin Unsteady,
                      m.key = o.key, m.type = o.type, m.top = o.top, m.round = o.round
               PROVE  m = o
    BY DEF NoEquivocation
  <2>1. m.key \in Nodes \ Unsteady
    BY <1>1, MessageFields DEF IInv, TypeOK
  <2>2. SteadyOK(m.key) /\ m \in SignedBy(m.key) /\ o \in SignedBy(m.key)
    BY <1>1, <2>1 DEF IInv, SignedBy
  <2> QED
    BY <2>2 DEF SteadyOK
<1> QED
  BY <1>1, Invariance, PTL

\* A signed message, other than a template, of the validator at a position that is
\* not doubtful is of the round in which the position is looked at.
LEMMA RoundOfSure ==
    ASSUME IInv, NEW m \in net, m.type # block_template,
           m.top \in Tips, NEW r \in Rounds, m.pos \in Positions \ Doubtful(m.top, r),
           m.key = Validators[m.top][r][m.pos]
    PROVE  m.round = r /\ m.key \in Nodes \ Unsteady
<1>1. m \in Message /\ MessageOK(m)
  BY DEF IInv, TypeOK
<1>2. m.round \in Rounds /\ m.key \in Nodes
  BY <1>1, MessageFields
<1>3. m.key = Validators[m.top][m.round][m.pos]
  BY <1>1 DEF MessageOK
<1> QED
  BY <1>2, <1>3, Zenon DEF Doubtful

\* Two sets of Required positions share one that is not doubtful.
LEMMA QuorumsMeet ==
    ASSUME NEW t \in Tips, NEW r \in Rounds,
           NEW A \in SUBSET Positions, NEW B \in SUBSET Positions,
           Cardinality(A) >= Required, Cardinality(B) >= Required
    PROVE  \E p \in A \cap B : p \notin Doubtful(t, r)
<1> DEFINE D == Doubtful(t, r)
<1>1. IsFiniteSet(Positions) /\ Cardinality(Positions) = NumValidators
  <2>1. 0 \in Int /\ NumValidators - 1 \in Int /\ NumValidators \in Nat /\ NumValidators >= 1
    BY SizeAssumption
  <2> QED
    BY <2>1, FS_Interval DEF Positions
<1>2. /\ IsFiniteSet(A) /\ IsFiniteSet(B) /\ IsFiniteSet(D) /\ IsFiniteSet(A \cap B)
      /\ IsFiniteSet(A \cup B) /\ Cardinality(A \cup B) <= NumValidators
  <2>1. D \subseteq Positions /\ A \cap B \subseteq Positions /\ A \cup B \subseteq Positions
    BY DEF Doubtful
  <2> QED
    BY <1>1, <2>1, FS_Subset
<1>3. Cardinality(A \cup B) = Cardinality(A) + Cardinality(B) - Cardinality(A \cap B)
  BY <1>2, FS_Union
<1>4. /\ Cardinality(A) \in Nat /\ Cardinality(B) \in Nat /\ Cardinality(A \cap B) \in Nat
      /\ Cardinality(D) \in Nat /\ Cardinality(A \cup B) \in Nat
  BY <1>2, FS_CardinalityType
<1>5. 2 * Required > NumValidators + Cardinality(D)
  BY SteadyAssumption
<1>6. Cardinality(A \cap B) > Cardinality(D)
  <2> HIDE DEF D
  <2> QED
    BY <1>2, <1>3, <1>4, <1>5, SizeAssumption
<1>7. ~ (A \cap B \subseteq D)
  <2>1. SUFFICES ASSUME A \cap B \subseteq D PROVE FALSE
    OBVIOUS
  <2>2. Cardinality(A \cap B) <= Cardinality(D)
    BY <1>2, <2>1, FS_Subset
  <2> HIDE DEF D
  <2> QED
    BY <1>4, <1>6, <2>2
<1> QED
  BY <1>7

\* All nodes that lock in participants for a round lock in the same ones.
THEOREM AgreementOnBitset == Spec => []BitsetAgreement
<1>1. ASSUME IInv PROVE BitsetAgreement
  <2> SUFFICES ASSUME NEW a \in locks, NEW b \in locks, a.top = b.top, a.round = b.round
               PROVE  a.bitset = b.bitset
    BY DEF BitsetAgreement
  <2> DEFINE t == a.top
             r == a.round
  <2>1. t \in Tips /\ r \in Rounds
    BY <1>1 DEF IInv, TypeOK, Lock
  <2>2. /\ Cardinality(Voters(t, r, a.bitset)) >= Required
        /\ Cardinality(Voters(t, r, b.bitset)) >= Required
    BY <1>1 DEF IInv, LockOK
  <2>3. Voters(t, r, a.bitset) \in SUBSET Positions /\ Voters(t, r, b.bitset) \in SUBSET Positions
    BY DEF Voters
  <2>4. PICK p \in Voters(t, r, a.bitset) \cap Voters(t, r, b.bitset) : p \notin Doubtful(t, r)
    <3> HIDE DEF t, r
    <3> QED
      BY <2>1, <2>2, <2>3, QuorumsMeet
  <2>5. PICK m \in net : /\ m.type = handshake_bitset /\ m.top = t /\ m.pos = p
                         /\ m.key = Validators[t][r][p] /\ m.data = a.bitset
    BY <2>4, SMTT(20) DEF Voters
  <2>6. PICK o \in net : /\ o.type = handshake_bitset /\ o.top = t /\ o.pos = p
                         /\ o.key = Validators[t][r][p] /\ o.data = b.bitset
    BY <2>4 DEF Voters
  <2>7. m.round = r /\ o.round = r /\ m.key \in Nodes \ Unsteady
    <3>1. p \in Positions \ Doubtful(t, r) /\ handshake_bitset # block_template
      BY <2>3, <2>4 DEF handshake_bitset, block_template
    <3>2. m.type # block_template /\ o.type # block_template
      BY <2>5, <2>6, <3>1, Zenon
    <3> HIDE DEF t, r
    <3>3. m.round = r /\ m.key \in Nodes \ Unsteady
      <4>1. /\ m.top \in Tips /\ m.pos \in Positions \ Doubtful(m.top, r)
            /\ m.key = Validators[m.top][r][m.pos]
        BY <2>1, <2>5, <3>1
      <4> QED
        BY <1>1, <2>1, <2>5, <3>2, <4>1, RoundOfSure, Zenon
    <3>4. o.round = r
      <4>1. /\ o.top \in Tips /\ o.pos \in Positions \ Doubtful(o.top, r)
            /\ o.key = Validators[o.top][r][o.pos]
        BY <2>1, <2>6, <3>1
      <4> QED
        BY <1>1, <2>1, <2>6, <3>2, <4>1, RoundOfSure, Zenon
    <3> QED
      BY <3>3, <3>4
  <2>8. SteadyOK(m.key) /\ m \in SignedBy(m.key) /\ o \in SignedBy(m.key)
    BY <1>1, <2>5, <2>6, <2>7, Zenon DEF IInv, SignedBy
  <2>9. m = o
    <3>1. m.type = o.type /\ m.top = o.top /\ m.round = o.round
      BY <2>5, <2>6, <2>7, Zenon
    <3> QED
      BY <2>8, <3>1, Zenon DEF SteadyOK
  <2> QED
    BY <2>5, <2>6, <2>9
<1> QED
  BY <1>1, Invariance, PTL

\* The locked in participants are enough to sign a block: everyone who votes for a
\* bitset is in it.
LEMMA LockedInAreEnough == ASSUME IInv PROVE LockedCanSign
<1> SUFFICES ASSUME NEW l \in locks
             PROVE  Cardinality(l.bitset) >= Required
  BY DEF LockedCanSign
<1> DEFINE V == Voters(l.top, l.round, l.bitset)
<1>1. l.bitset \in SUBSET Positions /\ Cardinality(V) >= Required
  BY DEF IInv, TypeOK, Lock, LockOK
<1>2. V \subseteq l.bitset
  <2> SUFFICES ASSUME NEW p \in V PROVE p \in l.bitset
    OBVIOUS
  <2>1. PICK m \in net : m.type = handshake_bitset /\ m.pos = p /\ m.data = l.bitset
    BY DEF Voters
  <2> QED
    BY <2>1 DEF IInv, MessageOK
<1>3. IsFiniteSet(Positions)
  BY FinitePositions
<1>4. IsFiniteSet(l.bitset)
  BY <1>1, <1>3, FS_Subset
<1> HIDE DEF V
<1>5. /\ IsFiniteSet(V) /\ Cardinality(V) <= Cardinality(l.bitset)
  BY <1>2, <1>4, FS_Subset
<1> QED
  BY <1>1, <1>4, <1>5, FS_CardinalityType, SizeAssumption

\* The locked in participants are always enough to sign a block.
THEOREM LockedAreEnough == Spec => []LockedCanSign
BY LockedInAreEnough, Invariance, PTL

\* One round never produces two different blocks.
THEOREM AgreementOnBlock == Spec => []BlockAgreement
<1>1. ASSUME IInv PROVE BlockAgreement
  <2> SUFFICES ASSUME NEW a \in produced, NEW b \in produced,
                      a.top = b.top, a.round = b.round
               PROVE  a.block = b.block
    BY DEF BlockAgreement
  <2> DEFINE t == a.top
             r == a.round
  <2>1. /\ t \in Tips /\ r \in Rounds
        /\ a.signers \in SUBSET Positions /\ b.signers \in SUBSET Positions
    BY <1>1 DEF IInv, TypeOK, Produced
  <2>2. ProducedOK(a) /\ ProducedOK(b)
    BY <1>1 DEF IInv
  <2>3. Cardinality(a.signers) >= Required /\ Cardinality(b.signers) >= Required
    BY <2>2, SizeAssumption DEF ProducedOK
  <2>4. PICK p \in a.signers \cap b.signers : p \notin Doubtful(t, r)
    <3> HIDE DEF t, r
    <3> QED
      BY <2>1, <2>3, QuorumsMeet
  <2>5. PICK m \in net : /\ m.type = signed_block /\ m.top = t /\ m.pos = p
                         /\ m.key = Validators[t][r][p] /\ m.data = a.block
    BY <2>2, <2>4, SMTT(20) DEF ProducedOK
  <2>6. PICK o \in net : /\ o.type = signed_block /\ o.top = t /\ o.pos = p
                         /\ o.key = Validators[t][r][p] /\ o.data = b.block
    BY <2>2, <2>4, SMTT(20) DEF ProducedOK
  <2>7. m.round = r /\ o.round = r /\ m.key \in Nodes \ Unsteady
    <3>1. p \in Positions \ Doubtful(t, r) /\ signed_block # block_template
      BY <2>1, <2>4 DEF signed_block, block_template
    <3>2. m.type # block_template /\ o.type # block_template
      BY <2>5, <2>6, <3>1, Zenon
    <3> HIDE DEF t, r
    <3>3. m.round = r /\ m.key \in Nodes \ Unsteady
      <4>1. /\ m.top \in Tips /\ m.pos \in Positions \ Doubtful(m.top, r)
            /\ m.key = Validators[m.top][r][m.pos]
        BY <2>1, <2>5, <3>1
      <4> QED
        BY <1>1, <2>1, <2>5, <3>2, <4>1, RoundOfSure, Zenon
    <3>4. o.round = r
      <4>1. /\ o.top \in Tips /\ o.pos \in Positions \ Doubtful(o.top, r)
            /\ o.key = Validators[o.top][r][o.pos]
        BY <2>1, <2>6, <3>1
      <4> QED
        BY <1>1, <2>1, <2>6, <3>2, <4>1, RoundOfSure, Zenon
    <3> QED
      BY <3>3, <3>4
  <2>8. SteadyOK(m.key) /\ m \in SignedBy(m.key) /\ o \in SignedBy(m.key)
    BY <1>1, <2>5, <2>6, <2>7, Zenon DEF IInv, SignedBy
  <2>9. m = o
    <3>1. m.type = o.type /\ m.top = o.top /\ m.round = o.round
      BY <2>5, <2>6, <2>7, Zenon
    <3> QED
      BY <2>8, <3>1, Zenon DEF SteadyOK
  <2> QED
    BY <2>5, <2>6, <2>9
<1> QED
  BY <1>1, Invariance, PTL

-----------------------------------------------------------------------------
(* The second invariant: the stages of the ceremony *)

\* The second invariant holds initially.
LEMMA InitStagesInv == Init => StagesInv
<1> SUFFICES ASSUME Init PROVE StagesInv
  OBVIOUS
<1>1. ASSUME NEW n \in Nodes PROVE StageOK(n)
  <2>1. context[n].state = 0
    BY InitContextFacts DEF Init, InitContext, null_state
  <2>2. ~(context[n].state >= wait_for_round)
    BY <2>1 DEF wait_for_round
  <2> QED
    BY <2>2, Zenon DEF StageOK
<1>2. CommitBeforeReveal /\ \A b \in produced : BlockOK(b)
  BY DEF Init, CommitBeforeReveal
<1> QED
  BY <1>1, <1>2 DEF StagesInv, StagesOK

\* Every step of a node is right for the node, in both respects.
LEMMA EveryStep ==
    ASSUME IInv, StagesOK, Next
    PROVE  \E n \in Nodes : LocalStep(n) /\ Advances(n)
<1>1. IInv'
  BY NextIInv
<1>2. PICK n \in Nodes : \/ Main(n)
                         \/ \E m \in net : HandleMessage(n, m)
                         \/ ChainUpdate(n)
                         \/ Restart(n)
  BY DEF Next
<1>3. StageOK(n)
  BY DEF StagesOK
<1> SUFFICES LocalStep(n) /\ Advances(n)
  BY Zenon
<1>4. CASE WaitForNextBlock(n)
  BY <1>1, <1>3, <1>4, StepWaitForNextBlock, AdvanceBetweenRounds, Zenon
<1>5. CASE PrepareForRound(n)
  BY <1>1, <1>3, <1>5, StepPrepareForRound, AdvanceBetweenRounds, Zenon
<1>6. CASE WaitForRound(n)
  BY <1>1, <1>3, <1>6, StepWaitForRound, AdvanceToBitsets, Zenon
<1>7. CASE RelayFails(n)
  BY <1>1, <1>3, <1>7, StepRelayFails, AdvanceGivesUp, Zenon
<1>8. CASE SendAndWaitForHandshakes(n)
  BY <1>1, <1>3, <1>8, StepSendAndWaitForHandshakes, AdvanceSendAndWaitForHandshakes, Zenon
<1>9. CASE SendHandshakeBitsets(n)
  BY <1>1, <1>3, <1>9, StepSendHandshakeBitsets, AdvanceToBitsets, Zenon
<1>10. CASE WaitForHandshakeBitsets(n)
  BY <1>1, <1>3, <1>10, StepWaitForHandshakeBitsets, CountIsVotes,
     AdvanceWaitForHandshakeBitsets, Zenon
<1>11. CASE SendBlockTemplate(n)
  BY <1>1, <1>3, <1>11, StepSendBlockTemplate, AdvanceGivesUp, Zenon
<1>12. CASE WaitForBlockTemplate(n)
  BY <1>1, <1>3, <1>12, StepWaitForBlockTemplate, AdvanceWaitForBlockTemplate, Zenon
<1>13. CASE SendAndWaitForRandomValueHashes(n)
  BY <1>1, <1>3, <1>13, StepSendAndWaitForRandomValueHashes,
     AdvanceSendAndWaitForRandomValueHashes, Zenon
<1>14. CASE SendAndWaitForRandomValue(n)
  BY <1>1, <1>3, <1>14, StepSendAndWaitForRandomValue, AdvanceSendAndWaitForRandomValue,
     Zenon
<1>15. CASE SendAndWaitForSignedBlocks(n)
  BY <1>1, <1>3, <1>15, StepSendAndWaitForSignedBlocks, AdvanceSendAndWaitForSignedBlocks,
     Zenon
<1>16. CASE \E m \in net : HandleMessage(n, m)
  BY <1>1, <1>3, <1>16, StepHandleMessage, AdvanceHandleMessage, Zenon
<1>17. CASE ChainUpdate(n)
  BY <1>1, <1>3, <1>17, StepChainUpdate, AdvanceBetweenRounds, Zenon
<1>18. CASE Restart(n)
  BY <1>1, <1>3, <1>18, StepRestart, AdvanceBetweenRounds, Zenon
<1> QED
  BY <1>2, <1>4, <1>5, <1>6, <1>7, <1>8, <1>9, <1>10, <1>11, <1>12, <1>13, <1>14, <1>15,
     <1>16, <1>17, <1>18, Zenon DEF Main

\* The second invariant is preserved by every step.
LEMMA NextStagesInv == IInv /\ StagesInv /\ [Next]_vars => StagesInv'
<1> SUFFICES ASSUME IInv, StagesInv, [Next]_vars PROVE StagesInv'
  OBVIOUS
<1>1. CASE UNCHANGED vars
  <2>1. UNCHANGED <<context, net, locks, produced>>
    BY <1>1 DEF vars
  <2>2. StagesOK'
    BY <2>1, Zenon DEF StagesInv, StagesOK, StageOK, Collected, Complete, Assembly, LockOf,
                       Bitset, Stage
  <2>3. CommitBeforeReveal'
    BY <2>1, Zenon DEF StagesInv, CommitBeforeReveal
  <2>4. \A b \in produced' : BlockOK(b)'
    BY <2>1, Zenon DEF StagesInv, BlockOK
  <2> QED
    BY <2>2, <2>3, <2>4 DEF StagesInv
<1>2. CASE Next
  <2>1. PICK n \in Nodes : LocalStep(n) /\ Advances(n)
    BY <1>2, EveryStep DEF StagesInv
  <2> QED
    BY <2>1, StageSuffices
<1> QED
  BY <1>1, <1>2

\* In every reachable state both invariants hold.
THEOREM StagesInvariance == Spec => [](IInv /\ StagesInv)
BY InitIInv, NextIInv, InitStagesInv, NextStagesInv, PTL DEF Spec

\* In every reachable state, whatever a node goes on with is complete.
THEOREM StagesInOrder == Spec => []StagesOK
<1>1. StagesInv => StagesOK
  BY DEF StagesInv
<1> QED
  BY <1>1, StagesInvariance, PTL

\* A validator reveals its random value only after every locked in validator has
\* committed to one.
THEOREM CommitmentComesFirst == Spec => []CommitBeforeReveal
<1>1. StagesInv => CommitBeforeReveal
  BY DEF StagesInv
<1> QED
  BY <1>1, StagesInvariance, PTL

\* The random values of a block are one per participant, as committed to.
THEOREM ValuesAreCommitted == Spec => []RevealedAsCommitted
<1>1. StagesInv => RevealedAsCommitted
  BY DEF StagesInv, BlockOK, RevealedAsCommitted
<1> QED
  BY <1>1, StagesInvariance, PTL

\* A block that is handed to handle_block_found verifies.
THEOREM BlocksVerify == Spec => []ProducedVerifies
<1>1. IInv /\ StagesInv => ProducedVerifies
  <2> SUFFICES ASSUME IInv, StagesInv, NEW b \in produced
               PROVE  /\ Cardinality(b.signers) = Required
                      /\ b.signers \subseteq b.block.template.bitset
                      /\ b.block.template.round = b.round
                      /\ \A p \in b.signers :
                            \E m \in net : /\ m.type = signed_block
                                           /\ m.key = Validators[b.top][b.round][p]
                                           /\ m.data = b.block
    BY DEF ProducedVerifies
  <2>1. ProducedOK(b) /\ BlockOK(b)
    BY DEF IInv, StagesInv
  <2> QED
    BY <2>1, Zenon DEF ProducedOK, BlockOK
<1> QED
  BY <1>1, StagesInvariance, PTL

\* A node that goes on to select signatures has received enough of them: those of all
\* participants, since a bitset that is at least theirs and has no other bits is theirs.
THEOREM EnoughSignatures == Spec => []SignaturesSuffice
<1>1. IInv /\ StagesInv => SignaturesSuffice
  <2> SUFFICES ASSUME IInv, StagesInv, NEW n \in Nodes,
                      context[n].state = send_and_wait_for_signed_blocks,
                      NEW timed_out \in TimedOut(send_and_wait_for_signed_blocks),
                      LET d == WithSignatures(n)
                          enough == AtLeast(Bitset(d, signed_block), d.best_bitset)
                      IN  (timed_out \/ enough) /\ Enforce(d, signed_block, timed_out, enough)
               PROVE  Cardinality(Bitset(WithSignatures(n), signed_block)) >= Required
    BY Zenon DEF SignaturesSuffice
  <2> DEFINE c == context[n]
             own == OwnMessage(n, c, signed_block, c.final_block)
             d == WithSignatures(n)
             B == Bitset(d, signed_block)
  <2>1. AtLeast(B, d.best_bitset) /\ B \subseteq d.best_bitset
    BY Zenon DEF Enforce
  <2>2. B = d.best_bitset
    BY <2>1 DEF AtLeast
  <2>3. d.best_bitset = c.best_bitset
    <3>1. c.final_block \in FinalBlock
      BY NodeFacts, Zenon DEF RoleOK
    <3>2. /\ c.state = StageOf(signed_block)
          /\ signed_block \in (handshake .. signed_block) \ {handshake_bitset, block_template}
      BY Stages DEF send_and_wait_for_signed_blocks, handshake, handshake_bitset,
                    block_template, signed_block
    <3> DEFINE M == IF signed_block \in c.sent THEN {} ELSE {own}
    <3>3. Sends(n, c, signed_block, Drain(SendOnce(c, own), signed_block), M)
      BY <3>1, <3>2, SendingStage, Zenon
    <3>4. d = Drain(SendOnce(c, own), signed_block)
      BY DEF WithSignatures
    <3> QED
      BY <3>3, <3>4, Zenon DEF Sends, Grown
  <2>4. LockOf(n, c) \in locks
    <3>1. StageOK(n) /\ c.state >= wait_for_round /\ c.state >= send_block_template
      BY DEF StagesInv, StagesOK, wait_for_round, send_block_template,
             send_and_wait_for_signed_blocks
    <3> QED
      BY <3>1, StageNow
  <2>5. Cardinality(LockOf(n, c).bitset) >= Required
    BY <2>4, LockedInAreEnough DEF LockedCanSign
  <2>6. LockOf(n, c).bitset = c.best_bitset
    BY DEF LockOf
  <2> QED
    BY <2>2, <2>3, <2>5, <2>6
<1> QED
  BY <1>1, StagesInvariance, PTL

\* A steady node never signs for a round earlier than one it has signed for: what it
\* has signed is not of a later height or round than the one it is in, and it signs
\* only for that one.
THEOREM NeverBackward == Spec => NoBackwardSignature
<1> DEFINE Forward == \A m \in net' \ net : \A old \in net :
                         (m.key = old.key /\ m.key \notin Unsteady) =>
                            \/ HeightOf[old.top] < HeightOf[m.top]
                            \/ HeightOf[old.top] = HeightOf[m.top] /\ old.round <= m.round
<1>1. IInv /\ StagesInv /\ [Next]_vars => [Forward]_vars
  <2> SUFFICES ASSUME IInv, StagesInv, Next,
                      NEW m \in net' \ net, NEW old \in net,
                      m.key = old.key, m.key \notin Unsteady
               PROVE  \/ HeightOf[old.top] < HeightOf[m.top]
                      \/ HeightOf[old.top] = HeightOf[m.top] /\ old.round <= m.round
    BY Zenon
  <2>1. PICK n \in Nodes : LocalStep(n) /\ Advances(n)
    BY EveryStep DEF StagesInv
  <2>2. m.key = n /\ InItsRound(n, m)
    BY <2>1 DEF LocalStep, Advances
  <2> DEFINE c == context[n]
  <2>3. /\ m.top = c.top /\ m.round = c.round /\ c.state > wait_for_round
    BY <2>2 DEF InItsRound
  <2>4. c.top \in Tips /\ c.height = HeightOf[c.top]
    <3>1. c.state > wait_for_next_block
      BY <2>3, NodeFacts DEF wait_for_next_block, wait_for_round
    <3> QED
      BY <3>1, HeightOfTop
  <2>5. SteadyOK(n) /\ old \in SignedBy(n)
    BY <2>2, Zenon DEF IInv, SignedBy
  <2>6. /\ HeightOf[old.top] <= c.height
        /\ HeightOf[old.top] = c.height => old.round <= c.round
    BY <2>3, <2>5 DEF SteadyOK
  <2>7. HeightOf[old.top] \in Int /\ HeightOf[c.top] \in Int
    <3>1. old.top \in Tips
      BY MessageFields DEF IInv, TypeOK
    <3> QED
      BY <2>4, <3>1, ChainAssumption
  <2> QED
    BY <2>3, <2>4, <2>6, <2>7
<1>2. Spec => [][Forward]_vars
  BY <1>1, StagesInvariance, PTL DEF Spec
<1> QED
  BY <1>2 DEF NoBackwardSignature
=============================================================================
