-------------------------- MODULE CheckpointsProofs --------------------------
(***************************************************************************)
(* The inductive invariant of Checkpoints.tla, and that it implements      *)
(* Ledger.tla.                                                             *)
(***************************************************************************)
EXTENDS CheckpointsLemmas

(* A block of the alternative chain cannot be connected.                   *)
LEMMA ConnectFailsStep ==
    ASSUME IInv, NEW late \in BOOLEAN, ConnectFails(late)
    PROVE  IInv'
<1> DEFINE h == ChainHeight
           c == work.brought[h]
           t == IF late THEN TableAfter(cp, cull, h, c) ELSE cp
           last == IF late THEN CullAfter(cp, cull, h) ELSE cull
           d == work.path
           f == work.fork
           u == Detached(t, f)
<1>1. work.phase = "connect" /\ work # Idle
  BY DEF ConnectFails, Idle
<1>2. /\ SwitchOK /\ work \in Switch /\ f \in Nat \ {0} /\ f - 1 \in Nat
      /\ d \in Chains /\ Len(d) \in Nat /\ Len(d) \in Heights
      /\ work.old \in Chains /\ Len(work.old) \in Nat /\ work.brought \in Table
  BY <1>1, SwitchFacts
<1>3. /\ Len(chain) < Len(d) /\ chain = BlockAt(d, Len(chain)) /\ f - 1 <= Len(chain)
      /\ BringsOK(work.brought) /\ f - 1 <= Len(work.old)
      /\ BlockAt(d, f - 1) = BlockAt(work.old, f - 1)
      /\ \A b \in DOMAIN alt : ~Below(b, work.old)
      /\ f > immutable
  BY <1>1, <1>2 DEF SwitchOK
<1>4. h = Len(chain) + 1 /\ Len(chain) \in Nat /\ h \in Heights /\ h \in 1 .. Len(d)
      /\ Heights \subseteq Nat
  BY <1>2, <1>3, ChainFacts, MaxLenNat DEF Heights
<1>5. c \in Checkpoint \cup {None} /\ (c # None => c.sigs \in Signatures /\ h % Interval = 0)
  BY <1>2, <1>3, <1>4 DEF BringsOK, Table
<1>6. /\ t \in Table /\ TableOK(t) /\ last \in Nat
      /\ \A x \in Heights : x < h => t[x] \in {cp[x], None}
  <2>1. CASE late
    BY <2>1, <1>1, <1>2, <1>3, <1>5, NextBlockFacts, Zenon
  <2>2. CASE ~late
    BY <2>2, ChainFacts
  <2> QED
    BY <2>1, <2>2
<1>7. /\ cp' = u /\ cull' = Smaller(last, f) /\ chain' = BlockAt(chain, f - 1)
      /\ invalid' = invalid \cup {BlockAt(d, k) : k \in h .. Len(d)}
      /\ alt' = [a \in DOMAIN alt \ {BlockAt(d, h)} |-> alt[a]]
      /\ work' = IF Len(work.old) < f THEN Idle ELSE [work EXCEPT !.phase = "restore"]
      /\ UNCHANGED <<immutable, voted>>
  BY DEF ConnectFails, Without, NextOf
<1> HIDE DEF t, last, c
<1>8. /\ u \in Table /\ TableOK(u)
      /\ \A x \in Heights : x >= f => u[x] = None
      /\ \A x \in Heights : x < f => u[x] = t[x]
  BY <1>2, <1>6, DetachedDeletes
<1> HIDE DEF u
<1>9. /\ chain' \in Chains /\ Len(chain') = f - 1 /\ chain' = BlockAt(work.old, f - 1)
  <2>1. f - 1 \in 0 .. Len(chain) /\ Len(chain) \in 0 .. Len(d)
    BY <1>2, <1>3, <1>4
  <2>2. BlockAt(chain, f - 1) = BlockAt(d, f - 1)
    BY <2>1, <1>2, <1>3, AncestorOfAncestor
  <2> QED
    BY <2>1, <2>2, <1>3, <1>7, ChainFacts, Ancestor
<1>10. /\ DOMAIN alt' \subseteq DOMAIN alt /\ \A a \in DOMAIN alt' : alt'[a] = alt[a]
       /\ alt' \in [DOMAIN alt' -> Checkpoint \cup {None}]
  BY <1>7 DEF IInv, TypeOK
<1>11. TypeOK'
  <2>1. work' \in {Idle} \cup Switch
    BY <1>2, <1>7 DEF Switch
  <2>2. \A k \in h .. Len(d) : BlockAt(d, k) \in Blocks
    <3>1. \A k \in h .. Len(d) : k \in 1 .. Len(d)
      BY <1>2, <1>4
    <3>2. d \in Blocks
      BY <1>1, SwitchFacts
    <3> QED
      BY <3>1, <3>2, ParametersAssumption DEF BlockAt
  <2>3. cull' \in Nat
    BY <1>2, <1>6, <1>7 DEF Smaller
  <2> QED
    BY <2>1, <2>2, <2>3, <1>7, <1>8, <1>9, <1>10 DEF IInv, TypeOK
<1>12. TableOK(cp)' /\ NoneAhead'
  <2>1. \A x \in Heights : x > f - 1 => x >= f
    BY <1>2, <1>4
  <2> QED
    BY <2>1, <1>7, <1>8, <1>9 DEF TableOK, NoneAhead
<1>13. AlternativesOffMain'
  <2>1. ASSUME NEW a \in DOMAIN alt', Below(a, chain') PROVE FALSE
    <3>1. a \in DOMAIN alt /\ a \in Chains
      BY <1>10, BlockFacts DEF IInv, TypeOK
    <3>2. f - 1 \in 0 .. Len(work.old)
      BY <1>2, <1>3
    <3>3. Below(a, work.old)
      BY <2>1, <3>1, <3>2, <1>2, <1>9, BelowAncestor
    <3> QED
      BY <3>1, <3>3, <1>3
  <2> QED
    BY <2>1 DEF AlternativesOffMain, OnMain, Below
<1>14. ASSUME work' # Idle PROVE SwitchOK'
  <2>1. Len(work.old) >= f /\ work' = [work EXCEPT !.phase = "restore"]
    BY <1>2, <1>7, <1>14
  <2>2. /\ work'.phase = "restore" /\ work'.fork = f /\ work'.path = d
        /\ work'.brought = work.brought /\ work'.old = work.old /\ work'.oldcp = work.oldcp
    BY <2>1, <1>2 DEF Switch
  <2>3. f - 1 < Len(work.old) /\ \A x \in f .. f - 1 : FALSE
    BY <2>1, <1>2
  <2>4. \A x \in 0 .. f - 1 : u[x] # None => work.oldcp[x] # None
    <3>1. \A x \in 0 .. f - 1 : x \in Heights /\ x < h /\ x < f
      BY <1>2, <1>3, <1>4, MaxLenNat DEF Heights
    <3> QED
      BY <3>1, <1>2, <1>6, <1>8 DEF SwitchOK
  <2>5. \A a \in DOMAIN alt' : ~Below(a, work.old)
    BY <1>3, <1>10
  <2>6. f - 1 <= f - 1
    BY <1>2
  <2> QED
    BY <1>2, <1>3, <1>7, <1>9, <2>2, <2>3, <2>4, <2>5, <2>6 DEF SwitchOK
<1> QED
  BY <1>10, <1>11, <1>12, <1>13, <1>14 DEF IInv

(* The rollback adds the blocks of the old chain again, each with the      *)
(* checkpoint its height had, and prunes nothing above the fork.           *)
LEMMA RestoredFacts ==
    ASSUME IInv, RestoreNext
    PROVE  /\ Len(chain') = ChainHeight /\ chain' \in Chains
           /\ chain' = BlockAt(work.old, ChainHeight)
           /\ ChainHeight \in 1 .. Len(work.old)
           /\ cp' \in Table /\ TableOK(cp') /\ cull' \in Nat
           /\ \A x \in Heights : x > ChainHeight => cp'[x] = None
           /\ \A x \in 0 .. work.fork - 1 : cp'[x] # None => work.oldcp[x] # None
           /\ \A x \in work.fork .. ChainHeight :
                 cp'[x] = IF x >= StoreInterval THEN work.oldcp[x] ELSE None
<1> DEFINE h == ChainHeight
           c == work.oldcp[h]
           t == TableAfter(cp, cull, h, c)
           d == work.old
           f == work.fork
<1>1. work.phase = "restore" /\ work # Idle
  BY DEF RestoreNext, Idle
<1>2. /\ SwitchOK /\ f \in Nat \ {0} /\ f - 1 \in Nat
      /\ d \in Chains /\ Len(d) \in Nat /\ Len(d) \in Heights /\ work.oldcp \in Table
  BY <1>1, SwitchFacts
<1>3. /\ Len(chain) < Len(d) /\ chain = BlockAt(d, Len(chain)) /\ f - 1 <= Len(chain)
      /\ TableOK(work.oldcp) /\ f > immutable
      /\ \A x \in Heights : x > Len(d) => work.oldcp[x] = None
      /\ ImmutableHeight(work.oldcp, Len(d) + 1) <= immutable
      /\ \A x \in f .. Len(chain) :
            cp[x] = IF x >= StoreInterval THEN work.oldcp[x] ELSE None
      /\ \A x \in 0 .. f - 1 : cp[x] # None => work.oldcp[x] # None
  <2>1. (IF work.phase = "connect" THEN work.path ELSE work.old) = work.old
    BY <1>1
  <2> QED
    BY <1>1, <1>2, <2>1 DEF SwitchOK
<1>4. h = Len(chain) + 1 /\ Len(chain) \in Nat /\ h \in Heights \ {0} /\ h \in 1 .. Len(d)
      /\ Heights \subseteq Nat /\ h \in Nat /\ immutable \in Nat
  BY <1>2, <1>3, ChainFacts, MaxLenNat DEF Heights
<1>5. c \in Checkpoint \cup {None} /\ (c # None => c.sigs \in Signatures /\ h % Interval = 0)
  BY <1>2, <1>3, <1>4 DEF TableOK, Table
<1>6. /\ t \in Table /\ TableOK(t)
      /\ t[h] = IF h < StoreInterval THEN None ELSE c
      /\ \A x \in Heights : x > h => t[x] = None
      /\ \A x \in Heights : x < h => t[x] \in {cp[x], None}
      /\ \A x \in Heights : x < h /\ x >= ImmutableHeight(cp, h) => t[x] = cp[x]
      /\ CullAfter(cp, cull, h) \in Nat
      /\ BlockAt(d, h) \in Chains /\ Len(BlockAt(d, h)) = h
  BY <1>1, <1>2, <1>3, <1>5, NextBlockFacts
<1>7. chain' = BlockAt(d, h) /\ cp' = t /\ cull' = CullAfter(cp, cull, h)
  BY DEF RestoreNext, NextOf
<1> HIDE DEF t, c
<1>8. ImmutableHeight(cp, h) < f
  <2>1. ASSUME NEW x \in Heights, cp[x] # None
        PROVE  work.oldcp[x] # None /\ x <= Len(d) + 1
    <3>1. x <= Len(chain)
      BY <2>1, <1>4 DEF IInv, NoneAhead
    <3>2. x \in 0 .. f - 1 \/ x \in f .. Len(chain)
      BY <3>1, <1>2, <1>4
    <3>3. work.oldcp[x] # None
      BY <2>1, <3>2, <1>3
    <3> QED
      BY <3>1, <3>3, <1>2, <1>3, <1>4
  <2>2. cp \in Table /\ TableOK(cp) /\ Len(d) + 1 \in Nat
    BY <1>2, ChainFacts
  <2>3. ImmutableHeight(cp, h) <= ImmutableHeight(work.oldcp, Len(d) + 1)
    BY <2>1, <2>2, <1>2, <1>3, <1>4, ImmutableGrows, Zenon
  <2>4. ImmutableHeight(cp, h) \in Nat /\ ImmutableHeight(work.oldcp, Len(d) + 1) \in Nat
    <3>1. ImmutableHeight(cp, h) \in Heights
      BY <2>2, <1>4, ImmutableIsBeforeLast
    <3>2. ImmutableHeight(work.oldcp, Len(d) + 1) \in Heights
      BY <2>2, <1>2, <1>3, ImmutableIsBeforeLast
    <3> QED
      BY <3>1, <3>2, <1>4, Zenon
  <2> QED
    BY <2>3, <2>4, <1>2, <1>3, <1>4
<1>9. ImmutableHeight(cp, h) \in Nat
  BY <1>4, ChainFacts, ImmutableIsBeforeLast
<1>10. \A x \in 0 .. f - 1 : t[x] # None => work.oldcp[x] # None
  <2>1. \A x \in 0 .. f - 1 : x \in Heights /\ x < h
    BY <1>2, <1>3, <1>4, MaxLenNat DEF Heights
  <2> QED
    BY <2>1, <1>3, <1>6
<1>11. ASSUME NEW x \in f .. h
       PROVE  t[x] = IF x >= StoreInterval THEN work.oldcp[x] ELSE None
  <2>0. StoreInterval \in Nat
    BY ParametersAssumption
  <2>1. CASE x = h
    BY <2>0, <2>1, <1>4, <1>6 DEF c
  <2>2. CASE x # h
    <3>1. x \in f .. Len(chain) /\ x \in Heights /\ x < h /\ x >= ImmutableHeight(cp, h)
      BY <2>2, <1>2, <1>4, <1>8, <1>9, MaxLenNat DEF Heights
    <3>2. t[x] = cp[x]
      BY <3>1, <1>6
    <3> QED
      BY <3>1, <3>2, <1>3
  <2> QED
    BY <2>1, <2>2
<1> QED
  BY <1>4, <1>6, <1>7, <1>10, <1>11

(* A block of the old chain is added again.                                *)
LEMMA RestoreNextStep ==
    ASSUME IInv, RestoreNext
    PROVE  IInv'
<1> DEFINE h == ChainHeight
           d == work.old
           f == work.fork
<1>1. work.phase = "restore" /\ work # Idle
  BY DEF RestoreNext, Idle
<1>2. /\ SwitchOK /\ work \in Switch /\ f \in Nat \ {0}
      /\ d \in Chains /\ Len(d) \in Nat
  BY <1>1, SwitchFacts
<1>3. /\ Len(chain') = h /\ chain' \in Chains /\ chain' = BlockAt(d, h)
      /\ h \in 1 .. Len(d)
      /\ cp' \in Table /\ TableOK(cp') /\ cull' \in Nat
      /\ \A x \in Heights : x > h => cp'[x] = None
      /\ \A x \in 0 .. f - 1 : cp'[x] # None => work.oldcp[x] # None
      /\ \A x \in f .. h : cp'[x] = IF x >= StoreInterval THEN work.oldcp[x] ELSE None
  BY RestoredFacts
<1>4. h = Len(chain) + 1 /\ Len(chain) \in Nat
  BY ChainFacts
<1>5. /\ work' = IF h = Len(d) THEN Idle ELSE work
      /\ UNCHANGED <<immutable, alt, invalid, voted>>
  BY DEF RestoreNext
<1>6. TypeOK'
  BY <1>3, <1>5 DEF IInv, TypeOK
<1>7. TableOK(cp)' /\ NoneAhead'
  BY <1>3 DEF TableOK, NoneAhead
<1>8. CASE h = Len(d)
  <2>1. work' = Idle /\ chain' = d
    BY <1>2, <1>3, <1>5, <1>8, AncestorSelf
  <2>2. \A a \in DOMAIN alt : ~Below(a, d)
    BY <1>2 DEF SwitchOK
  <2>3. AlternativesOffMain'
    BY <2>1, <2>2, <1>5 DEF AlternativesOffMain, OnMain, Below
  <2> QED
    BY <2>1, <2>3, <1>5, <1>6, <1>7 DEF IInv
<1>9. CASE h # Len(d)
  <2>1. work' = work
    BY <1>5, <1>9
  <2>2. h < Len(d) /\ f - 1 <= h
    BY <1>1, <1>2, <1>3, <1>4, <1>9 DEF SwitchOK
  <2>3. SwitchOK'
    BY <2>1, <2>2, <1>1, <1>2, <1>3, <1>5 DEF SwitchOK
  <2> QED
    BY <2>1, <2>3, <1>1, <1>5, <1>6, <1>7 DEF IInv, AlternativesOffMain
<1> QED
  BY <1>8, <1>9

-----------------------------------------------------------------------------
(* The theorems.                                                           *)

(* The invariant holds at first.                                           *)
LEMMA InitIInv == Init => IInv
<1> SUFFICES ASSUME Init PROVE IInv
  OBVIOUS
<1>1. 0 \in Heights /\ <<>> \in Chains
  <2>1. 0 \in Heights
    BY MaxLenNat DEF Heights
  <2>2. <<>> \in Seq(Label) /\ Len(<<>>) = 0
    OBVIOUS
  <2> QED
    BY <2>1, <2>2, ChainsAreSequences, Zenon
<1>2. [block |-> <<>>, sigs |-> 0] \in Checkpoint
  BY <1>1 DEF Checkpoint
<1>3. cp \in Table
  BY <1>2 DEF Init, Table
<1>4. TableOK(cp)
  BY <1>1, <1>2, ParametersAssumption DEF Init, TableOK
<1>5. chain \in Chains
  BY <1>1, ParametersAssumption DEF Init
<1>6. TypeOK
  BY <1>3, <1>5 DEF Init, TypeOK
<1>7. NoneAhead
  <2>1. Len(chain) \in Nat
    BY <1>5, ChainsAreSequences, MaxLenNat DEF Heights
  <2>2. \A x \in Heights : x > Len(chain) => x # 0
    BY <2>1
  <2> QED
    BY <2>2 DEF Init, NoneAhead
<1> QED
  BY <1>4, <1>6, <1>7 DEF Init, IInv, AlternativesOffMain

(* Every step preserves the invariant.                                     *)
LEMMA NextIInv == IInv /\ [Next]_vars => IInv'
<1> SUFFICES ASSUME IInv, [Next]_vars PROVE IInv'
  OBVIOUS
<1>1. CASE UNCHANGED vars
  BY <1>1 DEF vars, IInv, TypeOK, TableOK, NoneAhead, AlternativesOffMain, OnMain, SwitchOK
<1>2. CASE Next
  BY <1>2, AddBlockStep, AddBlockAbortsStep, AltRefusedStep, AltDisconnectedStep,
     AltStoredStep, StartSwitchStep, ConnectNextStep, ConnectFailsStep, RestoreNextStep,
     VoteCheckpointStep, PopBlocksStep, RestartStep DEF Next
<1> QED
  BY <1>1, <1>2

(* The inductive invariant of the checkpoints: during a switch the chain   *)
(* stays on one of the two branches above the locked height, and what the  *)
(* rollback needs is remembered.                                           *)
THEOREM Invariance == Spec => []IInv
BY InitIInv, NextIInv, PTL DEF Spec

(* The variables have their types.                                         *)
THEOREM TypeCorrect == Spec => []TypeOK
<1>1. IInv => TypeOK
  BY DEF IInv
<1> QED
  BY <1>1, Invariance, PTL

(* blockchain_detached leaves no checkpoint above the chain, although it   *)
(* steps down by whole intervals.                                          *)
THEOREM NoCheckpointAhead == Spec => []NoneAhead
<1>1. IInv => NoneAhead
  BY DEF IInv
<1> QED
  BY <1>1, Invariance, PTL

(* No block is both on the main chain and an alternative block.            *)
THEOREM AlternativesAreOffMain == Spec => []AlternativesOffMain
<1>1. IInv => AlternativesOffMain
  BY DEF IInv
<1> QED
  BY <1>1, Invariance, PTL

(* The rollback of a failed switch is never refused by a checkpoint.       *)
THEOREM RollbackIsPossible == Spec => []RollbackSucceeds
<1>1. IInv => RollbackSucceeds
  <2> SUFFICES ASSUME IInv, work.phase = "restore"
               PROVE  ChainHeight <= Len(work.old) /\ Passes(NextOf(work.old))
    BY DEF RollbackSucceeds
  <2>1. work # Idle
    BY DEF Idle
  <2>2. SwitchOK /\ work.old \in Chains /\ Len(work.old) \in Nat
    BY <2>1, SwitchFacts
  <2>3. Len(chain) < Len(work.old) /\ chain = BlockAt(work.old, Len(chain))
    BY <2>2 DEF SwitchOK
  <2>4. ChainHeight = Len(chain) + 1 /\ Len(chain) \in Nat
    BY ChainFacts
  <2>5. ChainHeight \in 0 .. Len(work.old) /\ ChainHeight \in Heights
    BY <2>1, <2>2, <2>3, <2>4, SwitchFacts, MaxLenNat DEF Heights
  <2>6. Len(NextOf(work.old)) = ChainHeight
    BY <2>2, <2>5, Ancestor DEF NextOf
  <2>7. cp[ChainHeight] = None
    BY <2>4, <2>5 DEF IInv, NoneAhead
  <2> QED
    BY <2>5, <2>6, <2>7, <2>2, <2>4 DEF Passes
<1> QED
  BY <1>1, Invariance, PTL

(* A switch that fails leaves the chain and the checkpoints above the fork *)
(* as they were.                                                           *)
THEOREM FailedSwitchIsUndone == Spec => FailedSwitchRestores
<1> DEFINE Undone ==
      work.phase = "restore" /\ work' = Idle =>
         /\ chain' = work.old
         /\ \A h \in work.fork .. Len(chain') :
               h >= StoreInterval => cp'[h] = work.oldcp[h]
<1>1. IInv /\ [Next]_vars => [Undone]_vars
  <2> SUFFICES ASSUME IInv, Next, work.phase = "restore", work' = Idle
               PROVE  /\ chain' = work.old
                      /\ \A h \in work.fork .. Len(chain') :
                            h >= StoreInterval => cp'[h] = work.oldcp[h]
    OBVIOUS
  <2>1. work # Idle /\ work.phase # "connect"
    BY DEF Idle
  <2>2. RestoreNext
    <3>1. \A b \in Blocks : ~Alternative(b)
      BY <2>1 DEF Alternative
    <3>2. \A b \in Blocks, n \in Signatures \cup {0} : ~AddBlock(b, n) /\ ~AddBlockAborts(b, n)
      BY <2>1 DEF AddBlock, AddBlockAborts
    <3>3. \A b \in Blocks, n \in Signatures \cup {0} : ~AltStored(b, n) /\ ~StartSwitch(b, n)
      BY <3>1 DEF AltStored, StartSwitch
    <3>4. \A b \in Blocks : ~AltRefused(b) /\ ~AltDisconnected(b)
      BY <3>1 DEF AltRefused, AltDisconnected
    <3>5. ~ConnectNext /\ ~Restart /\ \A late \in BOOLEAN : ~ConnectFails(late)
      BY <2>1 DEF ConnectNext, ConnectFails, Restart
    <3>6. \A b \in Blocks, n \in Signatures : ~VoteCheckpoint(b, n)
      BY <2>1 DEF VoteCheckpoint
    <3>7. \A n \in Heights : ~PopBlocks(n)
      BY <2>1 DEF PopBlocks
    <3> QED
      BY <3>2, <3>3, <3>4, <3>5, <3>6, <3>7 DEF Next
  <2>3. ChainHeight = Len(work.old)
    BY <2>1, <2>2 DEF RestoreNext
  <2>4. /\ chain' = BlockAt(work.old, ChainHeight) /\ Len(chain') = ChainHeight
        /\ \A x \in work.fork .. ChainHeight :
              cp'[x] = IF x >= StoreInterval THEN work.oldcp[x] ELSE None
    BY <2>2, RestoredFacts
  <2>5. work.old \in Chains
    BY <2>1, SwitchFacts
  <2> QED
    BY <2>3, <2>4, <2>5, AncestorSelf
<1> QED
  BY <1>1, Invariance, PTL DEF Spec, FailedSwitchRestores

-----------------------------------------------------------------------------
(* The refinement of Ledger.tla.                                           *)

(* Dropping blocks above height l keeps those up to l.                     *)
LEMMA AncestorKeeps ==
    ASSUME NEW c \in Chains, NEW n \in 0 .. Len(c), NEW l \in Nat, l <= n
    PROVE  Promise!Keeps(c, BlockAt(c, n), l)
<1>1. Len(c) \in Nat /\ n \in Nat
  BY ChainsAreSequences, MaxLenNat DEF Heights
<1>2. Len(BlockAt(c, n)) = n /\ \A h \in 1 .. n : BlockAt(c, n)[h] = c[h]
  BY Ancestor
<1>3. \A h \in 1 .. Len(c) : h <= l => h \in 1 .. n /\ h <= n
  BY <1>1
<1> QED
  BY <1>2, <1>3 DEF Promise!Keeps

(* A longer chain keeps all blocks of its ancestors.                       *)
LEMMA DescendantKeeps ==
    ASSUME NEW d \in Chains, NEW n \in 0 .. Len(d), NEW l
    PROVE  Promise!Keeps(BlockAt(d, n), d, l)
<1>1. Len(d) \in Nat /\ n \in Nat
  BY ChainsAreSequences, MaxLenNat DEF Heights
<1>2. Len(BlockAt(d, n)) = n /\ \A h \in 1 .. n : BlockAt(d, n)[h] = d[h]
  BY Ancestor
<1>3. \A h \in 1 .. n : h <= Len(d)
  BY <1>1
<1> QED
  BY <1>2, <1>3 DEF Promise!Keeps

(* A chain keeps its own blocks.                                           *)
LEMMA SelfKeeps ==
    ASSUME NEW c \in Chains, NEW l
    PROVE  Promise!Keeps(c, c, l)
<1>1. Len(c) \in Nat
  BY ChainsAreSequences, MaxLenNat DEF Heights
<1> QED
  BY <1>1 DEF Promise!Keeps

(* The locked height when no switch is in progress and when one is.        *)
LEMMA LockedFacts ==
    ASSUME IInv
    PROVE  /\ Locked \in Nat
           /\ work = Idle => Locked = ImmutableNow
           /\ work # Idle => Locked = immutable
           /\ immutable <= Locked
BY ChainFacts DEF Locked

(* The locked height after a step, likewise.                               *)
LEMMA LockedFactsNext ==
    (IInv => /\ Locked \in Nat
             /\ work = Idle => Locked = ImmutableNow
             /\ work # Idle => Locked = immutable
             /\ immutable <= Locked)'
<1>1. IInv => /\ Locked \in Nat
              /\ work = Idle => Locked = ImmutableNow
              /\ work # Idle => Locked = immutable
              /\ immutable <= Locked
  BY LockedFacts
<1> QED
  BY <1>1, PTL

(* A step that keeps the locked blocks and does not lower the locked       *)
(* height is one the promise allows.                                       *)
LEMMA AdoptStep ==
    ASSUME IInv, IInv', Promise!Keeps(chain, chain', Locked), Locked' >= Locked
    PROVE  Promise!Next
<1>1. chain' \in Seq(Label)
  BY ChainsAreSequences DEF IInv, TypeOK
<1>2. Locked' \in Nat
  BY LockedFactsNext
<1> QED
  BY <1>1, <1>2 DEF Promise!Next, Promise!Adopt

(* The immutable height after a step.                                      *)
LEMMA ImmutableNext ==
    (IInv => /\ ImmutableNow = Larger(immutable, ImmutableHeight(cp, ChainHeight))
             /\ ImmutableHeight(cp, ChainHeight) \in Nat
             /\ ChainHeight = Len(chain) + 1)'
<1>1. IInv => /\ ImmutableNow = Larger(immutable, ImmutableHeight(cp, ChainHeight))
              /\ ImmutableHeight(cp, ChainHeight) \in Nat
              /\ ChainHeight = Len(chain) + 1
  BY ChainFacts
<1> QED
  BY <1>1, PTL

(* The locked height does not fall when the immutable one does not.        *)
LEMMA LockedGrows ==
    ASSUME IInv, IInv', work = Idle, work' = Idle, immutable' \in {immutable, ImmutableNow},
           ImmutableHeight(cp, ChainHeight) <= ImmutableHeight(cp, ChainHeight)'
    PROVE  Locked' >= Locked
<1>1. Locked = Larger(immutable, ImmutableHeight(cp, ChainHeight))
  BY ChainFacts, LockedFacts
<1>2. Locked' = Larger(immutable', ImmutableHeight(cp, ChainHeight)')
  BY ImmutableNext, LockedFactsNext
<1>3. /\ immutable \in Nat /\ ImmutableHeight(cp, ChainHeight) \in Nat
      /\ ImmutableHeight(cp, ChainHeight)' \in Nat
      /\ ImmutableNow = Larger(immutable, ImmutableHeight(cp, ChainHeight))
  BY ChainFacts, ImmutableNext
<1> QED
  BY <1>1, <1>2, <1>3 DEF Larger

(* A block is added, or added and taken back.                              *)
LEMMA AddBlockAdopts ==
    ASSUME IInv, IInv', NEW b \in Blocks, NEW n \in Signatures \cup {0},
           AddBlock(b, n) \/ AddBlockAborts(b, n)
    PROVE  Promise!Next
<1> DEFINE t == TableAfter(cp, cull, Len(b), Kept(b, n))
           i == ImmutableHeight(cp, ChainHeight)
<1>1. /\ MayHave(b, n) /\ work = Idle /\ work' = Idle /\ immutable' = immutable
      /\ Len(b) = ChainHeight /\ BlockAt(b, Len(chain)) = chain
  BY DEF AddBlock, AddBlockAborts
<1>2. /\ t \in Table /\ TableOK(t)
      /\ \A x \in Heights : x < Len(b) /\ x >= i => t[x] = cp[x]
      /\ i <= ImmutableHeight(t, Len(b) + 1)
  BY <1>1, OnTopFacts
<1>3. /\ b \in Chains /\ chain \in Chains /\ Len(chain) \in Nat /\ Len(b) = Len(chain) + 1
      /\ ChainHeight = Len(chain) + 1 /\ ChainHeight \in Nat \ {0}
      /\ cp \in Table /\ TableOK(cp) /\ Heights \subseteq Nat
  BY <1>1, BlockFacts, ChainFacts, MaxLenNat DEF Heights
<1>4. CASE AddBlock(b, n)
  <2>1. chain' = b /\ cp' = t
    BY <1>4 DEF AddBlock
  <2>2. i <= ImmutableHeight(cp, ChainHeight)'
    BY <1>2, <2>1 DEF ChainHeight
  <2>3. Locked' >= Locked
    BY <1>1, <2>2, LockedGrows
  <2>4. Promise!Keeps(BlockAt(b, Len(chain)), b, Locked)
    <3>1. Len(chain) \in 0 .. Len(b)
      BY <1>3
    <3> QED
      BY <3>1, <1>3, DescendantKeeps
  <2> QED
    BY <1>1, <2>1, <2>3, <2>4, AdoptStep
<1>5. CASE AddBlockAborts(b, n)
  <2> DEFINE u == Detached(t, ChainHeight)
  <2>1. chain' = chain /\ cp' = u
    BY <1>5 DEF AddBlockAborts
  <2>2. u \in Table /\ TableOK(u) /\ \A x \in Heights : x < ChainHeight => u[x] = t[x]
    BY <1>2, <1>3, DetachedDeletes
  <2> HIDE DEF t, u
  <2>3. ASSUME NEW x \in Heights, cp[x] # None, x <= ChainHeight, x >= i
        PROVE  u[x] # None /\ x <= ChainHeight
    <3>1. x < ChainHeight
      BY <2>3, <1>3 DEF IInv, NoneAhead
    <3> QED
      BY <2>2, <2>3, <3>1, <1>1, <1>2
  <2>4. i <= ImmutableHeight(u, ChainHeight)
    BY <2>2, <2>3, <1>3, ImmutableGrows, Zenon
  <2>5. i <= ImmutableHeight(cp, ChainHeight)'
    BY <2>1, <2>4 DEF ChainHeight
  <2>6. Locked' >= Locked
    BY <1>1, <2>5, LockedGrows
  <2>7. Promise!Keeps(chain, chain', Locked)
    BY <1>3, <2>1, SelfKeeps
  <2> QED
    BY <2>6, <2>7, AdoptStep
<1> QED
  BY <1>4, <1>5

(* An alternative block is refused, cleaned up or stored.                  *)
LEMMA AlternativeAdopts ==
    ASSUME IInv, IInv', NEW b \in Blocks, NEW n \in Signatures \cup {0},
           AltRefused(b) \/ AltDisconnected(b) \/ AltStored(b, n)
    PROVE  Promise!Next
<1>1. /\ work = Idle /\ work' = Idle /\ immutable' = ImmutableNow
      /\ chain' = chain /\ cp' = cp
  BY DEF AltRefused, AltDisconnected, AltStored, Alternative
<1>2. ImmutableHeight(cp, ChainHeight)' = ImmutableHeight(cp, ChainHeight)
  BY <1>1 DEF ChainHeight
<1>3. ImmutableHeight(cp, ChainHeight) \in Nat /\ chain \in Chains
  BY ChainFacts
<1>4. Locked' >= Locked
  BY <1>1, <1>2, <1>3, LockedGrows
<1> QED
  BY <1>1, <1>3, <1>4, SelfKeeps, AdoptStep

(* A quorum has voted for a checkpoint.                                    *)
LEMMA VoteAdopts ==
    ASSUME IInv, IInv', NEW b \in Blocks, NEW n \in Signatures, VoteCheckpoint(b, n)
    PROVE  Promise!Next
<1>1. work = Idle /\ work' = Idle /\ immutable' = immutable /\ chain' = chain
      /\ cp' = [cp EXCEPT ![Len(b)] = [block |-> b, sigs |-> n]]
  BY ParametersAssumption, Zenon DEF VoteCheckpoint, CheckpointOf
<1>2. /\ chain \in Chains /\ cp \in Table /\ TableOK(cp) /\ ChainHeight \in Nat
  BY ChainFacts
<1>3. cp' \in Table /\ TableOK(cp')
  BY DEF IInv, TypeOK, TableOK
<1>4. [block |-> b, sigs |-> n] # None
  <2>1. [block |-> b, sigs |-> n] \in Checkpoint
    BY BlockFacts DEF Checkpoint
  <2> QED
    BY <2>1, ParametersAssumption
<1>5. \A x \in Heights : cp[x] # None => cp'[x] # None
  BY <1>1, <1>2, <1>4 DEF Table
<1>6. ImmutableHeight(cp, ChainHeight) <= ImmutableHeight(cp', ChainHeight)
  BY <1>2, <1>3, <1>5, ImmutableGrows
<1>7. ImmutableHeight(cp, ChainHeight) <= ImmutableHeight(cp, ChainHeight)'
  BY <1>1, <1>6 DEF ChainHeight
<1>8. Locked' >= Locked
  BY <1>1, <1>7, LockedGrows
<1> QED
  BY <1>1, <1>2, <1>8, SelfKeeps, AdoptStep

(* A switch starts: it pops only blocks above the locked height.           *)
LEMMA StartSwitchAdopts ==
    ASSUME IInv, IInv', NEW b \in Blocks, NEW n \in Signatures \cup {0}, StartSwitch(b, n)
    PROVE  Promise!Next
<1> DEFINE f == AltFront(b)
<1>1. f > ImmutableNow /\ f - 1 \in 0 .. Len(chain)
  BY ForkFacts DEF StartSwitch
<1>2. chain' = BlockAt(chain, f - 1) /\ immutable' = ImmutableNow /\ work = Idle /\ work' # Idle
  BY DEF StartSwitch, Alternative, Idle
<1>3. chain \in Chains /\ ImmutableNow \in Nat
  BY ChainFacts
<1>4. Locked = ImmutableNow /\ Locked' = ImmutableNow
  BY <1>2, LockedFacts, LockedFactsNext
<1>5. ImmutableNow <= f - 1
  <2>1. f \in Nat
    BY FrontFacts, BlockFacts
  <2> HIDE DEF f
  <2> QED
    BY <2>1, <1>1, <1>3
<1> HIDE DEF f
<1>6. Promise!Keeps(chain, chain', Locked)
  BY <1>1, <1>2, <1>3, <1>4, <1>5, AncestorKeeps
<1>7. Locked' >= Locked
  BY <1>3, <1>4
<1> QED
  BY <1>6, <1>7, AdoptStep

(* A block of either branch is added during a switch.                      *)
LEMMA NextBlockAdopts ==
    ASSUME IInv, IInv', ConnectNext \/ RestoreNext
    PROVE  Promise!Next
<1> DEFINE d == IF work.phase = "connect" THEN work.path ELSE work.old
           h == ChainHeight
<1>1. work # Idle /\ chain' = BlockAt(d, h) /\ immutable' = immutable
  BY DEF ConnectNext, RestoreNext, NextOf, Idle
<1>2. d \in Chains /\ Len(d) \in Nat /\ Len(chain) < Len(d) /\ chain = BlockAt(d, Len(chain))
  BY <1>1, SwitchFacts DEF SwitchOK
<1>3. Len(chain) \in Nat /\ h = Len(chain) + 1
  BY ChainFacts
<1> HIDE DEF d
<1>4. h \in 0 .. Len(d) /\ Len(chain) \in 0 .. h
  BY <1>2, <1>3
<1>5. chain' \in Chains /\ Len(chain') = h /\ BlockAt(chain', Len(chain)) = chain
  BY <1>1, <1>2, <1>4, Ancestor, AncestorOfAncestor
<1>6. Promise!Keeps(chain, chain', Locked)
  <2>1. Len(chain) \in 0 .. Len(chain')
    BY <1>4, <1>5
  <2>2. Promise!Keeps(BlockAt(chain', Len(chain)), chain', Locked)
    BY <2>1, <1>5, DescendantKeeps
  <2> QED
    BY <2>2, <1>5
<1>7. Locked' >= Locked
  <2>1. Locked = immutable /\ immutable <= Locked' /\ Locked' \in Nat /\ immutable \in Nat
    BY <1>1, LockedFacts, LockedFactsNext, ChainFacts
  <2> QED
    BY <2>1
<1> QED
  BY <1>6, <1>7, AdoptStep

(* A switch fails: it pops only blocks above the locked height.            *)
LEMMA ConnectFailsAdopts ==
    ASSUME IInv, IInv', NEW late \in BOOLEAN, ConnectFails(late)
    PROVE  Promise!Next
<1>1. work # Idle /\ chain' = BlockAt(chain, work.fork - 1) /\ immutable' = immutable
  BY DEF ConnectFails, Idle
<1>2. /\ work.fork \in Nat \ {0} /\ work.fork - 1 \in Nat /\ work.fork > immutable
      /\ work.fork - 1 <= Len(chain)
  BY <1>1, SwitchFacts DEF SwitchOK
<1>3. chain \in Chains /\ Len(chain) \in Nat /\ immutable \in Nat
  BY ChainFacts
<1>4. Locked = immutable /\ immutable <= Locked' /\ Locked' \in Nat
  BY <1>1, LockedFacts, LockedFactsNext
<1>5. Promise!Keeps(chain, chain', Locked)
  <2>1. work.fork - 1 \in 0 .. Len(chain) /\ immutable <= work.fork - 1
    BY <1>2, <1>3
  <2> QED
    BY <2>1, <1>1, <1>3, <1>4, AncestorKeeps
<1>6. Locked' >= Locked
  BY <1>3, <1>4
<1> QED
  BY <1>5, <1>6, AdoptStep

(* Popping blocks is the cut the promise allows.                           *)
LEMMA PopBlocksCuts ==
    ASSUME IInv, IInv', NEW n \in Heights, PopBlocks(n)
    PROVE  Promise!Next
<1> DEFINE u == Detached(cp, n + 1)
<1>1. /\ work = Idle /\ work' = Idle /\ immutable' = immutable
      /\ chain' = BlockAt(chain, n) /\ cp' = u /\ n < Len(chain) /\ CanPop
  BY DEF PopBlocks
<1>2. /\ chain \in Chains /\ Len(chain) \in Nat /\ ChainHeight = Len(chain) + 1
      /\ cp \in Table /\ TableOK(cp) /\ immutable \in Nat
      /\ ImmutableHeight(cp, ChainHeight) \in Nat
      /\ ImmutableNow = Larger(immutable, ImmutableHeight(cp, ChainHeight))
  BY ChainFacts
<1>3. n \in Nat /\ n \in 0 .. Len(chain) /\ n + 1 \in Nat \ {0} /\ Heights \subseteq Nat
  BY <1>1, <1>2, MaxLenNat DEF Heights
<1>4. /\ u \in Table /\ TableOK(u)
      /\ \A x \in Heights : x >= n + 1 => u[x] = None
      /\ \A x \in Heights : x < n + 1 => u[x] = cp[x]
  BY <1>2, <1>3, DetachedDeletes
<1> HIDE DEF u
<1>5. chain' \in Chains /\ Len(chain') = n /\ ChainHeight' = n + 1
  BY <1>1, <1>2, <1>3, Ancestor DEF ChainHeight
<1>6. ImmutableHeight(u, n + 1) <= ImmutableHeight(cp, ChainHeight)
  <2>1. ASSUME NEW x \in Heights, u[x] # None
        PROVE  cp[x] # None /\ x <= ChainHeight
    BY <2>1, <1>1, <1>2, <1>3, <1>4
  <2> QED
    BY <2>1, <1>2, <1>3, <1>4, ImmutableGrows
<1>7. Locked' \in 0 .. Locked
  <2>1. Locked' = Larger(immutable, ImmutableHeight(u, n + 1))
    BY <1>1, <1>5, ImmutableNext, LockedFactsNext
  <2>2. ImmutableHeight(u, n + 1) \in Nat
    BY <1>1, <1>5, ImmutableNext
  <2>3. Locked = Larger(immutable, ImmutableHeight(cp, ChainHeight))
    BY <1>1, <1>2, LockedFacts
  <2> QED
    BY <2>1, <2>2, <2>3, <1>2, <1>6 DEF Larger
<1>8. chain' \in Seq(Label)
  BY <1>5, ChainsAreSequences
<1>9. Promise!Keeps(chain', chain, Len(chain'))
  BY <1>1, <1>2, <1>3, DescendantKeeps
<1> QED
  BY <1>1, <1>5, <1>7, <1>8, <1>9 DEF Promise!Next, Promise!Cut

(* A restart forgets the immutable height in memory.                       *)
LEMMA RestartForgets ==
    ASSUME IInv, IInv', Restart
    PROVE  Promise!Next
<1>1. work = Idle /\ work' = Idle /\ immutable' = 0 /\ chain' = chain /\ cp' = cp /\ CanRestart
  BY DEF Restart
<1>2. /\ immutable \in Nat /\ ImmutableHeight(cp, ChainHeight) \in Nat
      /\ ImmutableNow = Larger(immutable, ImmutableHeight(cp, ChainHeight))
  BY ChainFacts
<1>3. ImmutableHeight(cp, ChainHeight)' = ImmutableHeight(cp, ChainHeight)
  BY <1>1 DEF ChainHeight
<1>4. Locked' = Larger(0, ImmutableHeight(cp, ChainHeight))
  BY <1>1, <1>3, ImmutableNext, LockedFactsNext
<1>5. Locked = Larger(immutable, ImmutableHeight(cp, ChainHeight))
  BY <1>1, <1>2, LockedFacts
<1>6. Locked' \in 0 .. Locked
  BY <1>2, <1>4, <1>5 DEF Larger
<1> QED
  BY <1>1, <1>6 DEF Promise!Next, Promise!Forget

(* The daemon implements the promise of Ledger.tla: no order of blocks,    *)
(* alternative blocks, votes, failed and successful switches replaces a    *)
(* locked block or lowers the locked height; only pop_blocks and a restart *)
(* do.                                                                     *)
THEOREM Refinement == Spec => LockedBlocksStay
<1>1. Init => Promise!Init
  <2> SUFFICES ASSUME Init PROVE Promise!Init
    OBVIOUS
  <2>1. IInv
    BY InitIInv
  <2>2. chain \in Seq(Label) /\ ChainHeight \in Nat /\ cp \in Table /\ TableOK(cp)
    BY <2>1, ChainFacts, ChainsAreSequences
  <2>3. ImmutableHeight(cp, ChainHeight) = 0
    <3>1. /\ ImmutableHeight(cp, ChainHeight) \in Heights
          /\ cp[ImmutableHeight(cp, ChainHeight)] # None
      BY <2>2, ImmutableIsBeforeLast
    <3> QED
      BY <3>1 DEF Init
  <2>4. Locked = 0
    BY <2>3 DEF Init, Locked, Larger
  <2>5. (work # Idle) = FALSE
    BY Zenon DEF Init
  <2> QED
    BY <2>2, <2>4, <2>5 DEF Promise!Init
<1>2. IInv /\ IInv' /\ [Next]_vars => [Promise!Next]_(Promise!vars)
  <2> SUFFICES ASSUME IInv, IInv', [Next]_vars PROVE [Promise!Next]_(Promise!vars)
    OBVIOUS
  <2>1. CASE UNCHANGED vars
    BY <2>1 DEF vars, Promise!vars, Locked, ChainHeight
  <2>2. CASE Next
    <3>1. ASSUME Next PROVE Promise!Next
      BY <3>1, AddBlockAdopts, AlternativeAdopts, VoteAdopts, StartSwitchAdopts,
         NextBlockAdopts, ConnectFailsAdopts, PopBlocksCuts, RestartForgets DEF Next
    <3> QED
      BY <2>2, <3>1
  <2> QED
    BY <2>1, <2>2
<1> QED
  BY <1>1, <1>2, Invariance, PTL DEF Spec, LockedBlocksStay, Promise!Spec

=============================================================================
