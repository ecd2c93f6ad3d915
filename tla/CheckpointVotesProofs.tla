------------------------ MODULE CheckpointVotesProofs ------------------------
(***************************************************************************)
(* Theorems about CheckpointVotes.tla, for every number of nodes, every    *)
(* quorum and threshold, every interval, buffer and lifetime of votes, and *)
(* every tree of blocks.                                                   *)
(***************************************************************************)
EXTENDS CheckpointVotes, FiniteSetTheorems, SequenceTheorems, TLAPS

Table == [Heights -> Checkpoint \cup {None}]

(* The checkpoints of a table are voted for, given the votes signed.       *)
Sound(t, votes) ==
    \A h \in Heights :
        t[h] # None => /\ Len(t[h].block) = h
                       /\ Enough(t[h].voters)
                       /\ t[h].voters \subseteq VotersFor(votes, t[h].block)

-----------------------------------------------------------------------------
(* Arithmetic of the interval.                                             *)

(* What the proofs use of the parameters.                                  *)
LEMMA Numbers ==
    /\ MinVotes \in Nat \ {0} /\ Interval \in Nat \ {0}
    /\ Buffer \in Nat \ {0} /\ Lifetime \in Nat
BY ParametersAssumption

(* The numbers with remainder zero are the multiples.                      *)
LEMMA Multiples ==
    ASSUME NEW I \in Nat \ {0}, NEW a \in Nat
    PROVE  a % I = 0 <=> \E p \in Nat : a = I * p
<1> DEFINE p == a \div I
           r == a % I
<1>1. a = I * p + r /\ p \in Nat /\ r \in 0 .. I - 1
  OBVIOUS
<1>2. ASSUME r = 0 PROVE \E x \in Nat : a = I * x
  BY <1>1, <1>2
<1>3. ASSUME NEW x \in Nat, a = I * x PROVE r = 0
  <2> DEFINE k == x - p
  <2> HIDE DEF p, r
  <2>1. k \in Int /\ I * k = r
    BY <1>1, <1>3
  <2> HIDE DEF k
  <2>2. ~(k >= 1)
    <3>1. ASSUME k >= 1 PROVE I * k >= I
      BY <2>1, <3>1
    <3> QED
      BY <3>1, <2>1, <1>1
  <2>3. ~(k <= -1)
    <3>1. ASSUME k <= -1 PROVE I * k < 0
      BY <2>1, <3>1
    <3> QED
      BY <3>1, <2>1, <1>1
  <2>4. k = 0
    BY <2>1, <2>2, <2>3
  <2> QED
    BY <2>1, <2>4
<1> QED
  BY <1>2, <1>3, Zenon

(* The sum of two multiples is a multiple.                                 *)
LEMMA SumOfMultiples ==
    ASSUME NEW I \in Nat \ {0}, NEW a \in Nat, NEW b \in Nat, a % I = 0, b % I = 0
    PROVE  (a + b) % I = 0
<1>1. PICK p \in Nat : a = I * p
  BY Multiples, Zenon
<1>2. PICK q \in Nat : b = I * q
  BY Multiples
<1>3. a + b = I * (p + q) /\ p + q \in Nat /\ a + b \in Nat
  BY <1>1, <1>2
<1> QED
  BY <1>3, Multiples, Zenon

(* Rounding up gives the multiple at or above a number.                    *)
LEMMA RoundUpFacts ==
    ASSUME NEW n \in Nat
    PROVE  RoundUp(n) \in Nat /\ RoundUp(n) >= n /\ RoundUp(n) % Interval = 0
<1> DEFINE I == Interval
           m == n + I - 1
           p == m \div I
           r == m % I
<1>0. I \in Nat \ {0}
  BY Numbers
<1>1. m \in Nat
  BY <1>0
<1> HIDE DEF m, I
<1>2. m = I * p + r /\ p \in Nat /\ r \in 0 .. I - 1
  BY <1>0, <1>1
<1>3. RoundUp(n) = p * I
  BY DEF RoundUp, m, I
<1> HIDE DEF p, r
<1>4. p * I = I * p /\ I * p \in Nat
  BY <1>0, <1>2
<1>5. I * p >= n
  BY <1>0, <1>2, <1>4 DEF m
<1>6. RoundUp(n) = I * p /\ RoundUp(n) \in Nat
  BY <1>3, <1>4
<1>7. RoundUp(n) % I = 0
  BY <1>0, <1>2, <1>6, Multiples
<1> QED
  BY <1>5, <1>6, <1>7 DEF I

(* Taking the remainder off gives the multiple at or below a number.       *)
LEMMA RoundDownFacts ==
    ASSUME NEW n \in Nat
    PROVE  n - (n % Interval) \in Nat /\ (n - (n % Interval)) % Interval = 0
<1> DEFINE I == Interval
           p == n \div I
           r == n % I
<1>0. I \in Nat \ {0}
  BY Numbers
<1> HIDE DEF I
<1>1. n = I * p + r /\ p \in Nat /\ r \in 0 .. I - 1
  BY <1>0
<1> HIDE DEF p
<1>2. n - r = I * p /\ I * p \in Nat
  BY <1>0, <1>1
<1>3. n - r \in Nat
  BY <1>2
<1>4. (n - r) % I = 0
  BY <1>0, <1>1, <1>2, <1>3, Multiples, Zenon
<1> QED
  BY <1>3, <1>4 DEF I, r
-----------------------------------------------------------------------------
(* Blocks, votes and voters.                                               *)

(* A chain has a natural length, a block a positive one.                   *)
LEMMA ChainLength ==
    /\ \A c \in Chains : c \in Seq(Label) /\ Len(c) \in Nat
    /\ \A b \in Blocks : b \in Chains /\ Len(b) \in Heights /\ Len(b) \in Nat \ {0}
    /\ Heights \subseteq Nat \ {0}
<1>1. Blocks \subseteq Seq(Label) \ {<<>>}
  BY ParametersAssumption
<1>2. \A b \in Blocks : Len(b) \in Nat \ {0}
  BY <1>1
<1>3. \A c \in Chains : c \in Seq(Label)
  <2>1. <<>> \in Seq(Label)
    OBVIOUS
  <2> QED
    BY <1>1, <2>1, Zenon DEF Chains
<1> QED
  BY <1>2, <1>3 DEF Chains, Heights

(* The ancestors of a block are blocks, at the height asked for.           *)
LEMMA Ancestor ==
    /\ \A b \in Blocks : \A h \in 1 .. Len(b) :
          BlockAt(b, h) \in Blocks /\ Len(BlockAt(b, h)) = h
    /\ \A c \in Chains : \A h \in 0 .. Len(c) :
          BlockAt(c, h) \in Chains /\ Len(BlockAt(c, h)) = h
<1>1. ASSUME NEW b \in Blocks, NEW h \in 1 .. Len(b)
      PROVE  BlockAt(b, h) \in Blocks /\ Len(BlockAt(b, h)) = h
  <2>1. b \in Seq(Label) /\ Len(b) \in Nat
    BY ChainLength
  <2>2. BlockAt(b, h) \in Blocks
    BY ParametersAssumption DEF BlockAt
  <2>3. Len(SubSeq(b, 1, h)) = h
    BY <2>1
  <2> QED
    BY <2>2, <2>3 DEF BlockAt
<1>2. ASSUME NEW c \in Chains, NEW h \in 0 .. Len(c)
      PROVE  BlockAt(c, h) \in Chains /\ Len(BlockAt(c, h)) = h
  <2>1. CASE h = 0
    <3>1. c \in Seq(Label)
      BY ChainLength
    <3>2. SubSeq(c, 1, 0) = <<>>
      BY <3>1
    <3> QED
      BY <2>1, <3>2 DEF BlockAt, Chains
  <2>2. CASE h # 0
    <3>1. Len(c) \in Nat
      BY ChainLength
    <3>2. h \in 1 .. Len(c) /\ Len(c) # 0
      BY <2>2, <3>1
    <3>3. c # <<>>
      BY <3>2
    <3>4. c \in Blocks
      BY <3>3 DEF Chains
    <3> QED
      BY <1>1, <3>2, <3>4 DEF Chains
  <2> QED
    BY <2>1, <2>2
<1> QED
  BY <1>1, <1>2

(* More votes have more voters.                                            *)
LEMMA VotersGrow ==
    ASSUME NEW S, NEW T, S \subseteq T, NEW b
    PROVE  VotersFor(S, b) \subseteq VotersFor(T, b) /\ VotersFor(S, b) \subseteq Validators
BY DEF VotersFor

(* More voters are enough if fewer are, and no voters never are.           *)
LEMMA EnoughGrows ==
    ASSUME NEW S, NEW T, S \subseteq T, T \subseteq Validators, Enough(S)
    PROVE  Enough(T) /\ S # {}
<1>1. IsFiniteSet(T)
  BY ParametersAssumption, FS_Subset
<1>2. Cardinality(S) <= Cardinality(T) /\ IsFiniteSet(S)
  BY <1>1, FS_Subset
<1>3. Cardinality(S) \in Nat /\ Cardinality(T) \in Nat
  BY <1>1, <1>2, FS_CardinalityType
<1>4. Cardinality(S) >= MinVotes
  BY DEF Enough
<1>5. Cardinality(T) >= MinVotes
  BY <1>2, <1>3, <1>4, Numbers
<1>6. Cardinality(S) # 0
  BY <1>3, <1>4, Numbers
<1> QED
  BY <1>5, <1>6, FS_EmptySet DEF Enough

(* The own votes of a node are for distinct heights from last on and below *)
(* the new value of last, which is again a multiple of the interval.       *)
LEMMA OwnVoteFacts ==
    ASSUME NEW n \in Nodes, NEW b \in Blocks, NEW target \in Nat,
           last[n] \in Nat, last[n] % Interval = 0, VotesNow(b, target)
    PROVE  /\ OwnVotes(n, b, target) \subseteq Vote
           /\ \A v \in OwnVotes(n, b, target) :
                /\ v.voter = n
                /\ v.block = BlockAt(b, Len(v.block))
                /\ Len(v.block) \in last[n] .. LastAfter(n, b, target) - 1
                /\ Len(v.block) < Len(b)
           /\ LastAfter(n, b, target) \in Nat
           /\ LastAfter(n, b, target) >= last[n]
           /\ LastAfter(n, b, target) % Interval = 0
<1> DEFINE from == VoteFrom(n, b, target)
           low == Latest(b, target) - Lifetime
<1>1. Len(b) \in Nat \ {0}
  BY ChainLength
<1>2. low \in Nat
  <2>1. Latest(b, target) \in Nat
    BY <1>1 DEF Latest, Larger
  <2> QED
    BY <2>1, Numbers DEF VotesNow
<1>3. from \in Nat /\ from >= last[n] /\ from % Interval = 0
  <2>1. RoundUp(low) \in Nat /\ RoundUp(low) % Interval = 0
    BY <1>2, RoundUpFacts
  <2>2. from = RoundUp(low) \/ (from = last[n] /\ ~(RoundUp(low) > last[n]))
    BY DEF VoteFrom, Larger
  <2>3. from = RoundUp(low) => RoundUp(low) > last[n] \/ from = last[n]
    BY DEF VoteFrom, Larger
  <2> HIDE DEF from, low
  <2> QED
    BY <2>1, <2>2, <2>3
<1> HIDE DEF from, low
<1>4. LastAfter(n, b, target) = IF from >= Len(b) THEN from ELSE from + RoundUp(Len(b) - from)
  BY DEF LastAfter, from
<1>5. /\ LastAfter(n, b, target) \in Nat
      /\ LastAfter(n, b, target) >= from
      /\ LastAfter(n, b, target) >= Len(b)
      /\ LastAfter(n, b, target) % Interval = 0
  <2>1. CASE from >= Len(b)
    BY <1>1, <1>3, <1>4, <2>1
  <2>2. CASE ~(from >= Len(b))
    <3>1. Len(b) - from \in Nat
      BY <1>1, <1>3, <2>2
    <3>2. /\ RoundUp(Len(b) - from) \in Nat
          /\ RoundUp(Len(b) - from) >= Len(b) - from
          /\ RoundUp(Len(b) - from) % Interval = 0
      BY <3>1, RoundUpFacts
    <3>3. LastAfter(n, b, target) = from + RoundUp(Len(b) - from)
      BY <1>4, <2>2
    <3>4. (from + RoundUp(Len(b) - from)) % Interval = 0
      BY <1>3, <3>2, SumOfMultiples, Numbers
    <3> QED
      BY <1>1, <1>3, <3>2, <3>3, <3>4
  <2> QED
    BY <2>1, <2>2
<1>6. ASSUME NEW v \in OwnVotes(n, b, target)
      PROVE  /\ v \in Vote
             /\ v.voter = n
             /\ v.block = BlockAt(b, Len(v.block))
             /\ Len(v.block) \in from .. Len(b) - 1
  <2>1. PICK w \in Validators \cap {n}, h \in VoteHeights(n, b, target) :
            v = [voter |-> w, block |-> BlockAt(b, h)]
    BY DEF OwnVotes
  <2>2. h \in from .. Len(b) - 1 /\ (h - from) % Interval = 0 /\ h >= Buffer
    BY <2>1 DEF VoteHeights, from
  <2>3. h \in 1 .. Len(b)
    BY <1>1, <1>3, <2>2, Numbers
  <2>4. BlockAt(b, h) \in Blocks /\ Len(BlockAt(b, h)) = h
    BY <2>3, Ancestor
  <2>5. h % Interval = 0
    <3>1. h - from \in Nat /\ from + (h - from) = h
      BY <1>1, <1>3, <2>2
    <3>2. (from + (h - from)) % Interval = 0
      BY <1>3, <2>2, <3>1, SumOfMultiples, Numbers, Zenon
    <3> QED
      BY <3>1, <3>2
  <2>6. v \in Vote
    BY <2>1, <2>4, <2>5 DEF Vote, Votable
  <2> QED
    BY <2>1, <2>2, <2>4, <2>6
<1>7. ASSUME NEW v \in OwnVotes(n, b, target)
      PROVE  /\ Len(v.block) \in last[n] .. LastAfter(n, b, target) - 1
             /\ Len(v.block) < Len(b)
  <2>1. Len(v.block) \in from .. Len(b) - 1
    BY <1>6
  <2> QED
    BY <1>1, <1>3, <1>5, <2>1
<1>8. LastAfter(n, b, target) >= last[n]
  BY <1>3, <1>5
<1> QED
  BY <1>5, <1>6, <1>7, <1>8
-----------------------------------------------------------------------------
(* The table of checkpoints.                                               *)

(* A sound table stays sound when more votes are signed.                   *)
LEMMA SoundGrows ==
    ASSUME NEW t, NEW S, NEW T, S \subseteq T, Sound(t, S)
    PROVE  Sound(t, T)
BY VotersGrow, Zenon DEF Sound

(* Updating a sound table with enough signed votes for a block keeps it    *)
(* sound, changes it at the height of the block only and if the chain has  *)
(* that height, and takes no votes from a checkpoint of the same block.    *)
LEMMA UpdatedFacts ==
    ASSUME NEW t \in Table, NEW votes, NEW b \in Votable, NEW voters, NEW height \in Nat,
           Sound(t, votes), voters \subseteq VotersFor(votes, b), Enough(voters)
    PROVE  /\ Updated(t, b, voters, height) \in Table
           /\ Sound(Updated(t, b, voters, height), votes)
           /\ \A h \in Heights : Updated(t, b, voters, height)[h] # None =>
                 t[h] # None \/ h < height
           /\ \A h \in Heights :
                 t[h] # None /\ Updated(t, b, voters, height)[h] # None
                    /\ Updated(t, b, voters, height)[h].block = t[h].block
                 => t[h].voters \subseteq Updated(t, b, voters, height)[h].voters
<1> DEFINE l == Len(b)
           old == t[l]
           u == Updated(t, b, voters, height)
           merged == [block |-> b, voters |-> old.voters \cup voters]
           new == [block |-> b, voters |-> voters]
<1>1. b \in Blocks /\ l \in Heights
  BY ChainLength DEF Votable
<1>2. voters \subseteq Validators
  BY VotersGrow
<1>3. old \in Checkpoint \cup {None}
  BY <1>1 DEF Table
<1>4. CASE old # None /\ old.block = b
  <2>1. old.voters \subseteq Validators /\ old.voters \subseteq VotersFor(votes, b)
    <3>1. old.voters \subseteq Validators
      BY <1>3, <1>4 DEF Checkpoint
    <3>2. old.voters \subseteq VotersFor(votes, old.block)
      BY <1>1, <1>4 DEF Sound
    <3> QED
      BY <1>4, <3>1, <3>2
  <2>2. u = [t EXCEPT ![l] = merged]
    BY <1>4 DEF Updated
  <2>3. Enough(old.voters \cup voters)
    BY <1>2, <2>1, EnoughGrows
  <2>4. merged \in Checkpoint /\ merged # None
    BY <1>2, <2>1, ParametersAssumption DEF Checkpoint
  <2>5. u \in Table
    BY <1>1, <2>2, <2>4 DEF Table
  <2>6. \A h \in Heights : u[h] = IF h = l THEN merged ELSE t[h]
    BY <1>1, <2>2 DEF Table
  <2> HIDE DEF u, old
  <2>7. Sound(u, votes)
    <3> SUFFICES ASSUME NEW h \in Heights, u[h] # None
                 PROVE  /\ Len(u[h].block) = h
                        /\ Enough(u[h].voters)
                        /\ u[h].voters \subseteq VotersFor(votes, u[h].block)
      BY DEF Sound
    <3>1. CASE h = l
      <4>1. u[h] = merged
        BY <2>6, <3>1, Zenon
      <4>2. u[h].block = b /\ u[h].voters = old.voters \cup voters
        BY <4>1
      <4>3. old.voters \cup voters \subseteq VotersFor(votes, b)
        BY <2>1
      <4> QED
        BY <2>3, <3>1, <4>2, <4>3, Zenon
    <3>2. CASE h # l
      BY <2>6, <3>2 DEF Sound
    <3> QED
      BY <3>1, <3>2
  <2>8. \A h \in Heights : u[h] # None => t[h] # None
    BY <1>4, <2>6 DEF old
  <2>9. \A h \in Heights : t[h].voters \subseteq u[h].voters
    BY <2>6 DEF old
  <2> QED
    BY <2>5, <2>7, <2>8, <2>9 DEF u
<1>5. CASE ~(old # None /\ old.block = b) /\ l < height
  <2>2. u = [t EXCEPT ![l] = new]
    BY <1>5 DEF Updated
  <2>4. new \in Checkpoint /\ new # None
    BY <1>2, ParametersAssumption DEF Checkpoint
  <2>5. u \in Table
    BY <1>1, <2>2, <2>4 DEF Table
  <2>6. \A h \in Heights : u[h] = IF h = l THEN new ELSE t[h]
    BY <1>1, <2>2 DEF Table
  <2> HIDE DEF u
  <2>7. Sound(u, votes)
    <3> SUFFICES ASSUME NEW h \in Heights, u[h] # None
                 PROVE  /\ Len(u[h].block) = h
                        /\ Enough(u[h].voters)
                        /\ u[h].voters \subseteq VotersFor(votes, u[h].block)
      BY DEF Sound
    <3>1. CASE h = l
      BY <2>6, <3>1
    <3>2. CASE h # l
      BY <2>6, <3>2 DEF Sound
    <3> QED
      BY <3>1, <3>2
  <2>8. \A h \in Heights : u[h] # None => t[h] # None \/ h < height
    BY <1>5, <2>6
  <2>9. \A h \in Heights : t[h] # None /\ u[h].block = t[h].block
            => t[h].voters \subseteq u[h].voters
    BY <1>5, <2>6
  <2> QED
    BY <2>5, <2>7, <2>8, <2>9 DEF u
<1>6. CASE ~(old # None /\ old.block = b) /\ ~(l < height)
  <2>1. u = t
    BY <1>6 DEF Updated
  <2> QED
    BY <2>1
<1> QED
  BY <1>4, <1>5, <1>6, Zenon

(* The table after a node voted: as after an update at every height it     *)
(* voted on.                                                               *)
LEMMA TableAfterOwnFacts ==
    ASSUME NEW n \in Nodes, NEW own, NEW votes, NEW l \in Nat, cp[n] \in Table,
           pool[n] \subseteq votes, own \subseteq votes, own \subseteq Vote,
           \A v \in own : Len(v.block) < l, Sound(cp[n], votes)
    PROVE  /\ TableAfterOwn(n, own) \in Table
           /\ Sound(TableAfterOwn(n, own), votes)
           /\ \A h \in Heights : TableAfterOwn(n, own)[h] # None =>
                 cp[n][h] # None \/ h < l
           /\ \A h \in Heights :
                 cp[n][h] # None /\ TableAfterOwn(n, own)[h] # None
                    /\ TableAfterOwn(n, own)[h].block = cp[n][h].block
                 => cp[n][h].voters \subseteq TableAfterOwn(n, own)[h].voters
<1> DEFINE t == cp[n]
           u == TableAfterOwn(n, own)
           newAt(h) == {v \in own \ pool[n] : Len(v.block) = h}
           blockAt(h) == (CHOOSE v \in newAt(h) : TRUE).block
           votersAt(h) == VotersFor(pool[n] \cup own, blockAt(h))
<1>1. \A h \in Heights :
          u[h] = IF newAt(h) = {} \/ ~Enough(votersAt(h)) THEN t[h]
                 ELSE Updated(t, blockAt(h), votersAt(h), h + 1)[h]
  BY Zenon DEF TableAfterOwn
<1>2. DOMAIN u = Heights /\ u = [h \in Heights |-> u[h]]
  <2> DEFINE f(h) == IF newAt(h) = {} \/ ~Enough(votersAt(h)) THEN t[h]
                     ELSE Updated(t, blockAt(h), votersAt(h), h + 1)[h]
  <2>1. u = [h \in Heights |-> f(h)]
    BY Zenon DEF TableAfterOwn
  <2> HIDE DEF f, u
  <2> QED
    BY <2>1
<1> HIDE DEF u
<1>3. ASSUME NEW h \in Heights
      PROVE  /\ u[h] \in Checkpoint \cup {None}
             /\ u[h] # None => /\ Len(u[h].block) = h
                               /\ Enough(u[h].voters)
                               /\ u[h].voters \subseteq VotersFor(votes, u[h].block)
             /\ u[h] # None => t[h] # None \/ h < l
             /\ t[h] # None /\ u[h] # None /\ u[h].block = t[h].block
                   => t[h].voters \subseteq u[h].voters
  <2>1. CASE newAt(h) = {} \/ ~Enough(votersAt(h))
    <3>1. u[h] = t[h]
      BY <1>1, <2>1, Zenon
    <3> QED
      BY <3>1 DEF Table, Sound
  <2>2. CASE ~(newAt(h) = {} \/ ~Enough(votersAt(h)))
    <3>1. PICK v \in newAt(h) : blockAt(h) = v.block
      BY <2>2, Zenon
    <3>2. v \in own /\ Len(v.block) = h /\ v \in Vote
      BY <3>1
    <3>3. blockAt(h) \in Votable /\ h < l
      BY <3>1, <3>2 DEF Vote
    <3>4. votersAt(h) \subseteq VotersFor(votes, blockAt(h)) /\ Enough(votersAt(h))
      BY <2>2, VotersGrow
    <3>5. u[h] = Updated(t, blockAt(h), votersAt(h), h + 1)[h]
      BY <1>1, <2>2, Zenon
    <3>6. h + 1 \in Nat
      BY ChainLength
    <3> DEFINE w == Updated(t, blockAt(h), votersAt(h), h + 1)
    <3> HIDE DEF blockAt, votersAt, newAt
    <3>7. /\ w \in Table
          /\ Sound(w, votes)
          /\ t[h] # None /\ w[h] # None /\ w[h].block = t[h].block
                => t[h].voters \subseteq w[h].voters
      BY <3>3, <3>4, <3>6, UpdatedFacts, Zenon
    <3> HIDE DEF w
    <3>8. u[h] = w[h]
      BY <3>5, Zenon DEF w
    <3> QED
      BY <3>3, <3>7, <3>8, Zenon DEF Table, Sound
  <2> QED
    BY <2>1, <2>2, Zenon
<1> HIDE DEF t
<1>4. u \in Table
  BY <1>2, <1>3 DEF Table
<1>5. Sound(u, votes)
  BY <1>3, Zenon DEF Sound
<1> QED
  BY <1>3, <1>4, <1>5, Zenon DEF t, u
-----------------------------------------------------------------------------
(* Every step preserves the invariant and takes no votes from a checkpoint.*)

(* The conjuncts of the invariant for one node.                            *)
LEMMA NodeFacts ==
    ASSUME IInv, NEW n \in Nodes
    PROVE  /\ chain[n] \in Chains /\ Len(chain[n]) \in Nat
           /\ last[n] \in Nat /\ last[n] % Interval = 0
           /\ pool[n] \subseteq sent /\ pool[n] \subseteq Vote
           /\ jobs[n] \subseteq Job
           /\ cp[n] \in Table /\ Sound(cp[n], sent)
           /\ \A h \in Heights : cp[n][h] # None => h <= Len(chain[n])
<1>1. TypeOK /\ CheckpointsAreVoted /\ Consistent
  BY DEF IInv
<1>2. /\ chain[n] \in Chains /\ last[n] \in Nat
      /\ pool[n] \subseteq Vote /\ jobs[n] \subseteq Job /\ cp[n] \in Table
  BY <1>1 DEF TypeOK, Table
<1>3. /\ pool[n] \subseteq sent /\ last[n] % Interval = 0
      /\ \A h \in Heights : cp[n][h] # None => h <= Len(chain[n])
  BY <1>1, Zenon DEF Consistent
<1>4. Sound(cp[n], sent)
  BY <1>1, Zenon DEF CheckpointsAreVoted, Sound
<1>5. Len(chain[n]) \in Nat
  BY <1>2, ChainLength, Zenon
<1> QED
  BY <1>2, <1>3, <1>4, <1>5, Zenon

(* The invariant in the next state, from what it says of the tables.       *)
LEMMA VotedNext ==
    ASSUME \A m \in Nodes : Sound(cp'[m], sent')
    PROVE  CheckpointsAreVoted'
BY Zenon DEF CheckpointsAreVoted, Sound, Enough, VotersFor

(* Adding a block: the own votes are for heights not voted on before.      *)
LEMMA AddBlockStep ==
    ASSUME IInv, NEW n \in Nodes, NEW b \in Blocks, NEW target \in Targets,
           NEW active \in BOOLEAN, NEW with \in SUBSET Validators,
           AddBlock(n, b, target, active, with)
    PROVE  IInv' /\ KeepsVotes
<1> DEFINE votes == active /\ VotesNow(b, target)
           own == IF votes THEN OwnVotes(n, b, target) ELSE {}
           next == IF votes THEN LastAfter(n, b, target) ELSE last[n]
           t == TableAfterOwn(n, own)
<1>1. PICK pruned \in SUBSET Prunable(t) : cp' = [cp EXCEPT ![n] = Stores(t, b, pruned, with)]
  BY Zenon DEF AddBlock
<1>2. /\ chain' = [chain EXCEPT ![n] = b]
      /\ last' = [last EXCEPT ![n] = next]
      /\ sent' = sent \cup own
      /\ pool' = [pool EXCEPT ![n] = Unexpired(pool[n] \cup own, Len(b) + 1)]
      /\ jobs' = jobs /\ steady' = steady
      /\ Len(b) = Len(chain[n]) + 1
      /\ with # {} => VerifyCheckpoint(b, with)
  BY Zenon DEF AddBlock, ChainHeight
<1>3. TypeOK /\ VoteOnce /\ Consistent
  BY DEF IInv
<1>4. /\ Len(chain[n]) \in Nat /\ last[n] \in Nat /\ last[n] % Interval = 0
      /\ pool[n] \subseteq sent /\ pool[n] \subseteq Vote
      /\ cp[n] \in Table /\ Sound(cp[n], sent)
      /\ \A h \in Heights : cp[n][h] # None => h <= Len(chain[n])
  BY NodeFacts
<1>5. /\ own \subseteq Vote
      /\ \A v \in own : /\ v.voter = n
                        /\ v.block = BlockAt(b, Len(v.block))
                        /\ Len(v.block) \in last[n] .. next - 1
                        /\ Len(v.block) < Len(b)
      /\ next \in Nat /\ next >= last[n] /\ next % Interval = 0
  <2>1. CASE votes
    <3>1. target \in Nat
      BY ParametersAssumption
    <3>2. own = OwnVotes(n, b, target) /\ next = LastAfter(n, b, target)
      BY <2>1
    <3> HIDE DEF own, next
    <3> QED
      BY <1>4, <2>1, <3>1, <3>2, OwnVoteFacts
  <2>2. CASE ~votes
    BY <1>4, <2>2
  <2> QED
    BY <2>1, <2>2, Zenon
<1>6. /\ b \in Chains /\ Len(b) \in Heights /\ Len(b) \in Nat
      /\ n \in Nodes /\ chain \in [Nodes -> Chains] /\ last \in [Nodes -> Nat]
      /\ pool \in [Nodes -> SUBSET Vote] /\ cp \in [Nodes -> Table] /\ sent \in SUBSET Vote
      /\ Heights \subseteq Nat
  BY <1>3, ChainLength DEF TypeOK, Table
<1> HIDE DEF votes, own, next
<1>7. /\ t \in Table /\ Sound(t, sent')
      /\ \A h \in Heights : t[h] # None => cp[n][h] # None \/ h < Len(b)
      /\ \A h \in Heights :
            cp[n][h] # None /\ t[h] # None /\ t[h].block = cp[n][h].block
            => cp[n][h].voters \subseteq t[h].voters
  <2>1. sent \subseteq sent' /\ own \subseteq sent' /\ pool[n] \subseteq sent'
    BY <1>2, <1>4, Zenon
  <2>2. Sound(cp[n], sent')
    BY <1>4, <2>1, SoundGrows, Zenon
  <2>3. \A v \in own : Len(v.block) < Len(b)
    BY <1>5, Zenon
  <2> QED
    BY <1>4, <1>5, <1>6, <2>1, <2>2, <2>3, TableAfterOwnFacts, Zenon
<1> HIDE DEF t
<1> DEFINE s == Stores(t, b, pruned, with)
           came == [block |-> b, voters |-> with]
<1>8. /\ \A h \in Heights : s[h] = IF h = Len(b) /\ with # {} THEN came
                                   ELSE IF h \in pruned THEN None ELSE t[h]
      /\ s = [h \in Heights |-> s[h]]
  <2> DEFINE f(h) == IF h = Len(b) /\ with # {} THEN came
                     ELSE IF h \in pruned THEN None ELSE t[h]
  <2>1. s = [h \in Heights |-> f(h)]
    BY Zenon DEF Stores
  <2> HIDE DEF s, f
  <2>2. (\A h \in Heights : s[h] = f(h)) /\ s = [h \in Heights |-> s[h]]
    BY <2>1
  <2> QED
    BY <2>2, Zenon DEF f
<1>9. with # {} => /\ came \in Checkpoint /\ Enough(with)
                   /\ with \subseteq VotersFor(sent', b)
  <2> SUFFICES ASSUME with # {}
               PROVE  /\ came \in Checkpoint /\ Enough(with)
                      /\ with \subseteq VotersFor(sent', b)
    OBVIOUS
  <2>1. Len(b) % Interval = 0 /\ Enough(with) /\ with \subseteq VotersFor(sent, b)
    BY <1>2 DEF VerifyCheckpoint
  <2>2. VotersFor(sent, b) \subseteq VotersFor(sent', b)
    BY <1>2, VotersGrow
  <2> QED
    BY <2>1, <2>2 DEF Checkpoint, Votable
<1> HIDE DEF s
<1>10. ASSUME NEW h \in Heights
       PROVE  /\ s[h] \in Checkpoint \cup {None}
              /\ s[h] # None => /\ Len(s[h].block) = h /\ h <= Len(b)
                                /\ Enough(s[h].voters)
                                /\ s[h].voters \subseteq VotersFor(sent', s[h].block)
              /\ cp[n][h] # None /\ s[h] # None /\ s[h].block = cp[n][h].block
                    => cp[n][h].voters \subseteq s[h].voters
  <2>1. CASE h = Len(b) /\ with # {}
    <3>1. s[h].block = b /\ s[h].voters = with /\ s[h] \in Checkpoint
      BY <1>8, <1>9, <2>1
    <3>2. cp[n][h] = None
      BY <1>2, <1>4, <2>1
    <3>3. h <= Len(b)
      BY <1>6, <2>1
    <3> QED
      BY <1>9, <2>1, <3>1, <3>2, <3>3, Zenon
  <2>2. CASE ~(h = Len(b) /\ with # {})
    <3>1. s[h] = None \/ s[h] = t[h]
      BY <1>8, <2>2
    <3>2. t[h] # None => h <= Len(b)
      BY <1>2, <1>4, <1>6, <1>7
    <3>3. t[h] \in Checkpoint \cup {None}
      BY <1>7 DEF Table
    <3>4. t[h] # None => /\ Len(t[h].block) = h
                         /\ Enough(t[h].voters)
                         /\ t[h].voters \subseteq VotersFor(sent', t[h].block)
      BY <1>7, Zenon DEF Sound
    <3> QED
      BY <1>7, <3>1, <3>2, <3>3, <3>4, Zenon
  <2> QED
    BY <2>1, <2>2, Zenon
<1>11. s \in Table /\ Sound(s, sent')
  <2>1. s \in Table
    BY <1>8, <1>10 DEF Table
  <2> QED
    BY <2>1, <1>10, Zenon DEF Sound
<1>12. cp'[n] = s /\ \A m \in Nodes : m # n => cp'[m] = cp[m]
  BY <1>1, <1>6 DEF s
<1>13. TypeOK'
  <2>1. Unexpired(pool[n] \cup own, Len(b) + 1) \subseteq Vote
    BY <1>4, <1>5, Zenon DEF Unexpired
  <2>2. cp' \in [Nodes -> Table]
    BY <1>1, <1>6, <1>11 DEF s
  <2> QED
    BY <1>2, <1>3, <1>5, <1>6, <2>1, <2>2, Zenon DEF TypeOK, Table
<1>14. CheckpointsAreVoted'
  <2>1. ASSUME NEW m \in Nodes PROVE Sound(cp'[m], sent')
    <3>1. CASE m = n
      BY <1>11, <1>12, <3>1, Zenon
    <3>2. CASE m # n
      <4>1. Sound(cp[m], sent) /\ sent \subseteq sent'
        BY <1>2, NodeFacts, Zenon
      <4>2. Sound(cp[m], sent')
        BY <4>1, SoundGrows, Zenon
      <4> QED
        BY <1>12, <3>2, <4>2
    <3> QED
      BY <3>1, <3>2
  <2> QED
    BY <2>1, VotedNext, Zenon
<1>15. ASSUME NEW v \in own, steady[n] PROVE \A u \in sent : u.voter = n => Len(u.block) < Len(v.block)
  <2> SUFFICES ASSUME NEW u \in sent, u.voter = n PROVE Len(u.block) < Len(v.block)
    OBVIOUS
  <2>1. Len(u.block) < last[n]
    BY <1>3, <1>15, Zenon DEF Consistent
  <2>2. Len(u.block) \in Nat
    BY <1>6, ChainLength DEF Vote, Votable
  <2> QED
    BY <1>4, <1>5, <2>1, <2>2
<1>16. VoteOnce'
  <2> SUFFICES ASSUME NEW u \in sent', NEW v \in sent', u.voter = v.voter,
                      Len(u.block) = Len(v.block), steady[u.voter]
               PROVE  u.block = v.block
    BY <1>2, Zenon DEF VoteOnce
  <2>0. Len(u.block) \in Nat
    BY <1>2, <1>5, <1>6, ChainLength, Zenon DEF Vote, Votable
  <2>1. CASE u \in sent /\ v \in sent
    BY <1>3, <2>1, Zenon DEF VoteOnce
  <2>2. CASE u \in own /\ v \in sent
    BY <1>5, <1>15, <2>0, <2>2
  <2>3. CASE u \in sent /\ v \in own
    BY <1>5, <1>15, <2>0, <2>3
  <2>4. CASE u \in own /\ v \in own
    BY <1>5, <2>4, Zenon
  <2> QED
    BY <1>2, <2>1, <2>2, <2>3, <2>4, Zenon
<1>17. Consistent'
  <2>1. \A m \in Nodes : pool'[m] \subseteq sent'
    <3>1. Unexpired(pool[n] \cup own, Len(b) + 1) \subseteq sent'
      BY <1>2, <1>4, Zenon DEF Unexpired
    <3>2. \A m \in Nodes : pool[m] \subseteq sent
      BY <1>3, Zenon DEF Consistent
    <3> QED
      BY <1>2, <1>6, <3>1, <3>2, Zenon
  <2>2. \A m \in Nodes : \A j \in jobs'[m] :
          /\ j.vote \in sent'
          /\ j.votes # {} => /\ j.votes \subseteq VotersFor(sent', j.vote.block)
                             /\ Enough(j.votes)
    BY <1>2, <1>3, VotersGrow, Zenon DEF Consistent
  <2>3. \A m \in Nodes, h \in Heights : cp'[m][h] # None => h <= Len(chain'[m])
    <3> SUFFICES ASSUME NEW m \in Nodes, NEW h \in Heights, cp'[m][h] # None
                 PROVE  h <= Len(chain'[m])
      OBVIOUS
    <3>1. CASE m = n
      BY <1>2, <1>6, <1>10, <1>12, <3>1, Zenon
    <3>2. CASE m # n
      BY <1>2, <1>6, <1>12, <3>2, NodeFacts, Zenon
    <3> QED
      BY <3>1, <3>2
  <2>4. \A v \in sent' : steady'[v.voter] => Len(v.block) < last'[v.voter]
    <3> SUFFICES ASSUME NEW v \in sent', steady[v.voter]
                 PROVE  Len(v.block) < last'[v.voter]
      BY <1>2
    <3>0. v \in Vote /\ v.voter \in Nodes
      <4>1. v \in Vote
        BY <1>2, <1>5, <1>6, Zenon
      <4> QED
        BY <4>1, ParametersAssumption DEF Vote
    <3>1. Len(v.block) \in Nat
      BY <3>0, ChainLength DEF Vote, Votable
    <3>2. last'[v.voter] = IF v.voter = n THEN next ELSE last[v.voter]
      BY <1>2, <1>6, <3>0, Zenon
    <3>3. CASE v \in own
      BY <1>4, <1>5, <3>1, <3>2, <3>3
    <3>4. CASE v \in sent
      <4>1. Len(v.block) < last[v.voter] /\ last[v.voter] \in Nat
        BY <1>3, <1>6, <3>0, <3>4, Zenon DEF Consistent
      <4> QED
        BY <1>5, <3>1, <3>2, <4>1
    <3> QED
      BY <1>2, <3>3, <3>4, Zenon
  <2>5. \A m \in Nodes : last'[m] % Interval = 0
    <3>1. \A m \in Nodes : last[m] % Interval = 0
      BY <1>3, Zenon DEF Consistent
    <3>2. \A m \in Nodes : last'[m] = IF m = n THEN next ELSE last[m]
      BY <1>2, <1>6
    <3> QED
      BY <1>5, <3>1, <3>2
  <2> QED
    BY <2>1, <2>2, <2>3, <2>4, <2>5, Zenon DEF Consistent, Enough, VotersFor
<1>18. KeepsVotes
  BY <1>10, <1>12, Zenon DEF KeepsVotes
<1> QED
  BY <1>13, <1>14, <1>16, <1>17, <1>18 DEF IInv
(* A vote received was signed.                                             *)
LEMMA ReceiveVoteStep ==
    ASSUME IInv, NEW n \in Nodes, NEW v \in Vote, ReceiveVote(n, v)
    PROVE  IInv' /\ KeepsVotes
<1> DEFINE job == [vote |-> v, votes |-> {}]
<1>1. /\ v \in sent /\ jobs' = [jobs EXCEPT ![n] = jobs[n] \cup {job}]
      /\ UNCHANGED <<chain, last, pool, cp, sent, steady>>
  BY DEF ReceiveVote
<1>2. TypeOK /\ CheckpointsAreVoted /\ VoteOnce /\ Consistent
  BY DEF IInv
<1>3. job \in Job /\ job.vote = v /\ job.votes = {}
  BY DEF Job
<1> HIDE DEF job
<1>4. jobs \in [Nodes -> SUBSET Job]
  BY <1>2 DEF TypeOK
<1>5. TypeOK'
  BY <1>1, <1>2, <1>3, <1>4, Zenon DEF TypeOK
<1>6. CheckpointsAreVoted' /\ VoteOnce'
  BY <1>1, <1>2 DEF CheckpointsAreVoted, VoteOnce, Enough, VotersFor
<1>7. Consistent'
  <2>1. \A m \in Nodes : \A j \in jobs'[m] : j \in jobs[m] \/ j = job
    BY <1>1, <1>4
  <2> QED
    BY <1>1, <1>2, <1>3, <2>1, Zenon DEF Consistent, Enough, VotersFor
<1>8. KeepsVotes
  BY <1>1 DEF KeepsVotes
<1> QED
  BY <1>5, <1>6, <1>7, <1>8 DEF IInv

(* A thread that goes on after adding a vote has a list of enough signed   *)
(* votes for one block.                                                    *)
LEMMA AddToPoolStep ==
    ASSUME IInv, NEW n \in Nodes, NEW v \in Vote, AddToPool(n, v)
    PROVE  IInv' /\ KeepsVotes
<1> DEFINE job == [vote |-> v, votes |-> {}]
           voters == VotersFor(pool[n] \cup {v}, v.block)
           more == [vote |-> v, votes |-> voters]
           left == IF v \notin pool[n] /\ Enough(voters)
                   THEN (jobs[n] \ {job}) \cup {more} ELSE jobs[n] \ {job}
<1>1. /\ job \in jobs[n]
      /\ pool' = [pool EXCEPT ![n] = pool[n] \cup {v}]
      /\ jobs' = [jobs EXCEPT ![n] = left]
      /\ UNCHANGED <<chain, last, cp, sent, steady>>
  BY Zenon DEF AddToPool
<1>2. TypeOK /\ CheckpointsAreVoted /\ VoteOnce /\ Consistent
  BY DEF IInv
<1>3. v \in sent
  <2>1. job.vote = v
    OBVIOUS
  <2> HIDE DEF job
  <2>2. job.vote \in sent
    BY <1>1, <1>2, Zenon DEF Consistent
  <2> QED
    BY <2>1, <2>2
<1>4. voters \subseteq VotersFor(sent, v.block) /\ voters \subseteq Validators
  <2>1. pool[n] \cup {v} \subseteq sent
    BY <1>3, NodeFacts
  <2> QED
    BY <2>1, VotersGrow
<1>5. more \in Job /\ more.vote = v /\ more.votes = voters
  BY <1>4, Zenon DEF Job
<1>6. \A j \in left : j \in jobs[n] \/ (j = more /\ Enough(voters))
  OBVIOUS
<1> HIDE DEF job, voters, more, left
<1>7. jobs \in [Nodes -> SUBSET Job] /\ pool \in [Nodes -> SUBSET Vote]
  BY <1>2 DEF TypeOK
<1>8. left \subseteq Job
  BY <1>5, <1>6, <1>7
<1>9. TypeOK'
  BY <1>1, <1>2, <1>7, <1>8, Zenon DEF TypeOK
<1>10. CheckpointsAreVoted' /\ VoteOnce'
  BY <1>1, <1>2, Zenon DEF CheckpointsAreVoted, VoteOnce, Enough, VotersFor
<1>11. Consistent'
  <2>1. \A m \in Nodes : \A j \in jobs'[m] : j \in jobs[m] \/ (j = more /\ Enough(voters))
    BY <1>1, <1>6, <1>7
  <2>2. \A m \in Nodes : \A j \in jobs'[m] :
          /\ j.vote \in sent'
          /\ j.votes # {} => /\ j.votes \subseteq VotersFor(sent', j.vote.block)
                             /\ Enough(j.votes)
    <3> SUFFICES ASSUME NEW m \in Nodes, NEW j \in jobs'[m]
                 PROVE  /\ j.vote \in sent
                        /\ j.votes # {} => /\ j.votes \subseteq VotersFor(sent, j.vote.block)
                                           /\ Enough(j.votes)
      BY <1>1
    <3>1. CASE j \in jobs[m]
      BY <1>2, <3>1, Zenon DEF Consistent
    <3>2. CASE j = more /\ Enough(voters)
      BY <1>3, <1>4, <1>5, <3>2, Zenon
    <3> QED
      BY <2>1, <3>1, <3>2, Zenon
  <2>3. \A m \in Nodes : pool'[m] \subseteq sent'
    <3>1. \A m \in Nodes : pool[m] \subseteq sent
      BY <1>2, Zenon DEF Consistent
    <3> QED
      BY <1>1, <1>3, <1>7, <3>1
  <2> QED
    BY <1>1, <1>2, <2>2, <2>3, Zenon DEF Consistent, Enough, VotersFor
<1>12. KeepsVotes
  BY <1>1 DEF KeepsVotes
<1> QED
  BY <1>9, <1>10, <1>11, <1>12 DEF IInv

(* Storing a checkpoint from a list of votes, however old the list is.     *)
LEMMA SubmitStep ==
    ASSUME IInv, NEW n \in Nodes, NEW v \in Vote, Submit(n, v)
    PROVE  IInv' /\ KeepsVotes
<1>1. PICK job \in jobs[n] :
        /\ job.vote = v /\ job.votes # {}
        /\ jobs' = [jobs EXCEPT ![n] = jobs[n] \ {job}]
        /\ cp' = [cp EXCEPT ![n] = Updated(cp[n], v.block, job.votes, ChainHeight(n))]
        /\ UNCHANGED <<chain, last, pool, sent, steady>>
  BY Zenon DEF Submit
<1> DEFINE u == Updated(cp[n], v.block, job.votes, ChainHeight(n))
<1>2. TypeOK /\ VoteOnce /\ Consistent
  BY DEF IInv
<1>3. job.votes \subseteq VotersFor(sent, v.block) /\ Enough(job.votes)
  BY <1>1, <1>2, Zenon DEF Consistent
<1>4. v.block \in Votable /\ ChainHeight(n) \in Nat /\ ChainHeight(n) = Len(chain[n]) + 1
  BY NodeFacts DEF Vote, ChainHeight
<1>5. /\ u \in Table /\ Sound(u, sent)
      /\ \A h \in Heights : u[h] # None => cp[n][h] # None \/ h < ChainHeight(n)
      /\ \A h \in Heights : cp[n][h] # None /\ u[h] # None /\ u[h].block = cp[n][h].block
            => cp[n][h].voters \subseteq u[h].voters
  <2>1. cp[n] \in Table /\ Sound(cp[n], sent)
    BY NodeFacts, Zenon
  <2> QED
    <3> DEFINE t == cp[n]
               b == v.block
               voters == job.votes
               height == ChainHeight(n)
    <3>1. /\ t \in Table /\ Sound(t, sent) /\ b \in Votable /\ height \in Nat
          /\ voters \subseteq VotersFor(sent, b) /\ Enough(voters)
      BY <1>3, <1>4, <2>1, Zenon
    <3>2. u = Updated(t, b, voters, height)
      OBVIOUS
    <3> HIDE DEF t, b, voters, height, u
    <3>3. /\ u \in Table /\ Sound(u, sent)
          /\ \A h \in Heights : u[h] # None => t[h] # None \/ h < height
          /\ \A h \in Heights : t[h] # None /\ u[h] # None /\ u[h].block = t[h].block
                => t[h].voters \subseteq u[h].voters
      BY <3>1, <3>2, UpdatedFacts
    <3> QED
      BY <3>3, Zenon DEF t, height
<1> HIDE DEF u
<1>6. cp \in [Nodes -> Table] /\ jobs \in [Nodes -> SUBSET Job]
  BY <1>2 DEF TypeOK, Table
<1>7. cp'[n] = u /\ \A m \in Nodes : m # n => cp'[m] = cp[m]
  BY <1>1, <1>6, Zenon DEF u
<1>8. TypeOK'
  <2>1. cp' \in [Nodes -> Table]
    BY <1>1, <1>5, <1>6, Zenon DEF u
  <2> QED
    BY <1>1, <1>2, <1>6, <2>1, Zenon DEF TypeOK, Table
<1>9. CheckpointsAreVoted'
  <2>1. \A m \in Nodes : Sound(cp'[m], sent')
    BY <1>1, <1>5, <1>7, NodeFacts, Zenon
  <2> QED
    BY <2>1, VotedNext, Zenon
<1>10. VoteOnce'
  BY <1>1, <1>2, Zenon DEF VoteOnce
<1>11. Consistent'
  <2>1. \A m \in Nodes : jobs'[m] \subseteq jobs[m]
    BY <1>1, <1>6, Zenon
  <2>2. \A m \in Nodes, h \in Heights : cp'[m][h] # None => h <= Len(chain'[m])
    <3> SUFFICES ASSUME NEW m \in Nodes, NEW h \in Heights, cp'[m][h] # None
                 PROVE  h <= Len(chain[m])
      BY <1>1, Zenon
    <3>1. h \in Nat /\ Len(chain[m]) \in Nat
      BY ChainLength, NodeFacts
    <3>2. CASE m = n
      BY <1>4, <1>5, <1>7, <3>1, <3>2, NodeFacts
    <3>3. CASE m # n
      BY <1>7, <3>3, NodeFacts, Zenon
    <3> QED
      BY <3>2, <3>3, Zenon
  <2> QED
    BY <1>1, <1>2, <2>1, <2>2, Zenon DEF Consistent, Enough, VotersFor
<1>12. KeepsVotes
  BY <1>5, <1>7, Zenon DEF KeepsVotes
<1> QED
  BY <1>8, <1>9, <1>10, <1>11, <1>12 DEF IInv

(* Losing blocks: a node that goes back to vote again is not steady.       *)
LEMMA DetachStep ==
    ASSUME IInv, NEW n \in Nodes, NEW k \in Heights \cup {0}, Detach(n, k)
    PROVE  IInv' /\ KeepsVotes
<1> DEFINE next == LastDetached(last[n], k + 1)
           t == [h \in Heights |-> IF h > k THEN None ELSE cp[n][h]]
<1>1. /\ k < Len(chain[n])
      /\ chain' = [chain EXCEPT ![n] = BlockAt(chain[n], k)]
      /\ last' = [last EXCEPT ![n] = next]
      /\ steady' = [steady EXCEPT ![n] = steady[n] /\ last[n] < k + 1 + Buffer]
      /\ pool' = [pool EXCEPT ![n] = Unexpired(pool[n], k + 1)]
      /\ cp' = [cp EXCEPT ![n] = t]
      /\ jobs' = jobs /\ sent' = sent
  BY Zenon DEF Detach
<1>2. TypeOK /\ VoteOnce /\ Consistent
  BY DEF IInv
<1>3. /\ chain \in [Nodes -> Chains] /\ last \in [Nodes -> Nat]
      /\ pool \in [Nodes -> SUBSET Vote] /\ cp \in [Nodes -> Table]
      /\ sent \in SUBSET Vote /\ steady \in [Nodes -> BOOLEAN]
  BY <1>2 DEF TypeOK, Table
<1>4. /\ k \in Nat /\ Len(chain[n]) \in Nat /\ last[n] \in Nat /\ last[n] % Interval = 0
      /\ cp[n] \in Table /\ Sound(cp[n], sent) /\ Heights \subseteq Nat
  BY ChainLength, NodeFacts
<1>5. BlockAt(chain[n], k) \in Chains /\ Len(BlockAt(chain[n], k)) = k
  <2>1. k \in 0 .. Len(chain[n]) /\ chain[n] \in Chains
    BY <1>1, <1>3, <1>4
  <2> QED
    BY <2>1, Ancestor
<1>6. /\ next \in Nat /\ next % Interval = 0
      /\ last[n] < k + 1 + Buffer => next = last[n]
  <2>1. k + 1 \in Nat
    BY <1>4
  <2>2. CASE last[n] >= k + 1 + Buffer
    <3>1. next = (k + 1) - ((k + 1) % Interval)
      BY <2>2 DEF LastDetached
    <3>2. ~(last[n] < k + 1 + Buffer)
      BY <1>4, <2>2, Numbers
    <3> HIDE DEF next
    <3> QED
      BY <2>1, <3>1, <3>2, RoundDownFacts
  <2>3. CASE ~(last[n] >= k + 1 + Buffer)
    BY <1>4, <2>3, Zenon DEF LastDetached
  <2> QED
    BY <2>2, <2>3, Zenon
<1>7. /\ t \in Table /\ Sound(t, sent)
      /\ \A h \in Heights : t[h] # None => h <= k /\ t[h] = cp[n][h]
  <2>1. \A h \in Heights : t[h] # None => h <= k /\ t[h] = cp[n][h]
    BY <1>4
  <2>2. t \in Table
    BY <1>4 DEF Table
  <2> HIDE DEF t
  <2>3. Sound(t, sent)
    BY <1>4, <2>1, Zenon DEF Sound
  <2> QED
    BY <2>1, <2>2, <2>3
<1> HIDE DEF next, t
<1>8. cp'[n] = t /\ \A m \in Nodes : m # n => cp'[m] = cp[m]
  BY <1>1, <1>3
<1>9. \A m \in Nodes : steady'[m] => steady[m] /\ last'[m] = last[m]
  <2> SUFFICES ASSUME NEW m \in Nodes, steady'[m] PROVE steady[m] /\ last'[m] = last[m]
    OBVIOUS
  <2>1. CASE m = n
    <3>1. steady'[n] = (steady[n] /\ last[n] < k + 1 + Buffer)
      BY <1>1, <1>3, Zenon
    <3>2. last'[n] = next
      BY <1>1, <1>3, Zenon
    <3> QED
      BY <1>6, <2>1, <3>1, <3>2, Zenon
  <2>2. CASE m # n
    <3>1. steady'[m] = steady[m] /\ last'[m] = last[m]
      BY <1>1, <1>3, <2>2, Zenon
    <3> QED
      BY <3>1, Zenon
  <2> QED
    BY <2>1, <2>2, Zenon
<1>10. \A v \in sent : v.voter \in Nodes
  BY <1>3, ParametersAssumption DEF Vote
<1>11. TypeOK'
  <2>1. cp' \in [Nodes -> Table]
    BY <1>1, <1>3, <1>7, Zenon
  <2>2. chain' \in [Nodes -> Chains] /\ last' \in [Nodes -> Nat]
    BY <1>1, <1>3, <1>5, <1>6, Zenon
  <2>3. pool' \in [Nodes -> SUBSET Vote]
    <3>1. Unexpired(pool[n], k + 1) \in SUBSET Vote
      BY <1>3 DEF Unexpired
    <3> QED
      BY <1>1, <1>3, <3>1, Zenon
  <2>4. steady' \in [Nodes -> BOOLEAN]
    <3>1. (steady[n] /\ last[n] < k + 1 + Buffer) \in BOOLEAN
      BY Zenon
    <3> QED
      BY <1>1, <1>3, <3>1, Zenon
  <2>5. jobs' \in [Nodes -> SUBSET Job] /\ sent' \in SUBSET Vote
    BY <1>1, <1>2, Zenon DEF TypeOK
  <2> QED
    BY <2>1, <2>2, <2>3, <2>4, <2>5, Zenon DEF TypeOK, Table
<1>12. CheckpointsAreVoted'
  <2>1. \A m \in Nodes : Sound(cp'[m], sent')
    BY <1>1, <1>7, <1>8, NodeFacts, Zenon
  <2> QED
    BY <2>1, VotedNext, Zenon
<1>13. VoteOnce'
  BY <1>1, <1>2, <1>9, <1>10, Zenon DEF VoteOnce
<1>14. Consistent'
  <2>1. \A m \in Nodes : pool'[m] \subseteq sent'
    <3>1. Unexpired(pool[n], k + 1) \subseteq pool[n]
      BY DEF Unexpired
    <3>2. \A m \in Nodes : pool[m] \subseteq sent
      BY <1>2, Zenon DEF Consistent
    <3> QED
      BY <1>1, <1>3, <3>1, <3>2, Zenon
  <2>2. \A m \in Nodes, h \in Heights : cp'[m][h] # None => h <= Len(chain'[m])
    <3> SUFFICES ASSUME NEW m \in Nodes, NEW h \in Heights, cp'[m][h] # None
                 PROVE  h <= Len(chain'[m])
      OBVIOUS
    <3>1. CASE m = n
      BY <1>1, <1>3, <1>5, <1>7, <1>8, <3>1, Zenon
    <3>2. CASE m # n
      BY <1>1, <1>3, <1>8, <3>2, NodeFacts, Zenon
    <3> QED
      BY <3>1, <3>2
  <2>3. \A v \in sent' : steady'[v.voter] => Len(v.block) < last'[v.voter]
    BY <1>1, <1>2, <1>9, <1>10, Zenon DEF Consistent
  <2>4. \A m \in Nodes : last'[m] % Interval = 0
    <3>1. \A m \in Nodes : last[m] % Interval = 0
      BY <1>2, Zenon DEF Consistent
    <3>2. \A m \in Nodes : last'[m] = IF m = n THEN next ELSE last[m]
      BY <1>1, <1>3, Zenon
    <3> QED
      BY <1>6, <3>1, <3>2
  <2> QED
    BY <1>1, <1>2, <2>1, <2>2, <2>3, <2>4, Zenon DEF Consistent, Enough, VotersFor
<1>15. KeepsVotes
  BY <1>7, <1>8, Zenon DEF KeepsVotes
<1> QED
  BY <1>11, <1>12, <1>13, <1>14, <1>15 DEF IInv

(* A restart keeps the chain and the checkpoints.                          *)
LEMMA RestartStep ==
    ASSUME IInv, NEW n \in Nodes, Restart(n)
    PROVE  IInv' /\ KeepsVotes
<1>1. /\ last' = [last EXCEPT ![n] = 0]
      /\ pool' = [pool EXCEPT ![n] = {}]
      /\ jobs' = [jobs EXCEPT ![n] = {}]
      /\ steady' = [steady EXCEPT ![n] = FALSE]
      /\ UNCHANGED <<chain, cp, sent>>
  BY DEF Restart
<1>2. TypeOK /\ CheckpointsAreVoted /\ VoteOnce /\ Consistent
  BY DEF IInv
<1>3. /\ last \in [Nodes -> Nat] /\ pool \in [Nodes -> SUBSET Vote]
      /\ jobs \in [Nodes -> SUBSET Job] /\ sent \in SUBSET Vote
      /\ steady \in [Nodes -> BOOLEAN]
  BY <1>2 DEF TypeOK
<1>4. \A m \in Nodes : steady'[m] => steady[m] /\ last'[m] = last[m]
  BY <1>1, <1>3, Zenon
<1>5. \A v \in sent : v.voter \in Nodes
  BY <1>3, ParametersAssumption DEF Vote
<1>6. TypeOK'
  BY <1>1, <1>2, <1>3, Zenon DEF TypeOK
<1>7. CheckpointsAreVoted'
  BY <1>1, <1>2, Zenon DEF CheckpointsAreVoted, Enough, VotersFor
<1>8. VoteOnce'
  BY <1>1, <1>2, <1>4, <1>5, Zenon DEF VoteOnce
<1>9. Consistent'
  <2>1. \A m \in Nodes : pool'[m] \subseteq pool[m] /\ jobs'[m] \subseteq jobs[m]
    BY <1>1, <1>3
  <2>2. \A v \in sent' : steady'[v.voter] => Len(v.block) < last'[v.voter]
    BY <1>1, <1>2, <1>4, <1>5, Zenon DEF Consistent
  <2>3. \A m \in Nodes : last'[m] % Interval = 0
    <3>1. \A m \in Nodes : last[m] % Interval = 0
      BY <1>2, Zenon DEF Consistent
    <3>2. \A m \in Nodes : last'[m] = IF m = n THEN 0 ELSE last[m]
      BY <1>1, <1>3
    <3> QED
      BY <3>1, <3>2, Numbers
  <2> QED
    BY <1>1, <1>2, <2>1, <2>2, <2>3, Zenon DEF Consistent, Enough, VotersFor
<1>10. KeepsVotes
  BY <1>1, Zenon DEF KeepsVotes
<1> QED
  BY <1>6, <1>7, <1>8, <1>9, <1>10 DEF IInv

-----------------------------------------------------------------------------
(* Nothing is voted for at the start.                                      *)
LEMMA InitIInv == Init => IInv
<1> SUFFICES ASSUME Init PROVE IInv
  OBVIOUS
<1>1. /\ chain = [n \in Nodes |-> Stored] /\ last = [n \in Nodes |-> 0]
      /\ pool = [n \in Nodes |-> {}] /\ jobs = [n \in Nodes |-> {}]
      /\ cp = [n \in Nodes |-> [h \in Heights |-> None]]
      /\ sent = {} /\ steady = [n \in Nodes |-> TRUE]
  BY DEF Init
<1>2. TypeOK
  BY <1>1, ParametersAssumption DEF TypeOK
<1>3. CheckpointsAreVoted /\ VoteOnce
  BY <1>1, Zenon DEF CheckpointsAreVoted, VoteOnce
<1>4. Consistent
  <2>1. 0 % Interval = 0
    BY Numbers
  <2> QED
    BY <1>1, <2>1, Zenon DEF Consistent
<1> QED
  BY <1>2, <1>3, <1>4 DEF IInv

(* Every step preserves the invariant and keeps the votes of checkpoints.  *)
LEMMA NextIInv == IInv /\ [Next]_vars => IInv' /\ (KeepsVotes \/ UNCHANGED vars)
<1> SUFFICES ASSUME IInv, [Next]_vars PROVE IInv' /\ (KeepsVotes \/ UNCHANGED vars)
  OBVIOUS
<1>1. ASSUME NEW n \in Nodes, NEW b \in Blocks, NEW target \in Targets,
             NEW active \in BOOLEAN, NEW with \in SUBSET Validators,
             AddBlock(n, b, target, active, with)
      PROVE  IInv' /\ KeepsVotes
  BY <1>1, AddBlockStep
<1>2. ASSUME NEW n \in Nodes, NEW v \in Vote, ReceiveVote(n, v) PROVE IInv' /\ KeepsVotes
  BY <1>2, ReceiveVoteStep
<1>3. ASSUME NEW n \in Nodes, NEW v \in Vote, AddToPool(n, v) PROVE IInv' /\ KeepsVotes
  BY <1>3, AddToPoolStep
<1>4. ASSUME NEW n \in Nodes, NEW v \in Vote, Submit(n, v) PROVE IInv' /\ KeepsVotes
  BY <1>4, SubmitStep
<1>5. ASSUME NEW n \in Nodes, NEW k \in Heights \cup {0}, Detach(n, k)
      PROVE  IInv' /\ KeepsVotes
  BY <1>5, DetachStep
<1>6. ASSUME NEW n \in Nodes, Restart(n) PROVE IInv' /\ KeepsVotes
  BY <1>6, RestartStep
<1>7. CASE UNCHANGED vars
  <2>1. UNCHANGED <<chain, last, pool, jobs, cp, sent, steady>>
    BY <1>7 DEF vars
  <2>2. TypeOK' /\ CheckpointsAreVoted' /\ VoteOnce'
    BY <2>1, Zenon DEF IInv, TypeOK, CheckpointsAreVoted, VoteOnce, Enough, VotersFor
  <2>3. Consistent'
    BY <2>1, Zenon DEF IInv, Consistent, Enough, VotersFor
  <2> QED
    BY <1>7, <2>2, <2>3 DEF IInv
<1> QED
  BY <1>1, <1>2, <1>3, <1>4, <1>5, <1>6, <1>7, Zenon DEF Next

(* The invariant holds: the votes in pools, in the hands of threads and in *)
(* checkpoints were signed, no node has a checkpoint ahead of its chain,   *)
(* and a steady member voted only on heights below its last.               *)
THEOREM Invariance == Spec => []IInv
BY InitIInv, NextIInv, PTL DEF Spec

(* Every checkpoint carries enough genuine votes for its block.            *)
THEOREM EveryCheckpointIsVoted == Spec => []CheckpointsAreVoted
<1>1. IInv => CheckpointsAreVoted
  BY DEF IInv
<1> QED
  BY <1>1, Invariance, PTL

(* A steady member votes for one block of a height.                        *)
THEOREM SteadyMembersVoteOnce == Spec => []VoteOnce
<1>1. IInv => VoteOnce
  BY DEF IInv
<1> QED
  BY <1>1, Invariance, PTL

(* Two blocks of one height are backed only if many members are unsteady:  *)
(* the two sets of voters overlap, and who is in both voted twice.         *)
THEOREM BackedBlocksAreUnique == Spec => []OneBackedBlock
<1>1. IInv => OneBackedBlock
  <2> SUFFICES ASSUME TypeOK, VoteOnce, NEW u \in sent, NEW v \in sent,
                      Len(u.block) = Len(v.block), u.block # v.block,
                      Enough(VotersFor(sent, u.block)), Enough(VotersFor(sent, v.block))
               PROVE  Cardinality(Unsteady) >= 2 * MinVotes - Cardinality(Validators)
    BY DEF IInv, OneBackedBlock
  <2> DEFINE A == VotersFor(sent, u.block)
             B == VotersFor(sent, v.block)
  <2>1. A \cap B \subseteq Unsteady
    <3> SUFFICES ASSUME NEW x \in A \cap B PROVE x \in Unsteady
      OBVIOUS
    <3> DEFINE p == [voter |-> x, block |-> u.block]
               q == [voter |-> x, block |-> v.block]
    <3>1. x \in Validators /\ p \in sent /\ q \in sent
      BY DEF VotersFor
    <3>2. p.voter = x /\ q.voter = x /\ p.block = u.block /\ q.block = v.block
      OBVIOUS
    <3> HIDE DEF p, q
    <3>3. ~steady[p.voter]
      BY <3>1, <3>2, Zenon DEF VoteOnce
    <3> QED
      BY <3>1, <3>2, <3>3, Zenon DEF Unsteady
  <2>2. A \subseteq Validators /\ B \subseteq Validators /\ Unsteady \subseteq Validators
    BY DEF VotersFor, Unsteady
  <2> HIDE DEF A, B
  <2>3. IsFiniteSet(Validators)
    BY ParametersAssumption
  <2>4. IsFiniteSet(A) /\ IsFiniteSet(B) /\ IsFiniteSet(Unsteady)
    BY <2>2, <2>3, FS_Subset
  <2>5. /\ IsFiniteSet(A \cup B) /\ IsFiniteSet(A \cap B)
        /\ Cardinality(A \cup B) <= Cardinality(Validators)
        /\ Cardinality(A \cap B) <= Cardinality(Unsteady)
    <3>1. A \cup B \in SUBSET Validators /\ A \cap B \in SUBSET Unsteady
      BY <2>1, <2>2
    <3> QED
      BY <2>3, <2>4, <3>1, FS_Subset, Zenon
  <2>6. Cardinality(A \cup B) = Cardinality(A) + Cardinality(B) - Cardinality(A \cap B)
    BY <2>4, FS_Union
  <2>7. /\ Cardinality(A) \in Nat /\ Cardinality(B) \in Nat
        /\ Cardinality(A \cup B) \in Nat /\ Cardinality(A \cap B) \in Nat
        /\ Cardinality(Unsteady) \in Nat /\ Cardinality(Validators) \in Nat
    BY <2>3, <2>4, <2>5, FS_CardinalityType, Zenon
  <2>8. Cardinality(A) >= MinVotes /\ Cardinality(B) >= MinVotes
    BY DEF Enough, A, B
  <2> QED
    BY <2>5, <2>6, <2>7, <2>8, Numbers
<1> QED
  BY <1>1, Invariance, PTL

(* No checkpoint loses a vote while its block stays the same.              *)
THEOREM VotesAreKept == Spec => VotesOnlyGrow
<1>1. IInv /\ [Next]_vars => [KeepsVotes]_vars
  BY NextIInv
<1> QED
  BY <1>1, Invariance, PTL DEF Spec, VotesOnlyGrow
=============================================================================
