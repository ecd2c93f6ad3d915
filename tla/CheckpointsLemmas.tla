-------------------------- MODULE CheckpointsLemmas --------------------------
(***************************************************************************)
(* Lemmas about Checkpoints.tla, for every interval between checkpoints,   *)
(* every tree of blocks and every length of the chain: the immutable       *)
(* height, pruning and detaching the table, and that the actions preserve  *)
(* the invariant, up to a switch that fails.                               *)
(***************************************************************************)
EXTENDS Checkpoints, WellFoundedInduction, SequenceTheorems, TLAPS

-----------------------------------------------------------------------------
(* Largest and smallest elements.                                          *)

(* A set of naturals that is not empty has a smallest element.             *)
LEMMA Smallest ==
    ASSUME NEW S, S \subseteq Nat, S # {}
    PROVE  \E x \in S : \A y \in S : x <= y
<1>1. \E x \in S : \A y \in S : ~(<<y, x>> \in OpToRel(<, Nat))
  BY NatLessThanWellFounded, WFMin, Zenon
<1>2. ASSUME NEW x \in S, NEW y \in S, ~(<<y, x>> \in OpToRel(<, Nat))
      PROVE  x <= y
  <2>1. <<y, x>> \in Nat \X Nat
    OBVIOUS
  <2>2. ~(y < x)
    BY <2>1, <1>2 DEF OpToRel
  <2> QED
    BY <2>2
<1> QED
  BY <1>1, <1>2, Zenon

(* The bound on the length of a chain is a natural number.                 *)
LEMMA MaxLenNat == MaxLen \in Nat
BY ParametersAssumption

(* A set of heights that is not empty has a largest element, Max.          *)
LEMMA MaxOfHeights ==
    ASSUME NEW S, S \subseteq Heights, S # {}
    PROVE  Max(S) \in S /\ \A y \in S : y <= Max(S)
<1> DEFINE T == {MaxLen - s : s \in S}
<1> USE MaxLenNat DEF Heights
<1>1. T \subseteq Nat /\ T # {}
  <2>1. \A s \in S : MaxLen - s \in Nat
    OBVIOUS
  <2>2. PICK s \in S : TRUE
    BY Zenon
  <2>3. MaxLen - s \in T
    OBVIOUS
  <2> QED
    BY <2>1, <2>3, Zenon
<1>2. PICK x \in T : \A y \in T : x <= y
  BY <1>1, Smallest, Zenon
<1>3. PICK s \in S : x = MaxLen - s
  OBVIOUS
<1>4. \A y \in S : s >= y
  <2>1. \A y \in S : MaxLen - y \in T
    OBVIOUS
  <2> HIDE DEF T
  <2> QED
    BY <1>2, <1>3, <2>1
<1>5. \E m \in S : \A y \in S : m >= y
  BY <1>4, Zenon
<1>6. Max(S) \in S /\ \A y \in S : Max(S) >= y
  BY <1>5, Zenon DEF Max
<1> QED
  BY <1>6

(* Min of a set of naturals that is not empty.                             *)
LEMMA MinOfNats ==
    ASSUME NEW S, S \subseteq Nat, S # {}
    PROVE  Min(S) \in S /\ \A y \in S : Min(S) <= y
<1>1. \E m \in S : \A y \in S : m =< y
  BY Smallest, Zenon
<1> QED
  BY <1>1, Zenon DEF Min

-----------------------------------------------------------------------------
(* Chains and their prefixes.                                              *)

(* A chain is a sequence of labels of bounded length.                      *)
LEMMA ChainsAreSequences ==
    ASSUME NEW c
    PROVE  c \in Chains <=> c \in Seq(Label) /\ Len(c) \in Heights
<1>1. ASSUME c \in Chains PROVE c \in Seq(Label) /\ Len(c) \in Heights
  <2>1. PICK n \in Heights : c \in [1 .. n -> Label]
    BY <1>1 DEF Chains
  <2>2. n \in Nat
    BY MaxLenNat DEF Heights
  <2> QED
    BY <2>1, <2>2
<1>2. ASSUME c \in Seq(Label), Len(c) \in Heights PROVE c \in Chains
  <2>1. c \in [1 .. Len(c) -> Label]
    BY <1>2
  <2> QED
    BY <1>2, <2>1 DEF Chains
<1> QED
  BY <1>1, <1>2

(* The ancestor of a block at a height.                                    *)
LEMMA Ancestor ==
    ASSUME NEW c \in Chains, NEW h \in 0 .. Len(c)
    PROVE  /\ BlockAt(c, h) \in Chains
           /\ Len(BlockAt(c, h)) = h
           /\ \A i \in 1 .. h : BlockAt(c, h)[i] = c[i]
<1>1. c \in Seq(Label) /\ Len(c) \in Heights
  BY ChainsAreSequences
<1>2. Len(c) \in Nat /\ h \in Nat /\ h \in Heights
  BY <1>1, MaxLenNat DEF Heights
<1>3. /\ BlockAt(c, h) \in Seq(Label)
      /\ Len(BlockAt(c, h)) = h
      /\ \A i \in 1 .. h : BlockAt(c, h)[i] = c[i]
  BY <1>1, <1>2 DEF BlockAt
<1> QED
  BY <1>2, <1>3, ChainsAreSequences

(* Two chains of one length with the same blocks are the same.             *)
LEMMA SameChain ==
    ASSUME NEW c \in Chains, NEW d \in Chains, Len(c) = Len(d),
           \A i \in 1 .. Len(c) : c[i] = d[i]
    PROVE  c = d
<1>1. c \in Seq(Label) /\ d \in Seq(Label)
  BY ChainsAreSequences
<1> QED
  BY <1>1, SeqEqual

(* An ancestor of an ancestor is an ancestor, and a block is its own.      *)
LEMMA AncestorOfAncestor ==
    ASSUME NEW c \in Chains, NEW h \in 0 .. Len(c), NEW k \in 0 .. h
    PROVE  BlockAt(BlockAt(c, h), k) = BlockAt(c, k)
<1>0. Len(c) \in Nat
  BY ChainsAreSequences, MaxLenNat DEF Heights
<1>1. k \in 0 .. Len(c) /\ k \in 0 .. Len(BlockAt(c, h)) /\ BlockAt(c, h) \in Chains
  BY <1>0, Ancestor
<1>2. /\ BlockAt(BlockAt(c, h), k) \in Chains
      /\ Len(BlockAt(BlockAt(c, h), k)) = k
      /\ \A i \in 1 .. k : BlockAt(BlockAt(c, h), k)[i] = BlockAt(c, h)[i]
  BY <1>1, Ancestor
<1>3. /\ BlockAt(c, k) \in Chains
      /\ Len(BlockAt(c, k)) = k
      /\ \A i \in 1 .. k : BlockAt(c, k)[i] = c[i]
  BY <1>1, Ancestor
<1>4. \A i \in 1 .. k : BlockAt(c, h)[i] = c[i]
  BY Ancestor, <1>0
<1> QED
  BY <1>2, <1>3, <1>4, SameChain

(* A chain is its own ancestor at its height.                              *)
LEMMA AncestorSelf ==
    ASSUME NEW c \in Chains
    PROVE  BlockAt(c, Len(c)) = c
<1>0. Len(c) \in 0 .. Len(c)
  BY ChainsAreSequences, MaxLenNat DEF Heights
<1> QED
  BY <1>0, Ancestor, SameChain

-----------------------------------------------------------------------------
(* The immutable height.                                                   *)

(* The immutable height has a checkpoint, at most one checkpoint is above  *)
(* it, and one is unless it is zero.                                       *)
LEMMA ImmutableIsBeforeLast ==
    ASSUME NEW t \in Table, TableOK(t), NEW n \in Nat
    PROVE  /\ ImmutableHeight(t, n) \in Heights
           /\ ImmutableHeight(t, n) <= n
           /\ t[ImmutableHeight(t, n)] # None
           /\ \/ ImmutableHeight(t, n) = 0
              \/ \E j \in Heights : j > ImmutableHeight(t, n) /\ j <= n /\ t[j] # None
           /\ \A j, k \in Heights :
                 /\ j > ImmutableHeight(t, n) /\ j <= n /\ t[j] # None
                 /\ k > ImmutableHeight(t, n) /\ k <= n /\ t[k] # None
                 => j = k
<1> DEFINE found == Checkpointed(t, n)
           m == Max(found)
           older == found \ {m}
           i == ImmutableHeight(t, n)
<1>0. Heights \subseteq Nat /\ 0 \in Heights
  BY MaxLenNat DEF Heights
<1>1. /\ found \subseteq Heights /\ 0 \in found
      /\ \A h \in Heights : h \in found <=> h <= n /\ t[h] # None
  BY <1>0 DEF Checkpointed, TableOK
<1>2. m \in found /\ \A y \in found : y <= m
  BY <1>1, MaxOfHeights
<1>3. i = IF t[m].sigs = 0 THEN m ELSE IF older = {} THEN 0 ELSE Max(older)
  BY <1>1 DEF ImmutableHeight
<1> HIDE DEF found, m, i
<1>4. m \in Nat
  BY <1>0, <1>1, <1>2
<1>5. CASE m = 0
  <2>1. older = {}
    BY <1>0, <1>1, <1>2, <1>5
  <2>2. i = 0
    BY <1>3, <1>5, <2>1
  <2>3. \A j \in Heights : j <= n /\ t[j] # None => j = 0
    BY <1>0, <1>1, <1>2, <1>5
  <2>4. i \in Heights /\ i <= n /\ t[i] # None
    BY <1>0, <1>1, <2>2
  <2>5. \A j \in Heights : ~(j > i /\ j <= n /\ t[j] # None)
    BY <2>2, <2>3
  <2> QED
    BY <2>2, <2>4, <2>5, Zenon DEF i
<1>6. CASE m # 0
  <2>1. t[m].sigs # 0
    BY <1>1, <1>2, <1>6, ParametersAssumption DEF TableOK
  <2>2. older # {} /\ older \subseteq Heights
    BY <1>1, <1>6
  <2>3. Max(older) \in older /\ \A y \in older : y <= Max(older)
    BY <2>2, MaxOfHeights
  <2>4. i = Max(older)
    BY <1>3, <2>1, <2>2
  <2>5. i \in found /\ i # m /\ i \in Heights /\ i < m
    <3>1. i \in found /\ i # m
      BY <2>3, <2>4
    <3>2. i \in Heights /\ i \in Nat /\ i <= m
      BY <3>1, <1>0, <1>1, <1>2
    <3> QED
      BY <3>1, <3>2, <1>4
  <2>6. \A j \in Heights : j > i /\ j <= n /\ t[j] # None => j = m
    BY <1>0, <1>1, <2>3, <2>4, <2>5
  <2>7. m > i /\ m <= n /\ t[m] # None /\ i <= n /\ t[i] # None
    BY <1>0, <1>1, <1>2, <2>5
  <2>8. m \in Heights
    BY <1>1, <1>2
  <2> QED
    BY <2>5, <2>6, <2>7, <2>8 DEF i
<1> QED
  BY <1>5, <1>6

(* The immutable height does not fall when no checkpoint at or above it    *)
(* goes away.                                                              *)
LEMMA ImmutableGrows ==
    ASSUME NEW t \in Table, NEW u \in Table, TableOK(t), TableOK(u),
           NEW n \in Nat, NEW m \in Nat,
           \A h \in Heights :
              (t[h] # None /\ h <= n /\ h >= ImmutableHeight(t, n)) => u[h] # None /\ h <= m
    PROVE  ImmutableHeight(t, n) <= ImmutableHeight(u, m)
<1> DEFINE i == ImmutableHeight(t, n)
           k == ImmutableHeight(u, m)
<1>0. Heights \subseteq Nat
  BY MaxLenNat DEF Heights
<1>1. /\ i \in Heights /\ i <= n /\ t[i] # None
      /\ i = 0 \/ \E j \in Heights : j > i /\ j <= n /\ t[j] # None
  BY ImmutableIsBeforeLast
<1>2. /\ k \in Heights
      /\ \A j, l \in Heights :
            (j > k /\ j <= m /\ u[j] # None /\ l > k /\ l <= m /\ u[l] # None) => j = l
  BY ImmutableIsBeforeLast
<1>3. \A h \in Heights : (t[h] # None /\ h <= n /\ h >= i) => u[h] # None /\ h <= m
  OBVIOUS
<1> HIDE DEF i, k
<1>4. ASSUME k < i PROVE FALSE
  <2>1. PICK j \in Heights : j > i /\ j <= n /\ t[j] # None
    BY <1>0, <1>1, <1>2, <1>4
  <2>2. u[i] # None /\ i <= m /\ u[j] # None /\ j <= m
    BY <1>0, <1>1, <1>3, <2>1
  <2> QED
    BY <1>0, <1>1, <1>2, <1>4, <2>1, <2>2
<1>5. i \in Nat /\ k \in Nat
  BY <1>0, <1>1, <1>2
<1>6. i <= k
  BY <1>4, <1>5
<1> QED
  BY <1>6 DEF i, k

-----------------------------------------------------------------------------
(* Adding a block to the table of checkpoints, and detaching the chain.    *)

(* Heights with checkpoints are a multiple of the interval apart.          *)
LEMMA MultiplesApart ==
    ASSUME NEW I \in Nat \ {0}, NEW a \in Nat, NEW b \in Nat,
           a % I = 0, b % I = 0, b <= a
    PROVE  (a - b) % I = 0
<1> DEFINE p == a \div I
           q == b \div I
           d == (a - b) \div I
           r == (a - b) % I
<1>1. a = I * p /\ b = I * q /\ p \in Int /\ q \in Int
  OBVIOUS
<1>2. a - b = I * d + r /\ d \in Int /\ r \in 0 .. I - 1
  OBVIOUS
<1> HIDE DEF p, q, d, r
<1>3. I * (p - q - d) = r
  BY <1>1, <1>2
<1>4. p - q - d = 0
  <2> DEFINE k == p - q - d
  <2>1. k \in Int /\ I * k = r
    BY <1>1, <1>2, <1>3
  <2> HIDE DEF k
  <2>2. ~(k >= 1)
    <3>1. ASSUME k >= 1 PROVE I * k >= I
      BY <2>1, <3>1
    <3> QED
      BY <3>1, <2>1, <1>2
  <2>3. ~(k <= -1)
    <3>1. ASSUME k <= -1 PROVE I * k < 0
      BY <2>1, <3>1
    <3> QED
      BY <3>1, <2>1, <1>2
  <2> QED
    BY <2>1, <2>2, <2>3 DEF k
<1>5. r = 0
  BY <1>1, <1>2, <1>3, <1>4
<1> QED
  BY <1>5 DEF r

(* A positive multiple of the interval is at least the interval.           *)
LEMMA MultipleAtLeast ==
    ASSUME NEW I \in Nat \ {0}, NEW x \in Nat \ {0}, x % I = 0
    PROVE  x >= I
OBVIOUS

(* Detaching the chain at n deletes all checkpoints from n on and no other.*)
LEMMA DetachedDeletes ==
    ASSUME NEW t \in Table, TableOK(t), NEW n \in Nat \ {0}
    PROVE  /\ Detached(t, n) \in Table
           /\ TableOK(Detached(t, n))
           /\ \A x \in Heights : x >= n => Detached(t, n)[x] = None
           /\ \A x \in Heights : x < n => Detached(t, n)[x] = t[x]
<1> DEFINE found == Checkpointed(t, MaxLen)
           top == Max(found)
           u == Detached(t, n)
<1>0. Heights \subseteq Nat /\ 0 \in Heights /\ \A x \in Heights : x <= MaxLen
  BY MaxLenNat DEF Heights
<1>1. found \subseteq Heights /\ 0 \in found /\ \A x \in Heights : x \in found <=> t[x] # None
  BY <1>0 DEF Checkpointed, TableOK
<1>2. top \in found /\ \A y \in found : y <= top
  BY <1>1, MaxOfHeights
<1>3. u = [h \in Heights |->
             IF h >= n /\ h >= Interval /\ h <= top /\ (top - h) % Interval = 0
             THEN None ELSE t[h]]
  BY <1>1 DEF Detached
<1> HIDE DEF found, top, u
<1>4. ASSUME NEW x \in Heights, x >= n, t[x] # None
      PROVE  x >= Interval /\ x <= top /\ (top - x) % Interval = 0
  <2>1. x \in Nat \ {0} /\ x <= top /\ top \in Nat \ {0} /\ top \in Heights /\ t[top] # None
    BY <1>0, <1>1, <1>2, <1>4
  <2>2. x % Interval = 0 /\ top % Interval = 0
    BY <2>1, <1>4 DEF TableOK
  <2>3. Interval \in Nat \ {0}
    BY ParametersAssumption
  <2> QED
    BY <2>1, <2>2, <2>3, MultiplesApart, MultipleAtLeast
<1>5. \A x \in Heights : x >= n => u[x] = None
  BY <1>3, <1>4
<1>6. \A x \in Heights : x < n => u[x] = t[x]
  BY <1>0, <1>3
<1>7. u \in Table
  BY <1>3 DEF Table
<1>8. TableOK(u)
  BY <1>0, <1>5, <1>6 DEF TableOK
<1> QED
  BY <1>5, <1>6, <1>7, <1>8 DEF u

(* Rounding up to the interval gives a natural number.                     *)
LEMMA RoundUpNat ==
    ASSUME NEW n \in Nat
    PROVE  RoundUp(n) \in Nat
<1>1. Interval \in Nat \ {0}
  BY ParametersAssumption
<1>2. (n + Interval - 1) \div Interval \in Nat
  BY <1>1
<1> QED
  BY <1>1, <1>2 DEF RoundUp

(* m_last_cull_height is a natural number.                                 *)
LEMMA CullNat ==
    ASSUME NEW t \in Table, TableOK(t), NEW last \in Nat, NEW h \in Nat
    PROVE  CullFrom(t, last, h) \in Nat /\ CullAfter(t, last, h) \in Nat
<1> DEFINE end == ImmutableHeight(t, h + 1)
           from == CullFrom(t, last, h)
<1>1. end \in Nat
  BY ImmutableIsBeforeLast, MaxLenNat DEF Heights
<1>2. from = Larger(last, RoundUp(IF end < StoreInterval THEN 0 ELSE end - StoreInterval))
  BY DEF CullFrom
<1>3. CullAfter(t, last, h) = IF h < StoreInterval THEN last
                              ELSE IF from >= end THEN from ELSE from + RoundUp(end - from)
  BY DEF CullAfter
<1> HIDE DEF end, from
<1>4. (IF end < StoreInterval THEN 0 ELSE end - StoreInterval) \in Nat
  BY <1>1, ParametersAssumption
<1>5. from \in Nat
  BY <1>2, <1>4, RoundUpNat DEF Larger
<1>6. ASSUME ~(from >= end) PROVE RoundUp(end - from) \in Nat
  <2>1. end - from \in Nat
    BY <1>1, <1>5, <1>6
  <2> QED
    BY <2>1, RoundUpNat
<1> QED
  BY <1>3, <1>5, <1>6 DEF from

(* A block on top of the chain, at height h, stores its checkpoint c and   *)
(* prunes only below the immutable height, which does not fall.            *)
LEMMA TableAfterBlock ==
    ASSUME NEW t \in Table, TableOK(t), NEW last \in Nat, NEW h \in Heights \ {0},
           NEW c \in Checkpoint \cup {None},
           c # None => c.sigs \in Signatures /\ h % Interval = 0,
           \A x \in Heights : x >= h => t[x] = None
    PROVE  /\ TableAfter(t, last, h, c) \in Table
           /\ TableOK(TableAfter(t, last, h, c))
           /\ TableAfter(t, last, h, c)[h] = IF h < StoreInterval THEN None ELSE c
           /\ \A x \in Heights : x > h => TableAfter(t, last, h, c)[x] = None
           /\ \A x \in Heights : x < h => TableAfter(t, last, h, c)[x] \in {t[x], None}
           /\ \A x \in Heights : x < h /\ x >= ImmutableHeight(t, h)
                                    => TableAfter(t, last, h, c)[x] = t[x]
           /\ ImmutableHeight(t, h) <= ImmutableHeight(TableAfter(t, last, h, c), h + 1)
<1> DEFINE end == ImmutableHeight(t, h + 1)
           u == TableAfter(t, last, h, c)
           C == Culled(t, last, h)
<1>0. Heights \subseteq Nat /\ 0 \in Heights /\ h \in Nat \ {0}
  BY MaxLenNat DEF Heights
<1>1. u = IF h < StoreInterval THEN t
          ELSE [x \in Heights |-> IF x = h /\ c # None THEN c
                                  ELSE IF x \in C THEN None ELSE t[x]]
  BY DEF TableAfter
<1>2. \A x \in C : x \in Heights /\ x < end /\ x # 0
  <2>1. 0 % StoreInterval = 0
    BY ParametersAssumption
  <2> QED
    BY <2>1 DEF Culled
<1>3. end <= ImmutableHeight(t, h)
  <2>1. ASSUME NEW x \in Heights, t[x] # None PROVE x <= h
    <3>1. x \in Nat /\ h \in Nat /\ ~(x >= h)
      BY <1>0, <2>1
    <3> QED
      BY <3>1
  <2>2. h \in Nat /\ h + 1 \in Nat
    BY <1>0
  <2> QED
    BY <2>1, <2>2, ImmutableGrows
<1>4. end \in Nat /\ ImmutableHeight(t, h) \in Nat /\ ImmutableHeight(t, h) <= h
  <2>1. h \in Nat /\ h + 1 \in Nat
    BY <1>0
  <2>2. end \in Heights /\ ImmutableHeight(t, h) \in Heights /\ ImmutableHeight(t, h) <= h
    BY <2>1, ImmutableIsBeforeLast
  <2> QED
    BY <1>0, <2>2, Zenon
<1> HIDE DEF end, u, C
<1>5. u \in Table
  BY <1>1 DEF Table
<1>6. TableOK(u)
  <2>1. u[0] # None
    BY <1>0, <1>1, <1>2 DEF TableOK
  <2>2. \A x \in Heights \ {0} : u[x] # None => u[x].sigs \in Signatures /\ x % Interval = 0
    BY <1>1 DEF TableOK
  <2> QED
    BY <2>1, <2>2 DEF TableOK
<1>7. u[h] = IF h < StoreInterval THEN None ELSE c
  BY <1>0, <1>1
<1>8. \A x \in Heights : x > h => u[x] = None
  BY <1>0, <1>1
<1>9. \A x \in Heights : x < h => u[x] \in {t[x], None}
  BY <1>0, <1>1
<1>10. \A x \in Heights : x < h /\ x >= ImmutableHeight(t, h) => u[x] = t[x]
  BY <1>0, <1>1, <1>2, <1>3, <1>4
<1>11. ImmutableHeight(t, h) <= ImmutableHeight(u, h + 1)
  <2>1. \A x \in Heights : (t[x] # None /\ x <= h /\ x >= ImmutableHeight(t, h))
                              => u[x] # None /\ x <= h + 1
    BY <1>0, <1>10
  <2> QED
    BY <1>0, <1>5, <1>6, <2>1, ImmutableGrows
<1> QED
  BY <1>5, <1>6, <1>7, <1>8, <1>9, <1>10, <1>11 DEF u

-----------------------------------------------------------------------------
(* Blocks and alternative chains.                                          *)

(* A block is a chain that is not empty, within the bound.                 *)
LEMMA BlockFacts ==
    ASSUME NEW b \in Blocks
    PROVE  b \in Chains /\ Len(b) \in Nat \ {0} /\ Len(b) \in Heights
<1>1. b \in Chains /\ b # <<>>
  BY ParametersAssumption
<1>2. b \in Seq(Label) /\ Len(b) \in Heights /\ Heights \subseteq Nat
  BY <1>1, ChainsAreSequences, MaxLenNat DEF Heights
<1>3. Len(b) # 0
  BY <1>1, <1>2, EmptySeq
<1> QED
  BY <1>1, <1>2, <1>3

(* The first block of the alternative chain of b is at a height of its own,*)
(* the blocks from there to b are alternative ones, and the one below is   *)
(* not.                                                                    *)
LEMMA FrontFacts ==
    ASSUME NEW b \in Blocks
    PROVE  /\ AltFront(b) \in 1 .. Len(b)
           /\ \A j \in AltFront(b) .. Len(b) - 1 : BlockAt(b, j) \in DOMAIN alt
           /\ AltFront(b) > 1 => BlockAt(b, AltFront(b) - 1) \notin DOMAIN alt
<1> DEFINE S == {k \in 1 .. Len(b) : \A j \in k .. Len(b) - 1 : BlockAt(b, j) \in DOMAIN alt}
           f == AltFront(b)
<1>0. Len(b) \in Nat \ {0}
  BY BlockFacts
<1>1. S \subseteq Nat /\ Len(b) \in S
  BY <1>0
<1>2. Min(S) \in S /\ \A y \in S : Min(S) <= y
  <2> HIDE DEF S
  <2> QED
    BY <1>1, MinOfNats, Zenon
<1>3. f = Min(S)
  BY DEF AltFront
<1>4. f \in S
  BY <1>2, <1>3
<1>5. f \in 1 .. Len(b) /\ \A j \in f .. Len(b) - 1 : BlockAt(b, j) \in DOMAIN alt
  BY <1>4
<1> HIDE DEF f
<1>6. ASSUME f > 1, BlockAt(b, f - 1) \in DOMAIN alt PROVE FALSE
  <2>1. f - 1 \in 1 .. Len(b)
    BY <1>0, <1>5, <1>6
  <2>2. \A j \in f - 1 .. Len(b) - 1 : j = f - 1 \/ j \in f .. Len(b) - 1
    BY <1>0, <1>5
  <2>3. f - 1 \in S
    BY <2>1, <2>2, <1>5, <1>6
  <2> HIDE DEF S
  <2>4. f <= f - 1
    BY <1>2, <1>3, <2>3
  <2> QED
    BY <2>4, <1>5, <1>0
<1> QED
  BY <1>5, <1>6 DEF f

(* The checkpoint that comes with a block is stored at a height with a     *)
(* checkpoint.                                                             *)
LEMMA KeptFacts ==
    ASSUME NEW b \in Blocks, NEW n \in Signatures \cup {0}, MayHave(b, n)
    PROVE  /\ Kept(b, n) \in Checkpoint \cup {None}
           /\ Kept(b, n) # None => Kept(b, n).sigs \in Signatures /\ Len(b) % Interval = 0
           /\ Kept(b, n) # None => Kept(b, n).block = b
<1>1. b \in Chains
  BY BlockFacts
<1>2. CASE Kept(b, n) = None
  BY <1>2
<1>3. CASE Kept(b, n) = [block |-> b, sigs |-> n] /\ n # 0
  BY <1>1, <1>3 DEF Checkpoint, MayHave
<1> QED
  BY <1>2, <1>3 DEF Kept, CheckpointOf

(* The checkpoints an alternative chain brings along.                      *)
LEMMA BroughtFacts ==
    ASSUME IInv, NEW b \in Blocks, NEW c \in Checkpoint \cup {None},
           c # None => c.sigs \in Signatures /\ Len(b) % Interval = 0
    PROVE  Brought(b, c) \in Table /\ BringsOK(Brought(b, c))
<1> DEFINE t == Brought(b, c)
           f == AltFront(b)
<1>0. Len(b) \in Nat \ {0} /\ Heights \subseteq Nat /\ b \in Chains
  BY BlockFacts, MaxLenNat DEF Heights
<1>1. f \in 1 .. Len(b) /\ \A j \in f .. Len(b) - 1 : BlockAt(b, j) \in DOMAIN alt
  BY FrontFacts
<1>2. ASSUME NEW k \in Heights
      PROVE  /\ t[k] \in Checkpoint \cup {None}
             /\ t[k] # None => k > 0 /\ t[k].sigs \in Signatures /\ k % Interval = 0
  <2> DEFINE a == BlockAt(b, k)
  <2>1. t[k] = IF k \notin f .. Len(b) THEN None
               ELSE IF k = Len(b) THEN c
               ELSE IF alt[a] # None THEN alt[a]
               ELSE IF cp[k] # None /\ cp[k].block = a THEN cp[k]
               ELSE None
    BY DEF Brought
  <2> HIDE DEF t, a
  <2>2. CASE k \in f .. Len(b) - 1
    <3>1. a \in DOMAIN alt /\ Len(a) = k /\ k > 0
      <4>1. k \in 0 .. Len(b) /\ k > 0
        BY <2>2, <1>0, <1>1
      <4> QED
        BY <4>1, <2>2, <1>0, <1>1, Ancestor DEF a
    <3>2. /\ alt[a] \in Checkpoint \cup {None}
          /\ alt[a] # None => alt[a].sigs \in Signatures /\ k % Interval = 0
      BY <3>1 DEF IInv, TypeOK
    <3>3. /\ cp[k] \in Checkpoint \cup {None}
          /\ cp[k] # None => cp[k].sigs \in Signatures /\ k % Interval = 0
      BY <3>1 DEF IInv, TypeOK, TableOK, Table
    <3> QED
      BY <2>1, <3>1, <3>2, <3>3
  <2>3. CASE k = Len(b)
    BY <2>1, <2>3, <1>0
  <2>4. CASE k \notin f .. Len(b)
    BY <2>1, <2>4
  <2> QED
    BY <2>2, <2>3, <2>4, <1>0, <1>1
<1>3. t = [k \in Heights |-> t[k]]
  BY DEF Brought
<1> HIDE DEF t
<1>4. t \in Table /\ BringsOK(t)
  BY <1>2, <1>3 DEF Table, BringsOK
<1> QED
  BY <1>4 DEF t

(* A block below an ancestor of c is below c.                              *)
LEMMA BelowAncestor ==
    ASSUME NEW c \in Chains, NEW n \in 0 .. Len(c), NEW a \in Chains, Below(a, BlockAt(c, n))
    PROVE  Below(a, c)
<1>1. Len(a) \in Nat /\ Len(c) \in Nat
  BY ChainsAreSequences, MaxLenNat DEF Heights
<1>2. Len(BlockAt(c, n)) = n
  BY Ancestor
<1>3. Len(a) \in 0 .. n
  BY <1>1, <1>2 DEF Below
<1>4. BlockAt(BlockAt(c, n), Len(a)) = BlockAt(c, Len(a))
  BY <1>3, AncestorOfAncestor
<1>5. BlockAt(BlockAt(c, n), Len(a)) = a
  BY Zenon DEF Below
<1>6. Len(a) <= Len(c)
  BY <1>1, <1>3
<1> QED
  BY <1>4, <1>5, <1>6, Zenon DEF Below

(* A block below d is d or below its parent.                               *)
LEMMA BelowChild ==
    ASSUME NEW d \in Chains, Len(d) > 0, NEW a \in Chains, Below(a, d)
    PROVE  a = d \/ Below(a, BlockAt(d, Len(d) - 1))
<1>1. Len(a) \in Nat /\ Len(d) \in Nat
  BY ChainsAreSequences, MaxLenNat DEF Heights
<1>2. CASE Len(a) = Len(d)
  <2>1. BlockAt(d, Len(d)) = d
    BY AncestorSelf
  <2>2. BlockAt(d, Len(a)) = a
    BY Zenon DEF Below
  <2> QED
    BY <1>2, <2>1, <2>2
<1>3. CASE Len(a) # Len(d)
  <2>1. Len(a) \in 0 .. Len(d) - 1 /\ Len(d) - 1 \in 0 .. Len(d)
    BY <1>1, <1>3 DEF Below
  <2>2. Len(BlockAt(d, Len(d) - 1)) = Len(d) - 1
    BY <2>1, Ancestor
  <2>3. BlockAt(BlockAt(d, Len(d) - 1), Len(a)) = BlockAt(d, Len(a))
    BY <2>1, AncestorOfAncestor
  <2> QED
    BY <2>1, <2>2, <2>3 DEF Below
<1> QED
  BY <1>2, <1>3

(* What the invariant says of the chain and the table when no switch is in *)
(* progress.                                                               *)
LEMMA ChainFacts ==
    ASSUME IInv
    PROVE  /\ chain \in Chains /\ Len(chain) \in Nat /\ Len(chain) \in Heights
           /\ ChainHeight = Len(chain) + 1 /\ ChainHeight \in Nat \ {0}
           /\ cp \in Table /\ TableOK(cp) /\ cull \in Nat /\ immutable \in Nat
           /\ ~NoCheckpoint
           /\ ImmutableNow = Larger(immutable, ImmutableHeight(cp, ChainHeight))
           /\ ImmutableNow \in Nat /\ immutable <= ImmutableNow
           /\ ImmutableHeight(cp, ChainHeight) \in Nat
           /\ ImmutableHeight(cp, ChainHeight) <= ImmutableNow
<1>1. chain \in Chains /\ cp \in Table /\ TableOK(cp) /\ cull \in Nat /\ immutable \in Nat
  BY DEF IInv, TypeOK
<1>2. Len(chain) \in Nat /\ Len(chain) \in Heights /\ Heights \subseteq Nat /\ 0 \in Heights
  BY <1>1, ChainsAreSequences, MaxLenNat DEF Heights
<1>3. ChainHeight = Len(chain) + 1 /\ ChainHeight \in Nat \ {0}
  BY <1>2 DEF ChainHeight
<1>4. 0 \in Checkpointed(cp, ChainHeight)
  BY <1>1, <1>2, <1>3 DEF Checkpointed, TableOK
<1>5. ~NoCheckpoint
  BY <1>4 DEF NoCheckpoint
<1>6. ImmutableHeight(cp, ChainHeight) \in Nat
  BY <1>1, <1>2, <1>3, ImmutableIsBeforeLast, Zenon
<1>7. ImmutableNow = Larger(immutable, ImmutableHeight(cp, ChainHeight))
  BY <1>5 DEF ImmutableNow
<1> QED
  BY <1>1, <1>2, <1>3, <1>5, <1>6, <1>7 DEF Larger

-----------------------------------------------------------------------------
(* Each action preserves the invariant.                                    *)

(* The facts about a block that may be added on top of the main chain.     *)
LEMMA OnTopFacts ==
    ASSUME IInv, NEW b \in Blocks, NEW n \in Signatures \cup {0}, MayHave(b, n),
           Len(b) = ChainHeight
    PROVE  LET t == TableAfter(cp, cull, Len(b), Kept(b, n))
           IN  /\ t \in Table /\ TableOK(t)
               /\ \A x \in Heights : x > Len(b) => t[x] = None
               /\ \A x \in Heights : x < Len(b) /\ x >= ImmutableHeight(cp, ChainHeight)
                                        => t[x] = cp[x]
               /\ ImmutableHeight(cp, ChainHeight) <= ImmutableHeight(t, Len(b) + 1)
               /\ CullAfter(cp, cull, Len(b)) \in Nat
<1>1. /\ Kept(b, n) \in Checkpoint \cup {None}
      /\ Kept(b, n) # None => Kept(b, n).sigs \in Signatures /\ Len(b) % Interval = 0
  BY KeptFacts
<1>2. Len(b) \in Heights \ {0} /\ Len(b) \in Nat
  BY BlockFacts
<1>3. \A x \in Heights : x >= Len(b) => cp[x] = None
  <2>1. \A x \in Heights : x >= Len(b) => x > Len(chain)
    BY ChainFacts, MaxLenNat DEF Heights
  <2> QED
    BY <2>1 DEF IInv, NoneAhead
<1>4. cp \in Table /\ TableOK(cp) /\ cull \in Nat
  BY ChainFacts
<1>5. CullAfter(cp, cull, Len(b)) \in Nat
  BY <1>2, <1>4, CullNat, Zenon
<1> QED
  BY <1>1, <1>2, <1>3, <1>4, <1>5, TableAfterBlock

(* A block is added to the main chain.                                     *)
LEMMA AddBlockStep ==
    ASSUME IInv, NEW b \in Blocks, NEW n \in Signatures \cup {0}, AddBlock(b, n)
    PROVE  IInv'
<1> DEFINE t == TableAfter(cp, cull, Len(b), Kept(b, n))
<1>1. /\ t \in Table /\ TableOK(t) /\ \A x \in Heights : x > Len(b) => t[x] = None
      /\ CullAfter(cp, cull, Len(b)) \in Nat
  BY OnTopFacts DEF AddBlock
<1>2. cp' = t /\ chain' = b /\ cull' = CullAfter(cp, cull, Len(b))
  BY DEF AddBlock
<1> HIDE DEF t
<1>3. b \in Chains /\ Len(b) = Len(chain) + 1 /\ Len(b) > 0
  BY BlockFacts, ChainFacts DEF AddBlock
<1>4. TypeOK'
  BY <1>1, <1>2, <1>3 DEF IInv, TypeOK, AddBlock, Vote
<1>5. NoneAhead'
  BY <1>1, <1>2 DEF NoneAhead
<1>6. AlternativesOffMain'
  <2>1. ASSUME NEW a \in DOMAIN alt, Below(a, b) PROVE FALSE
    <3>1. a \in Chains
      BY <2>1, BlockFacts DEF IInv, TypeOK
    <3>2. BlockAt(b, Len(b) - 1) = chain
      <4>1. Len(b) - 1 = Len(chain)
        BY <1>3, ChainFacts
      <4> QED
        BY <4>1 DEF AddBlock
    <3>3. a = b \/ Below(a, chain)
      BY <1>3, <2>1, <3>1, <3>2, BelowChild
    <3> QED
      BY <2>1, <3>3 DEF IInv, AlternativesOffMain, OnMain, Below, AddBlock, HaveBlock
  <2> QED
    BY <1>2, <2>1 DEF AlternativesOffMain, OnMain, Below, AddBlock
<1>7. TableOK(cp)'
  BY <1>1, <1>2 DEF TableOK
<1> QED
  BY <1>4, <1>5, <1>6, <1>7 DEF IInv, AddBlock

(* A block is added and taken back.                                        *)
LEMMA AddBlockAbortsStep ==
    ASSUME IInv, NEW b \in Blocks, NEW n \in Signatures \cup {0}, AddBlockAborts(b, n)
    PROVE  IInv'
<1> DEFINE t == TableAfter(cp, cull, Len(b), Kept(b, n))
           u == Detached(t, ChainHeight)
<1>1. t \in Table /\ TableOK(t) /\ CullAfter(cp, cull, Len(b)) \in Nat
  BY OnTopFacts DEF AddBlockAborts
<1>2. ChainHeight \in Nat \ {0} /\ ChainHeight = Len(chain) + 1 /\ Len(chain) \in Nat
  BY ChainFacts
<1>3. cp' = u /\ cull' = Smaller(CullAfter(cp, cull, Len(b)), ChainHeight)
  BY DEF AddBlockAborts
<1> HIDE DEF t
<1>4. u \in Table /\ TableOK(u) /\ \A x \in Heights : x >= ChainHeight => u[x] = None
  BY <1>1, <1>2, DetachedDeletes
<1> HIDE DEF u
<1>5. TypeOK'
  BY <1>1, <1>2, <1>3, <1>4 DEF IInv, TypeOK, AddBlockAborts, Vote, Smaller
<1>6. NoneAhead'
  <2>1. \A x \in Heights : x > Len(chain) => x >= ChainHeight
    BY <1>2, MaxLenNat DEF Heights
  <2> QED
    BY <1>3, <1>4, <2>1 DEF NoneAhead, AddBlockAborts
<1>7. TableOK(cp)'
  BY <1>3, <1>4 DEF TableOK
<1> QED
  BY <1>5, <1>6, <1>7 DEF IInv, AddBlockAborts, AlternativesOffMain, OnMain

(* An alternative block is refused.                                        *)
LEMMA AltRefusedStep ==
    ASSUME IInv, NEW b \in Blocks, AltRefused(b)
    PROVE  IInv'
<1>1. ImmutableNow \in Nat
  BY ChainFacts
<1>2. TypeOK'
  BY <1>1 DEF IInv, TypeOK, AltRefused
<1> QED
  BY <1>2 DEF IInv, AltRefused, Alternative, NoneAhead, AlternativesOffMain, OnMain, TableOK

(* A disconnected alternative chain is cleaned up.                         *)
LEMMA AltDisconnectedStep ==
    ASSUME IInv, NEW b \in Blocks, AltDisconnected(b)
    PROVE  IInv'
<1>1. ImmutableNow \in Nat
  BY ChainFacts
<1>2. DOMAIN alt' \subseteq DOMAIN alt /\ \A a \in DOMAIN alt' : alt'[a] = alt[a]
  BY DEF AltDisconnected, Without
<1>3. alt' \in [DOMAIN alt' -> Checkpoint \cup {None}]
  BY DEF AltDisconnected, Without, IInv, TypeOK
<1>4. TypeOK'
  BY <1>1, <1>2, <1>3 DEF IInv, TypeOK, AltDisconnected
<1>5. work' = Idle /\ work = Idle
  BY DEF AltDisconnected, Alternative
<1> QED
  BY <1>2, <1>4, <1>5
  DEF IInv, AltDisconnected, NoneAhead, AlternativesOffMain, OnMain, TableOK

(* The table of alternative blocks with another one.                       *)
LEMMA WithFacts ==
    ASSUME IInv, NEW b \in Blocks, NEW c \in Checkpoint \cup {None},
           c # None => c.sigs \in Signatures /\ Len(b) % Interval = 0
    PROVE  /\ DOMAIN With(b, c) = DOMAIN alt \cup {b}
           /\ DOMAIN With(b, c) \subseteq Blocks
           /\ With(b, c) \in [DOMAIN With(b, c) -> Checkpoint \cup {None}]
           /\ \A a \in DOMAIN With(b, c) :
                 With(b, c)[a] # None
                    => With(b, c)[a].sigs \in Signatures /\ Len(a) % Interval = 0
<1>1. DOMAIN alt \subseteq Blocks /\ alt \in [DOMAIN alt -> Checkpoint \cup {None}]
  BY DEF IInv, TypeOK
<1>2. \A a \in DOMAIN alt : alt[a] # None => alt[a].sigs \in Signatures /\ Len(a) % Interval = 0
  BY DEF IInv
<1> QED
  BY <1>1, <1>2 DEF With

(* An alternative block is stored.                                         *)
LEMMA AltStoredStep ==
    ASSUME IInv, NEW b \in Blocks, NEW n \in Signatures \cup {0}, AltStored(b, n)
    PROVE  IInv'
<1> DEFINE w == With(b, Kept(b, n))
<1>1. ImmutableNow \in Nat
  BY ChainFacts
<1>2. /\ DOMAIN w = DOMAIN alt \cup {b} /\ DOMAIN w \subseteq Blocks
      /\ w \in [DOMAIN w -> Checkpoint \cup {None}]
      /\ \A a \in DOMAIN w : w[a] # None => w[a].sigs \in Signatures /\ Len(a) % Interval = 0
  BY KeptFacts, WithFacts, Zenon DEF AltStored
<1>3. alt' = w
  BY DEF AltStored
<1> HIDE DEF w
<1>4. TypeOK'
  BY <1>1, <1>2, <1>3 DEF IInv, TypeOK, AltStored, Vote
<1>5. work' = Idle /\ work = Idle /\ ~OnMain(b)
  BY DEF AltStored, Alternative, HaveBlock
<1>6. AlternativesOffMain'
  BY <1>2, <1>3, <1>5 DEF IInv, AltStored, AlternativesOffMain, OnMain
<1> QED
  BY <1>2, <1>3, <1>4, <1>5, <1>6 DEF IInv, AltStored, NoneAhead, TableOK

(* A quorum has voted for a checkpoint.                                    *)
LEMMA VoteCheckpointStep ==
    ASSUME IInv, NEW b \in Blocks, NEW n \in Signatures, VoteCheckpoint(b, n)
    PROVE  IInv'
<1> DEFINE h == Len(b)
           c == [block |-> b, sigs |-> n]
<1>1. b \in Chains /\ h \in Nat \ {0} /\ h \in Heights /\ n # 0
  BY BlockFacts, ParametersAssumption
<1>2. cp' = [cp EXCEPT ![h] = c] /\ c \in Checkpoint /\ c.sigs = n /\ c # None
  BY <1>1, ParametersAssumption DEF VoteCheckpoint, CheckpointOf, Checkpoint
<1>3. h % Interval = 0
  BY <1>1 DEF VoteCheckpoint, MayHave
<1>4. h <= Len(chain)
  BY <1>1, ChainFacts DEF VoteCheckpoint, IInv, NoneAhead
<1>5. cp \in Table /\ TableOK(cp) /\ Heights \subseteq Nat
  BY ChainFacts, MaxLenNat DEF Heights
<1> HIDE DEF c, h
<1>6. TypeOK'
  <2>1. cp' \in Table
    BY <1>1, <1>2, <1>5 DEF Table
  <2> QED
    BY <2>1 DEF IInv, TypeOK, VoteCheckpoint, Vote
<1>7. TableOK(cp)'
  BY <1>1, <1>2, <1>3, <1>5 DEF TableOK, Table
<1>8. NoneAhead'
  BY <1>1, <1>2, <1>4, <1>5, ChainFacts DEF IInv, NoneAhead, Table, VoteCheckpoint
<1> QED
  BY <1>6, <1>7, <1>8 DEF IInv, VoteCheckpoint, AlternativesOffMain, OnMain

(* The operator pops blocks.                                               *)
LEMMA PopBlocksStep ==
    ASSUME IInv, NEW n \in Heights, PopBlocks(n)
    PROVE  IInv'
<1> DEFINE u == Detached(cp, n + 1)
<1>0. n \in Nat /\ n + 1 \in Nat \ {0} /\ Heights \subseteq Nat /\ n \in 0 .. Len(chain)
  BY ChainFacts, ParametersAssumption DEF Heights, PopBlocks
<1>1. cp' = u /\ chain' = BlockAt(chain, n) /\ cull' = Smaller(cull, n + 1)
  BY DEF PopBlocks
<1>2. u \in Table /\ TableOK(u) /\ \A x \in Heights : x >= n + 1 => u[x] = None
  BY <1>0, ChainFacts, DetachedDeletes
<1> HIDE DEF u
<1>3. chain' \in Chains /\ Len(chain') = n
  BY <1>0, <1>1, ChainFacts, Ancestor
<1>4. TypeOK'
  BY <1>0, <1>1, <1>2, <1>3 DEF IInv, TypeOK, PopBlocks, Smaller
<1>5. NoneAhead'
  BY <1>0, <1>1, <1>2, <1>3 DEF NoneAhead
<1>6. AlternativesOffMain'
  <2>1. ASSUME NEW a \in DOMAIN alt, Below(a, BlockAt(chain, n)) PROVE FALSE
    <3>1. a \in Chains /\ chain \in Chains
      BY BlockFacts DEF IInv, TypeOK
    <3>2. Below(a, chain)
      BY <1>0, <2>1, <3>1, BelowAncestor
    <3> QED
      BY <2>1, <3>2 DEF IInv, AlternativesOffMain, OnMain, Below, PopBlocks
  <2> QED
    BY <1>1, <2>1 DEF AlternativesOffMain, OnMain, Below, PopBlocks
<1>7. TableOK(cp)'
  BY <1>1, <1>2 DEF TableOK
<1> QED
  BY <1>4, <1>5, <1>6, <1>7 DEF IInv, PopBlocks

(* The daemon restarts.                                                    *)
LEMMA RestartStep ==
    ASSUME IInv, Restart
    PROVE  IInv'
<1>1. TypeOK'
  BY DEF IInv, TypeOK, Restart
<1> QED
  BY <1>1 DEF IInv, Restart, NoneAhead, AlternativesOffMain, OnMain, TableOK

(* The fork of an alternative chain that may win is above the immutable    *)
(* height, and the block below it is on the main chain.                    *)
LEMMA ForkFacts ==
    ASSUME IInv, NEW b \in Blocks, Alternative(b), Allowed(Len(b)), Connects(b)
    PROVE  /\ AltFront(b) > ImmutableNow
           /\ AltFront(b) - 1 \in 0 .. Len(chain)
           /\ BlockAt(b, AltFront(b) - 1) = BlockAt(chain, AltFront(b) - 1)
<1> DEFINE f == AltFront(b)
<1>0. b \in Chains /\ Len(b) \in Nat \ {0} /\ Len(chain) \in Nat /\ chain \in Chains
  BY BlockFacts, ChainFacts
<1>1. f \in 1 .. Len(b) /\ (f > 1 => BlockAt(b, f - 1) \notin DOMAIN alt)
  BY FrontFacts
<1>2. f > ImmutableNow
  BY ChainFacts DEF Allowed, Connects
<1>3. f - 1 \in 0 .. Len(b) /\ Len(BlockAt(b, f - 1)) = f - 1
  BY <1>0, <1>1, Ancestor
<1>4. OnMain(BlockAt(b, f - 1))
  <2>1. CASE f = Len(b)
    <3>1. CASE BlockAt(b, Len(b) - 1) \in DOMAIN alt
      <4>1. BlockAt(b, f - 1) \in Blocks
        BY <2>1, <3>1 DEF IInv, TypeOK
      <4>2. f - 1 > 0
        BY <4>1, <1>3, BlockFacts
      <4> QED
        BY <4>2, <1>0, <1>1, <2>1, <3>1
    <3>2. CASE OnMain(BlockAt(b, Len(b) - 1))
      BY <2>1, <3>2
    <3> QED
      BY <3>1, <3>2 DEF Alternative
  <2>2. CASE f # Len(b)
    BY <2>2 DEF Connects
  <2> QED
    BY <2>1, <2>2
<1>5. f - 1 <= Len(chain) /\ BlockAt(chain, f - 1) = BlockAt(b, f - 1)
  BY <1>3, <1>4 DEF OnMain
<1> QED
  BY <1>0, <1>1, <1>2, <1>5

(* A switch to an alternative chain starts.                                *)
LEMMA StartSwitchStep ==
    ASSUME IInv, NEW b \in Blocks, NEW n \in Signatures \cup {0}, StartSwitch(b, n)
    PROVE  IInv'
<1> DEFINE w == With(b, Kept(b, n))
           f == AltFront(b)
           u == Detached(cp, f)
           br == Brought(b, Kept(b, n))
           s == [phase |-> "connect", fork |-> f, path |-> b, brought |-> br,
                 old |-> chain, oldcp |-> cp]
<1>1. /\ Kept(b, n) \in Checkpoint \cup {None}
      /\ Kept(b, n) # None => Kept(b, n).sigs \in Signatures /\ Len(b) % Interval = 0
  BY KeptFacts DEF StartSwitch
<1>2. /\ DOMAIN w = DOMAIN alt \cup {b} /\ DOMAIN w \subseteq Blocks
      /\ w \in [DOMAIN w -> Checkpoint \cup {None}]
      /\ \A a \in DOMAIN w : w[a] # None => w[a].sigs \in Signatures /\ Len(a) % Interval = 0
  BY <1>1, WithFacts, Zenon
<1>3. br \in Table /\ BringsOK(br)
  BY <1>1, BroughtFacts
<1>4. /\ f > ImmutableNow /\ f - 1 \in 0 .. Len(chain)
      /\ BlockAt(b, f - 1) = BlockAt(chain, f - 1)
  BY ForkFacts DEF StartSwitch
<1>5. f \in 1 .. Len(b) /\ b \in Chains /\ Len(b) \in Nat /\ Len(b) \in Heights
  BY FrontFacts, BlockFacts
<1>6. f \in 1 .. MaxLen /\ f \in Nat \ {0} /\ Heights \subseteq Nat
  BY <1>5, MaxLenNat DEF Heights
<1>7. /\ u \in Table /\ TableOK(u)
      /\ \A x \in Heights : x >= f => u[x] = None
      /\ \A x \in Heights : x < f => u[x] = cp[x]
  BY <1>6, ChainFacts, DetachedDeletes, Zenon
<1>8. /\ alt' = w /\ chain' = BlockAt(chain, f - 1) /\ cp' = u /\ cull' = Smaller(cull, f)
      /\ immutable' = ImmutableNow /\ work' = s /\ work = Idle
  BY DEF StartSwitch, Alternative
<1>9. ~Below(b, chain)
  BY DEF StartSwitch, Alternative, HaveBlock, OnMain, Below
<1> HIDE DEF w, f, u, br
<1>10. chain' \in Chains /\ Len(chain') = f - 1 /\ chain \in Chains
  BY <1>4, <1>8, ChainFacts, Ancestor
<1>11. s \in Switch /\ s # Idle /\ s.phase = "connect" /\ s.fork = f /\ s.path = b
       /\ s.brought = br /\ s.old = chain /\ s.oldcp = cp
  BY <1>3, <1>6, ChainFacts DEF Switch, Idle
<1> HIDE DEF s
<1>12. TypeOK'
  <2>1. ImmutableNow \in Nat /\ cull \in Nat
    BY ChainFacts
  <2> QED
    BY <2>1, <1>2, <1>6, <1>7, <1>8, <1>10, <1>11 DEF IInv, TypeOK, StartSwitch, Vote, Smaller
<1>13. NoneAhead'
  <2>1. \A x \in Heights : x > f - 1 => x >= f
    BY <1>6
  <2> QED
    BY <2>1, <1>7, <1>8, <1>10 DEF NoneAhead
<1>14. SwitchOK'
  <2>1. \A a \in DOMAIN w : ~Below(a, chain)
    BY <1>2, <1>8, <1>9 DEF IInv, AlternativesOffMain, OnMain, Below
  <2>2. \A h \in Heights : h > Len(chain) => cp[h] = None
    BY DEF IInv, NoneAhead
  <2>3. ImmutableHeight(cp, Len(chain) + 1) <= ImmutableNow /\ TableOK(cp)
    BY ChainFacts
  <2>4. f - 1 < Len(b) /\ f - 1 <= Len(chain) /\ f - 1 <= f - 1
    BY <1>4, <1>5, <1>6
  <2>5. \A h \in 0 .. f - 1 : u[h] # None => cp[h] # None
    <3>1. \A h \in 0 .. f - 1 : h \in Heights /\ h < f
      BY <1>6, MaxLenNat DEF Heights
    <3> QED
      BY <3>1, <1>7
  <2> QED
    BY <2>1, <2>2, <2>3, <2>4, <2>5, <1>3, <1>4, <1>8, <1>10, <1>11 DEF SwitchOK
<1>15. TableOK(cp)'
  BY <1>7, <1>8 DEF TableOK
<1> QED
  BY <1>2, <1>8, <1>11, <1>12, <1>13, <1>14, <1>15 DEF IInv, AlternativesOffMain

(* What the invariant says during a switch.                                *)
LEMMA SwitchFacts ==
    ASSUME IInv, work # Idle
    PROVE  /\ work \in Switch /\ SwitchOK
           /\ work.fork \in Nat \ {0} /\ work.fork - 1 \in Nat
           /\ work.path \in Chains /\ work.path \in Blocks /\ Len(work.path) \in Nat
           /\ Len(work.path) \in Heights
           /\ work.old \in Chains /\ Len(work.old) \in Nat /\ Len(work.old) \in Heights
           /\ work.brought \in Table /\ work.oldcp \in Table
           /\ work.phase \in {"connect", "restore"}
<1>1. work \in Switch /\ SwitchOK
  BY DEF IInv, TypeOK
<1>2. /\ work.fork \in 1 .. MaxLen /\ work.path \in Blocks /\ work.old \in Chains
      /\ work.brought \in Table /\ work.oldcp \in Table
      /\ work.phase \in {"connect", "restore"}
  BY <1>1 DEF Switch
<1>3. work.path \in Chains /\ Len(work.path) \in Nat /\ Len(work.path) \in Heights
  BY <1>2, BlockFacts
<1>4. Len(work.old) \in Nat /\ Len(work.old) \in Heights
  BY <1>2, ChainsAreSequences, MaxLenNat DEF Heights
<1>5. work.fork \in Nat \ {0} /\ work.fork - 1 \in Nat
  BY <1>2, ParametersAssumption
<1> QED
  BY <1>1, <1>2, <1>3, <1>4, <1>5

(* The table after the next block of a chain d, with checkpoint c.         *)
LEMMA NextBlockFacts ==
    ASSUME IInv, work # Idle, NEW d \in Chains, Len(chain) < Len(d),
           chain = BlockAt(d, Len(chain)), NEW c \in Checkpoint \cup {None},
           c # None => c.sigs \in Signatures /\ ChainHeight % Interval = 0
    PROVE  LET t == TableAfter(cp, cull, ChainHeight, c)
           IN  /\ t \in Table /\ TableOK(t)
               /\ t[ChainHeight] = IF ChainHeight < StoreInterval THEN None ELSE c
               /\ \A x \in Heights : x > ChainHeight => t[x] = None
               /\ \A x \in Heights : x < ChainHeight => t[x] \in {cp[x], None}
               /\ \A x \in Heights : x < ChainHeight /\ x >= ImmutableHeight(cp, ChainHeight)
                                        => t[x] = cp[x]
               /\ CullAfter(cp, cull, ChainHeight) \in Nat
               /\ BlockAt(d, ChainHeight) \in Chains
               /\ Len(BlockAt(d, ChainHeight)) = ChainHeight
               /\ ChainHeight \in 1 .. Len(d) /\ ChainHeight \in Heights
<1>1. ChainHeight = Len(chain) + 1 /\ Len(chain) \in Nat
  BY ChainFacts
<1>2. Len(d) \in Nat /\ Len(d) <= MaxLen
  BY ChainsAreSequences, MaxLenNat DEF Heights
<1>3. ChainHeight \in 1 .. Len(d) /\ ChainHeight \in 0 .. Len(d)
      /\ ChainHeight \in Heights \ {0} /\ ChainHeight \in Nat
  BY <1>1, <1>2, MaxLenNat DEF Heights
<1>4. \A x \in Heights : x >= ChainHeight => cp[x] = None
  <2>1. \A x \in Heights : x >= ChainHeight => x > Len(chain)
    BY <1>1, MaxLenNat DEF Heights
  <2> QED
    BY <2>1 DEF IInv, NoneAhead
<1>5. BlockAt(d, ChainHeight) \in Chains /\ Len(BlockAt(d, ChainHeight)) = ChainHeight
  BY <1>3, Ancestor
<1>6. cp \in Table /\ TableOK(cp) /\ cull \in Nat
  BY ChainFacts
<1>7. CullAfter(cp, cull, ChainHeight) \in Nat
  BY <1>3, <1>6, CullNat, Zenon
<1> QED
  BY <1>3, <1>4, <1>5, <1>6, <1>7, TableAfterBlock

(* A block of the alternative chain is connected.                          *)
LEMMA ConnectNextStep ==
    ASSUME IInv, ConnectNext
    PROVE  IInv'
<1> DEFINE h == ChainHeight
           c == work.brought[h]
           t == TableAfter(cp, cull, h, c)
           d == work.path
           f == work.fork
<1>1. work.phase = "connect" /\ work # Idle
  BY DEF ConnectNext, Idle
<1>2. /\ SwitchOK /\ work \in Switch /\ f \in Nat \ {0} /\ f - 1 \in Nat
      /\ d \in Chains /\ Len(d) \in Nat /\ Len(d) \in Heights
      /\ work.old \in Chains /\ Len(work.old) \in Nat /\ work.brought \in Table
  BY <1>1, SwitchFacts
<1>3. /\ Len(chain) < Len(d) /\ chain = BlockAt(d, Len(chain)) /\ f - 1 <= Len(chain)
      /\ BringsOK(work.brought) /\ f - 1 <= Len(work.old)
      /\ BlockAt(d, f - 1) = BlockAt(work.old, f - 1)
      /\ \A b \in DOMAIN alt : ~Below(b, work.old)
      /\ f > immutable
  BY <1>1, <1>2 DEF SwitchOK
<1>4. h = Len(chain) + 1 /\ Len(chain) \in Nat /\ h \in Heights
  BY <1>2, <1>3, ChainFacts, MaxLenNat DEF Heights
<1>5. c \in Checkpoint \cup {None} /\ (c # None => c.sigs \in Signatures /\ h % Interval = 0)
  BY <1>2, <1>3, <1>4 DEF BringsOK, Table
<1>6. /\ t \in Table /\ TableOK(t)
      /\ \A x \in Heights : x > h => t[x] = None
      /\ \A x \in Heights : x < h => t[x] \in {cp[x], None}
      /\ CullAfter(cp, cull, h) \in Nat
      /\ BlockAt(d, h) \in Chains /\ Len(BlockAt(d, h)) = h
      /\ h \in 1 .. Len(d)
  BY <1>1, <1>2, <1>3, <1>5, NextBlockFacts, Zenon
<1>7. /\ chain' = BlockAt(d, h) /\ cp' = t /\ cull' = CullAfter(cp, cull, h)
      /\ UNCHANGED <<immutable, invalid, voted>>
  BY Zenon DEF ConnectNext, NextOf
<1> HIDE DEF h, c, t, d, f
<1>range. /\ Len(chain) \in Nat /\ h = Len(chain) + 1 /\ h \in 1 .. Len(d)
         /\ f \in Nat \ {0} /\ Len(d) \in Nat /\ f - 1 <= Len(chain)
  BY <1>2, <1>3, <1>4, <1>6, Zenon
<1>8. TableOK(cp)' /\ NoneAhead'
  BY <1>6, <1>7 DEF TableOK, NoneAhead
<1>9. CASE h = Len(d)
  <2> DEFINE gone == {BlockAt(d, k) : k \in f .. Len(d)}
  <2>1. work' = Idle /\ alt' = [a \in DOMAIN alt \ gone |-> alt[a]]
    BY <1>9 DEF ConnectNext, Without, h, d, f
  <2>2. chain' = d
    BY <1>2, <1>7, <1>9, AncestorSelf
  <2>3. TypeOK'
    <3>1. alt' \in [DOMAIN alt' -> Checkpoint \cup {None}] /\ DOMAIN alt' \subseteq Blocks
      BY <2>1 DEF IInv, TypeOK
    <3> QED
      BY <3>1, <2>1, <1>2, <1>6, <1>7 DEF IInv, TypeOK
  <2>4. ASSUME NEW a \in DOMAIN alt', Below(a, d) PROVE FALSE
    <3>1. a \in DOMAIN alt /\ a \notin gone
      BY <2>1, <2>4
    <3>2. a \in Chains /\ Len(a) \in Nat
      BY <3>1, BlockFacts DEF IInv, TypeOK
    <3>3. a = BlockAt(d, Len(a)) /\ Len(a) <= Len(d)
      BY <2>4 DEF Below
    <3>4. ~(Len(a) \in f .. Len(d))
      BY <3>1, <3>3
    <3>5. Len(a) \in 0 .. f - 1 /\ f - 1 \in 0 .. Len(d) /\ f - 1 \in 0 .. Len(work.old)
      BY <3>2, <3>3, <3>4, <1>2, <1>3, <1>4
    <3>6. BlockAt(BlockAt(d, f - 1), Len(a)) = BlockAt(d, Len(a))
      BY <3>5, <1>2, AncestorOfAncestor
    <3>7. Below(a, BlockAt(work.old, f - 1))
      <4>1. Len(BlockAt(work.old, f - 1)) = f - 1
        BY <3>5, <1>2, Ancestor, Zenon
      <4>2. Len(a) <= f - 1
        BY <3>5
      <4> QED
        BY <4>1, <4>2, <3>3, <3>6, <1>3 DEF Below
    <3>8. Below(a, work.old)
      BY <3>2, <3>5, <3>7, <1>2, BelowAncestor
    <3> QED
      BY <3>1, <3>8, <1>3
  <2>5. AlternativesOffMain'
    BY <2>2, <2>4 DEF AlternativesOffMain, OnMain, Below
  <2>6. \A a \in DOMAIN alt' : alt'[a] # None => alt'[a].sigs \in Signatures /\ Len(a) % Interval = 0
    BY <2>1 DEF IInv
  <2> QED
    BY <2>1, <2>3, <2>5, <2>6, <1>8 DEF IInv
<1>10. CASE h # Len(d)
  <2>1. work' = work /\ alt' = alt
    BY <1>10 DEF ConnectNext, h, d
  <2>2. TypeOK'
    BY <2>1, <1>6, <1>7 DEF IInv, TypeOK
  <2>3. SwitchOK'
    <3>1. h < Len(d) /\ f - 1 <= h
      BY <1>range, <1>10
    <3>2. \A x \in 0 .. f - 1 : x \in Heights /\ x < h
      BY <1>range, <1>4, MaxLenNat DEF Heights
    <3>3. \A x \in 0 .. f - 1 : t[x] # None => work.oldcp[x] # None
      BY <3>2, <1>2, <1>6 DEF SwitchOK, f
    <3> QED
      BY <1>1, <1>2, <1>6, <1>7, <2>1, <3>1, <3>3, Zenon DEF SwitchOK, d, f
  <2> QED
    BY <1>1, <1>8, <2>1, <2>2, <2>3 DEF IInv, AlternativesOffMain
<1> QED
  BY <1>9, <1>10

=============================================================================
