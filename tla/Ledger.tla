------------------------------- MODULE Ledger -------------------------------
(***************************************************************************)
(* What a daemon's checkpoints promise about its main chain: a locked      *)
(* height, below which blocks are not replaced.  This is the abstract      *)
(* specification that Checkpoints.tla implements.  It also says exactly    *)
(* when the promise is given up: an operator who pops blocks, and a        *)
(* restart, which may lower the locked height.  Where neither may happen   *)
(* a block that is once locked is on the chain for good.                   *)
(***************************************************************************)
EXTENDS Integers, Sequences

CONSTANTS Label,     \* what tells a block from its siblings
          CanCut,    \* whether an operator may drop locked blocks
          CanForget  \* whether the daemon may restart

VARIABLES chain,     \* the main chain above the genesis block
          locked,    \* no block at or below this height may be replaced
          switching  \* whether a chain switch is in progress

vars == <<chain, locked, switching>>

(* d has the blocks of c up to height n, as far as c reaches.              *)
Keeps(c, d, n) ==
    \A h \in 1 .. Len(c) : h <= n => h <= Len(d) /\ d[h] = c[h]

Init ==
    /\ chain \in Seq(Label)
    /\ locked = 0
    /\ switching = FALSE

(* The chain grows, or is replaced above the locked height in the steps of *)
(* a chain switch, or a new checkpoint locks more of it.                   *)
Adopt ==
    /\ chain' \in Seq(Label)
    /\ Keeps(chain, chain', locked)
    /\ locked' \in Nat
    /\ locked' >= locked
    /\ switching' \in BOOLEAN

(* The operator drops blocks from the top, locked ones as well.            *)
Cut ==
    /\ CanCut
    /\ ~switching /\ UNCHANGED switching
    /\ chain' \in Seq(Label)
    /\ Len(chain') < Len(chain)
    /\ Keeps(chain', chain, Len(chain'))
    /\ locked' \in 0 .. locked

(* A restart keeps the chain and may forget how much of it was locked.     *)
Forget ==
    /\ CanForget
    /\ ~switching /\ UNCHANGED switching
    /\ chain' = chain
    /\ locked' \in 0 .. locked

Next == Adopt \/ Cut \/ Forget

Spec == Init /\ [][Next]_vars
=============================================================================
