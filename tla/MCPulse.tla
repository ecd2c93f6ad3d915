------------------------------ MODULE MCPulse ------------------------------
(* Small instances of Pulse. *)
EXTENDS Pulse, TLC

CONSTANTS n0, n1, n2, n3, tipA, tipX, tipB, rv1, rv2, blk1, blk2

\* Two blocks of height 1, one of which the ceremonies start from, and one of
\* height 2.
MCTips == {tipA, tipX, tipB}
MCHeightOf == (tipA :> 1) @@ (tipX :> 1) @@ (tipB :> 2)

MCProducer == [t \in Tips |-> [r \in Rounds |-> n0]]

\* Three validators of a single round.
MC3Validators == [t \in Tips |-> [r \in Rounds |-> (0 :> n1 @@ 1 :> n2 @@ 2 :> n3)]]

\* Two validators, which change places in the second round.
MC2Validators ==
    [t \in Tips |-> [r \in Rounds |->
        IF r = 0 THEN (0 :> n1 @@ 1 :> n2) ELSE (0 :> n2 @@ 1 :> n1)]]

\* A node that starts at tipB takes no part in the ceremony that follows tipA.
MCStart == [n \in Nodes |-> tipA]
MCStartIdleProducer == [n \in Nodes |-> IF n = n0 THEN tipB ELSE tipA]
MCStartIdleFirst == [n \in Nodes |-> IF n = n1 THEN tipB ELSE tipA]

\* The two random values, and the two contents, are alike.
MCSymmetry == Permutations(RandomValues) \cup Permutations(Contents)

\* main runs through these states without taking a message.  Their steps read and
\* write what only their node sees, or add to net, so that they commute with the
\* steps of other nodes and may be taken first.
Passing(n) == context[n].state \in {prepare_for_round, send_handshake_bitsets, send_block_template}

PassingFirst ==
    \A k \in Nodes : Passing(k) =>
        \A n \in Nodes \ {k} : context'[n] = context[n] /\ chain'[n] = chain[n]

\* Bound: a node restarts once the locked in validators may count on what it has
\* sent, and no more when a node has sent two messages of one type.
MayRestart(n) ==
    /\ \E m \in net : m.key = n /\ m.type >= block_template
    /\ \A m, o \in net : m.key = o.key /\ m.type = o.type => m = o

FewRestarts ==
    \A n \in Nodes :
        (context[n] # InitContext /\ context'[n] = InitContext) => MayRestart(n)

\* Bound: the messages of the first two stages arrive at once, in some order.
Pending(n) ==
    LET c == context[n]
    IN  {m \in net : /\ m.type <= handshake_bitset
                     /\ c.state \in wait_for_round .. StageOf(m.type)
                     /\ IsValidator(n, c) \/ (IsProducer(n, c) /\ m.type = handshake_bitset)
                     /\ SignatureCheck(c, m)
                     /\ Handle(c, m) # c}

HandshakesFirst ==
    LET waiting == {n \in Nodes : Pending(n) # {}}
        n == CHOOSE n \in waiting : TRUE
        m == CHOOSE m \in Pending(n) : TRUE
    IN  waiting # {} /\ (\A k \in Nodes : ~Passing(k)) => context' = [context EXCEPT ![n] = Handle(@, m)]
=============================================================================
