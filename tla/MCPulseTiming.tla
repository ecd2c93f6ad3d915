--------------------------- MODULE MCPulseTiming ---------------------------
(* Small instances of PulseTiming: two nodes, in units of ten or twenty seconds. *)
EXTENDS PulseTiming, TLC

CONSTANTS n0, n1

\* The clock of n1 is ahead.
MCSkew == (n0 :> 0) @@ (n1 :> 1)

\* The nodes take turns at producing; n0 is not in the quorum of the last round but
\* one.
MCProducer == [r \in Rounds |-> IF r % 2 = 0 THEN n0 ELSE n1]
MCQuorum == [r \in Rounds |-> IF r = 1 THEN {n1} ELSE {n0, n1}]
=============================================================================
