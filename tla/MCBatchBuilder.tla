--------------------------- MODULE MCBatchBuilder ---------------------------
(* BatchBuilder with two transactions of one sender and a committee of four *)
(* with equal voting power.                                                 *)
EXTENDS BatchBuilder

CONSTANTS t1, t2, p1, p2, p3

MCTx == {t1, t2}
MCBefore == [t \in MCTx |-> IF t = t2 THEN {t1} ELSE {}]
MCPeer == {p1, p2, p3}
MCStake == [p \in MCPeer |-> 1]
=============================================================================
