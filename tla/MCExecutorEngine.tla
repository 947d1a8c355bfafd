--------------------------- MODULE MCExecutorEngine ---------------------------
(* Two authorities; the first gives batches 1 to 4 of epoch 0, with          *)
(* transactions in their order, the second one batch whose transaction       *)
(* competes with the second of the first.                                    *)
EXTENDS ExecutorEngine

B(a, e, s, n) == [auth |-> a, epoch |-> e, seq |-> s, nonce |-> n]

MCBatch == {B(1, 0, 1, 0), B(1, 0, 2, 1), B(1, 0, 3, 2), B(1, 0, 4, 3),
            B(2, 0, 1, 1), B(1, 1, 1, 2)}

MCPayload ==
    {<<>>, <<B(1, 0, 1, 0)>>, <<B(1, 0, 2, 1)>>, <<B(1, 0, 3, 2)>>, <<B(1, 0, 4, 3)>>,
     <<B(1, 0, 3, 2), B(1, 0, 2, 1)>>, <<B(2, 0, 1, 1), B(1, 0, 3, 2)>>, <<B(1, 1, 1, 2)>>}

MCForks == {[v2 |-> 0, empty |-> 0, norm |-> 0], [v2 |-> 0, empty |-> 3, norm |-> 4],
            [v2 |-> 9, empty |-> 9, norm |-> 9]}
=============================================================================
