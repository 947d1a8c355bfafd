--------------------------- MODULE MCColdArchive ---------------------------
(* ColdArchive over a short chain: an epoch of two blocks, a batch that is    *)
(* committed in two epochs, a block without batches.                          *)
EXTENDS ColdArchive

MCChain ==
  << [epoch |-> 0, digests |-> <<"a">>],
     [epoch |-> 0, digests |-> <<"b", "a">>],
     [epoch |-> 1, digests |-> <<"a", "c">>],
     [epoch |-> 2, digests |-> <<>>] >>

=============================================================================
