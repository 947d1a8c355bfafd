---- MODULE MCOwnHeader ----
EXTENDS OwnHeader, TLC
CONSTANTS d1, q1, q2
MCDigest == {d1}
MCSigners == {{q1}, {q2}}
Symmetry == Permutations({q1, q2})
\* After a restart or a crash the model looks at fewer rounds.
Bound == stops > 0 => store.top <= 2 /\ round <= 3 /\ Cardinality(known) <= 2
====
