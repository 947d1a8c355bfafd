--------------------------- MODULE MCCertManager ---------------------------
(* Model-checking instance of CertManager.  Two authorities of a committee   *)
(* of which the others are taken to be stored: every certificate names the   *)
(* one of a1 in the round before; a2 is slow, and only its own certificates  *)
(* name the ones it made, so that commits and garbage collection can pass it *)
(* by.                                                                       *)
EXTENDS CertManager, TLC

CONSTANTS a1, a2

C(a, r) == [author |-> a, round |-> r]
MCCert == {C(a1, r) : r \in 1..5} \cup {C(a2, r) : r \in 1..3}
MCPar == [c \in MCCert |-> IF c.round = 1 THEN {} ELSE {C(a1, c.round - 1), C(c.author, c.round - 1)}]
=============================================================================
