--------------------------- MODULE MCCertification ---------------------------
(* Model-checking instance of Certification: four authorities, one faulty.  *)
EXTENDS Certification, TLC

CONSTANTS Proposer   \* the authorities that propose headers in this instance

Symmetry == Permutations(Honest \cap Proposer) \cup Permutations(Honest \ Proposer)
                \cup Permutations(Digest)

\* A header of the first round names all genesis certificates, or none when
\* its faulty author leaves the parents out.
Small ==
    \A h \in headers : /\ h.author \in Proposer \/ h.round = 0
                       /\ h.round = 1 => parents[h] \in {{}, GenesisCerts}
=============================================================================
