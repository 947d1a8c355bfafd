------------------------------ MODULE Committee ------------------------------
(***************************************************************************)
(* The committee of an epoch (infrastructure/types/src/committee.rs).      *)
(* Every authority has voting power 1, so the voting power of a set of     *)
(* authorities is its size.                                                *)
(***************************************************************************)
EXTENDS Integers, FiniteSets

CONSTANT Authority    \* the authorities of the epoch

ASSUME AuthorityAssumption == IsFiniteSet(Authority) /\ Authority # {}

N == Cardinality(Authority)

\* calculate_quorum_threshold, 2f+1 for N = 3f+1.
QuorumThreshold == (2 * N) \div 3 + 1

\* calculate_validity_threshold, f+1: the quotient is rounded up.
ValidityThreshold == (N + 2) \div 3

ReachedQuorum(S) == Cardinality(S) >= QuorumThreshold
ReachedValidity(S) == Cardinality(S) >= ValidityThreshold

\* The number of faulty authorities the thresholds are chosen for.
MaxFaulty == N - QuorumThreshold
=============================================================================
