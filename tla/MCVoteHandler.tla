---------------------------- MODULE MCVoteHandler ----------------------------
(* Model-checking instance of VoteHandler.                                  *)
EXTENDS VoteHandler, TLC

CONSTANTS MaxQueue   \* writes that may wait for the background writer

Symmetry == Permutations(Task) \cup Permutations(Digest)

QueueBound == Len(wqueue) <= MaxQueue
=============================================================================
