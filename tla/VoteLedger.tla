------------------------------ MODULE VoteLedger ------------------------------
(***************************************************************************)
(* What a primary promises about the votes it signs for its peers' headers *)
(* in one epoch: for every author it signs at most one header per round,   *)
(* and never goes back to a round below one it has already signed for.     *)
(* VoteHandler (the request handler with its cache, its concurrent tasks   *)
(* and its vote store) implements this specification.                      *)
(***************************************************************************)
EXTENDS Naturals

CONSTANTS Author,   \* committee members whose headers this node may vote for
          Round,    \* the rounds a header can have
          Digest    \* the digests a header can have

VARIABLE issued     \* votes signed: a set of [author, round, digest]

Ballot == [author : Author, round : Round, digest : Digest]

Init == issued = {}

\* A vote may be signed for b when it agrees with every earlier vote.
MaySign(b) ==
    \A v \in issued : v.author = b.author =>
        \/ v.round < b.round
        \/ v.round = b.round /\ v.digest = b.digest

Sign(b) ==
    /\ MaySign(b)
    /\ issued' = issued \cup {b}

Next == \E b \in Ballot : Sign(b)

Spec == Init /\ [][Next]_issued
=============================================================================
