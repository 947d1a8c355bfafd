--------------------------- MODULE MCCommitOrder ---------------------------
(* Model-checking instance of CommitOrder: the DAG is fixed up to round 4,   *)
(* and grows by round 5 while two nodes commit and restart.                  *)
EXTENDS CommitOrder, TLC

CONSTANTS a1, a2, a3, a4, d

V(a, r) == [author |-> a, round |-> r, digest |-> IF r = 0 THEN Genesis ELSE d]

\* The schedule changes with what was committed before.
MCLeaderOf(p, r) == IF r = 2 THEN a1 ELSE IF p = <<>> THEN a2 ELSE a3

MCBodyOf(p, l, h) == DOMAIN h \ UNION {p[i].body : i \in DOMAIN p}

RoundCerts(r) == {V(a, r) : a \in Authority}

\* The certificates of namers name the leader of round 2; the leaders of round
\* 4 leave out omitted; everybody else names all of the round before.
Parents(namers, omitted, c) ==
    {p \in RoundCerts(c.round - 1) :
        /\ c.round > 0
        /\ c.round = 3 /\ p.author = a1 => c.author \in namers
        /\ c.round = 4 /\ c.author \in {a2, a3} => p.author # omitted}

MCInit ==
    /\ certs = UNION {RoundCerts(r) : r \in 0..4}
    /\ \E namers \in {{}, {a4}, {a1, a4}, {a1, a2, a3}}, omitted \in Authority :
          par = [c \in certs |-> Parents(namers, omitted, c)]
    /\ LET below[r \in 0..4] ==
             LET b == below[r - 1] IN
             IF r = 0 THEN [c \in RoundCerts(0) |-> {}]
             ELSE b @@ [c \in RoundCerts(r) |-> par[c] \cup UNION {b[p] : p \in par[c]}]
       IN anc = below[4]
    /\ committed = [n \in Node |-> <<>>]

MCSpec == MCInit /\ [][OrderNext]_vars

\* The new certificates name everybody or leave out one leader; those that leave
\* out the two others have too few parents.
Small ==
    \A c \in certs : c.round = 5 =>
        \E out \in {{}, {V(a2, 4)}, {V(a3, 4)}, {V(a1, 4), V(a4, 4)}} : par[c] = RoundCerts(4) \ out
=============================================================================
