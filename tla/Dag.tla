--------------------------------- MODULE Dag ---------------------------------
(***************************************************************************)
(* The certified DAG of one epoch, as every other part of consensus relies *)
(* on it: one certificate per author and round, each naming as parents a   *)
(* quorum of certificates of the round before.  Certification implements   *)
(* this specification from votes; Bullshark commits what it holds.         *)
(***************************************************************************)
EXTENDS Committee

CONSTANTS Round,     \* rounds of proposed certificates
          Digest,    \* digests of headers
          Genesis    \* the digest of the certificates of round 0

ASSUME RoundAssumption == Round \subseteq Nat \ {0}

VARIABLES certs,     \* the certificates that exist
          par,       \* the parents of each certificate
          anc        \* the causal history of each certificate (auxiliary)

dagVars == <<certs, par, anc>>

Vertex == [author : Authority, round : Nat, digest : Digest \cup {Genesis}]

GenesisCert(a) == [author |-> a, round |-> 0, digest |-> Genesis]
GenesisCerts == {GenesisCert(a) : a \in Authority}

Authors(S) == {c.author : c \in S}

Init ==
    /\ certs = GenesisCerts
    /\ par = [c \in GenesisCerts |-> {}]
    /\ anc = [c \in GenesisCerts |-> {}]

\* Mutant: the parents need only the validity threshold.
ValidParentsValidity(ps, r) ==
    /\ ps \subseteq certs
    /\ \A p, q \in ps : p.round + 1 = r /\ (p.author = q.author => p = q)
    /\ ReachedValidity(Authors(ps))

\* ps can be the parents of a header of round r: certificates of the round
\* before, of different authors, with the voting power of a quorum.
ValidParents(ps, r) ==
    /\ ps \subseteq certs
    /\ \A p, q \in ps : p.round + 1 = r /\ (p.author = q.author => p = q)
    /\ ReachedQuorum(Authors(ps))

\* A new certificate c with parents ps.
AddCertificate(c, ps) ==
    /\ \A d \in certs : ~(d.author = c.author /\ d.round = c.round)
    /\ ValidParents(ps, c.round)
    /\ certs' = certs \cup {c}
    /\ par' = [x \in certs \cup {c} |-> IF x = c THEN ps ELSE par[x]]
    /\ anc' = [x \in certs \cup {c} |->
                  IF x = c THEN ps \cup UNION {anc[p] : p \in ps} ELSE anc[x]]

Next ==
    \E a \in Authority, r \in Round, d \in Digest :
        \E ps \in SUBSET {p \in certs : p.round + 1 = r} :
            AddCertificate([author |-> a, round |-> r, digest |-> d], ps)

Spec == Init /\ [][Next]_dagVars

-----------------------------------------------------------------------------
TypeOK ==
    /\ certs \subseteq Vertex
    /\ par \in [certs -> SUBSET certs]
    /\ anc \in [certs -> SUBSET certs]

\* No author has two certificates in a round.
OnePerRound == \A c, d \in certs : c.author = d.author /\ c.round = d.round => c = d

\* The certificates of the next round that name l as a parent: they are what
\* commit_leader counts as support of a leader.
Supporters(l) == {s \in certs : s.round = l.round + 1 /\ l \in par[s]}

\* A leader with the support commit_leader asks for (f+1) is in the causal
\* history of every certificate two or more rounds later, whenever that
\* certificate was created: every later leader is linked to it, so order_leaders
\* finds it and no node can skip it.
SupportedIsLinked ==
    \A l \in certs : ReachedValidity(Authors(Supporters(l))) =>
        \A c \in certs : c.round >= l.round + 2 => l \in anc[c]
=============================================================================
