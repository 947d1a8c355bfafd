---------------------------- MODULE Certification ----------------------------
(***************************************************************************)
(* How headers become certificates in one epoch, across all authorities.   *)
(* An author proposes a header naming certificates of the round before     *)
(* (proposer), collects signed votes (certifier, VotesAggregator) and      *)
(* publishes the certificate; every other authority votes as its           *)
(* VoteLedger allows, after checking the parents (vote_inner).             *)
(*                                                                         *)
(* At most MaxFaulty authorities are faulty: they propose several headers  *)
(* per round, with any parents, and their signature is available for any   *)
(* header at any time.  A correct author makes one header per round.       *)
(* The network may delay or lose any message: an action that needs one     *)
(* simply happens later or never.                                          *)
(***************************************************************************)
EXTENDS Committee

CONSTANTS Faulty,    \* the faulty authorities
          Round,     \* rounds of headers
          Digest,    \* digests of headers
          Genesis    \* digest of the certificates of round 0

ASSUME RoundAssumption == Round \subseteq Nat \ {0}
ASSUME FaultyAssumption == Faulty \subseteq Authority /\ Cardinality(Faulty) <= MaxFaulty

VARIABLES headers,   \* the headers that were proposed, genesis included
          parents,   \* the parents each of them names
          votes,     \* votes signed by correct authorities: [voter, header]
          certs,     \* the certificates that exist
          anc        \* the causal history of each certificate (auxiliary)

vars == <<headers, parents, votes, certs, anc>>

Honest == Authority \ Faulty
Header == [author : Authority, round : Round, digest : Digest]
GenesisCerts == {[author |-> a, round |-> 0, digest |-> Genesis] : a \in Authority}

Init ==
    /\ headers = GenesisCerts
    /\ parents = [h \in GenesisCerts |-> {}]
    /\ votes = {}
    /\ certs = GenesisCerts
    /\ anc = [c \in GenesisCerts |-> {}]

\* The parent checks of vote_inner: certified, of the previous round, of
\* different authors, and a quorum of voting power.
ValidParents(ps, r) ==
    /\ ps \subseteq certs
    /\ \A p, q \in ps : p.round + 1 = r /\ (p.author = q.author => p = q)
    /\ ReachedQuorum({p.author : p \in ps})

Create(h, ps) ==
    /\ headers' = headers \cup {h}
    /\ parents' = [x \in headers \cup {h} |-> IF x = h THEN ps ELSE parents[x]]

\* A correct author proposes its header of the round, once it has a quorum of
\* parents, and signs its own vote for it.
ProposeHeader(h, ps) ==
    /\ h.author \in Honest
    /\ \A g \in headers : ~(g.author = h.author /\ g.round = h.round)
    /\ ValidParents(ps, h.round)
    /\ Create(h, ps)
    /\ votes' = votes \cup {[voter |-> h.author, header |-> h]}
    /\ UNCHANGED <<certs, anc>>

\* A faulty author makes any header.
ProposeFaulty(h, ps) ==
    /\ h.author \in Faulty
    /\ h \notin headers
    /\ Create(h, ps)
    /\ UNCHANGED <<votes, certs, anc>>

\* Mutant: the stored vote of the author is not consulted.
VoteForAny(v, h) ==
    /\ v # h.author /\ h.round >= 1
    /\ ValidParents(parents[h], h.round)
    /\ votes' = votes \cup {[voter |-> v, header |-> h]}
    /\ UNCHANGED <<headers, parents, certs, anc>>

\* Mutant: the parents of the header are not checked.
VoteForUnchecked(v, h) ==
    /\ v # h.author /\ h.round >= 1
    /\ \A w \in votes : w.voter = v /\ w.header.author = h.author =>
            w.header.round < h.round \/ w.header = h
    /\ votes' = votes \cup {[voter |-> v, header |-> h]}
    /\ UNCHANGED <<headers, parents, certs, anc>>

\* A correct authority votes for the header of another: the parents are valid
\* and its ledger allows it (VoteHandler).
VoteFor(v, h) ==
    /\ v # h.author /\ h.round >= 1
    /\ ValidParents(parents[h], h.round)
    /\ \A w \in votes : w.voter = v /\ w.header.author = h.author =>
            w.header.round < h.round \/ w.header = h
    /\ votes' = votes \cup {[voter |-> v, header |-> h]}
    /\ UNCHANGED <<headers, parents, certs, anc>>

Voters(h) == {v \in Honest : [voter |-> v, header |-> h] \in votes} \cup Faulty

\* VotesAggregator::append: the votes for the header reach a quorum.
Certify(h) ==
    /\ h \notin certs
    /\ ReachedQuorum(Voters(h))
    /\ certs' = certs \cup {h}
    /\ anc' = [x \in certs \cup {h} |->
                 IF x = h THEN parents[h] \cup UNION {anc[p] : p \in parents[h]} ELSE anc[x]]
    /\ UNCHANGED <<headers, parents, votes>>

Next ==
    \/ \E h \in Header :
         \/ \E ps \in SUBSET {c \in certs : c.round + 1 = h.round} : ProposeHeader(h, ps)
         \/ \E ps \in SUBSET headers : ProposeFaulty(h, ps)
    \/ \E h \in headers : Certify(h) \/ \E v \in Honest : VoteFor(v, h)

Spec == Init /\ [][Next]_vars

-----------------------------------------------------------------------------
TypeOK ==
    /\ headers \subseteq Header \cup GenesisCerts
    /\ parents \in [headers -> SUBSET headers]
    /\ votes \subseteq [voter : Honest, header : headers]
    /\ certs \subseteq headers
    /\ anc \in [certs -> SUBSET certs]

\* No two certificates of one author and round, whatever the faulty
\* authorities sign: every path that inserts a certificate into the DAG relies
\* on it (try_insert_in_dag reports a second one as CertificateEquivocation).
NoEquivocation ==
    \A c, d \in certs : c.author = d.author /\ c.round = d.round => c = d

\* Certificates only ever extend a well formed DAG.
D == INSTANCE Dag WITH par <- [c \in certs |-> parents[c]]
DagSpec == D!Spec

\* The votes of every correct authority for the headers of others are those of
\* a VoteLedger.
SignedBy(v) == {w.header : w \in {x \in votes : x.voter = v /\ x.header.author # v}}
Ledger(v) == INSTANCE VoteLedger WITH Author <- Authority, issued <- SignedBy(v)
LedgersSpec ==
    /\ \A v \in Honest : Ledger(v)!Init
    /\ [][\A v \in Honest : Ledger(v)!Next \/ UNCHANGED SignedBy(v)]_vars
=============================================================================
