------------------------- MODULE CertificationProofs -------------------------
(***************************************************************************)
(* For every committee with at most MaxFaulty faulty authorities: no two   *)
(* certificates of one author and round exist, and the certificates form   *)
(* the DAG that Dag specifies.                                             *)
(*                                                                         *)
(* Two certificates of one author and round have quorums of voters that    *)
(* share a correct authority (QuorumsMeetHonest), and a correct authority  *)
(* signs one header per author and round: of others because its ledger     *)
(* says so, of its own because it makes only one (OwnOnce).                *)
(***************************************************************************)
EXTENDS Certification, TLAPS, FiniteSetTheorems

\* The arithmetic of calculate_quorum_threshold and calculate_validity_threshold:
\* two quorums overlap in more than MaxFaulty authorities.
LEMMA Thresholds ==
    /\ N \in Nat /\ N > 0
    /\ QuorumThreshold \in Nat /\ QuorumThreshold >= 1 /\ QuorumThreshold <= N
    /\ MaxFaulty \in Nat /\ 2 * QuorumThreshold > N + MaxFaulty
    /\ ValidityThreshold = MaxFaulty + 1
<1>1. N \in Nat /\ N > 0
  BY AuthorityAssumption, FS_CardinalityType, FS_EmptySet DEF N
<1> QED BY <1>1 DEF QuorumThreshold, ValidityThreshold, MaxFaulty

\* Two quorums have a member in common outside any set of at most MaxFaulty.
LEMMA QuorumsMeetHonest ==
    ASSUME NEW Q1, Q1 \subseteq Authority, ReachedQuorum(Q1),
           NEW Q2, Q2 \subseteq Authority, ReachedQuorum(Q2),
           NEW B, B \subseteq Authority, Cardinality(B) <= MaxFaulty
    PROVE  \E a \in Q1 \cap Q2 : a \notin B
<1>1. /\ IsFiniteSet(Q1) /\ IsFiniteSet(Q2) /\ IsFiniteSet(B)
      /\ IsFiniteSet(Q1 \cup Q2) /\ IsFiniteSet(Q1 \cap Q2)
      /\ Cardinality(Q1 \cup Q2) <= N
  BY AuthorityAssumption, FS_Subset, FS_Intersection DEF N
<1>2. /\ Cardinality(Q1) \in Nat /\ Cardinality(Q2) \in Nat /\ Cardinality(B) \in Nat
      /\ Cardinality(Q1 \cap Q2) \in Nat /\ Cardinality(Q1 \cup Q2) \in Nat
  BY <1>1, FS_CardinalityType
<1>3. Cardinality(Q1 \cup Q2) = Cardinality(Q1) + Cardinality(Q2) - Cardinality(Q1 \cap Q2)
  BY <1>1, FS_Union
<1>4. Cardinality(Q1 \cap Q2) > Cardinality(B)
  BY <1>1, <1>2, <1>3, Thresholds DEF ReachedQuorum
<1>5. ~(Q1 \cap Q2 \subseteq B)
  BY <1>1, <1>2, <1>4, FS_Subset
<1> QED BY <1>5

-----------------------------------------------------------------------------

VotesOnce ==
    \A u, w \in votes : u.voter = w.voter /\ u.header.author = w.header.author
                        /\ u.header.round = w.header.round => u.header = w.header

OwnOnce ==
    \A g, h \in headers : g.author \in Honest /\ g.author = h.author /\ g.round = h.round
                          => g = h

\* A vote of a correct authority is for a header with valid parents.
VotesValid ==
    \A w \in votes : w.header.round >= 1 /\ ValidParents(parents[w.header], w.header.round)

CertsVoted ==
    \A c \in certs : c.round >= 1 => ReachedQuorum(Voters(c))

GenesisOnly == \A h \in headers : h.round = 0 => h \in certs /\ h \in GenesisCerts /\ parents[h] = {}

CInv == TypeOK /\ VotesOnce /\ OwnOnce /\ VotesValid /\ CertsVoted /\ GenesisOnly

-----------------------------------------------------------------------------
\* Rounds of headers are positive.
LEMMA RoundPositive == \A r \in Round : r \in Nat /\ r >= 1
BY RoundAssumption

\* Rounds are natural numbers, and only genesis has round 0.
LEMMA HeaderRounds ==
    ASSUME TypeOK
    PROVE  \A h \in headers : h.round \in Nat /\ h.author \in Authority
                              /\ (h.round >= 1 <=> h \in Header) /\ (h.round = 0 <=> h \in GenesisCerts)
<1>1. \A h \in Header : h.round \in Nat /\ h.round >= 1 /\ h.author \in Authority
  BY RoundPositive DEF Header
<1>2. \A h \in GenesisCerts : h.round = 0 /\ h.author \in Authority
  BY DEF GenesisCerts
<1> QED BY <1>1, <1>2 DEF TypeOK

\* The voters of a header are authorities.
LEMMA VotersType == \A h : Voters(h) \subseteq Authority
BY FaultyAssumption DEF Voters, Honest

\* Valid parents stay valid: certificates are never removed.
LEMMA ParentsStable ==
    ASSUME NEW ps, NEW r, ValidParents(ps, r), certs \subseteq certs'
    PROVE  ValidParents(ps, r)'
BY DEF ValidParents, ReachedQuorum

\* A new header leaves the parents of the others alone.
LEMMA CreateFacts ==
    ASSUME TypeOK, NEW h, h \notin headers, NEW ps, ps \subseteq headers, Create(h, ps)
    PROVE  /\ headers' = headers \cup {h} /\ parents'[h] = ps
           /\ \A x \in headers : parents'[x] = parents[x]
           /\ parents' \in [headers' -> SUBSET headers']
BY DEF Create, TypeOK

\* The two quorums of two certificates share a correct voter.
LEMMA EquivocationLemma ==
    ASSUME CInv, NEW g \in headers, ReachedQuorum(Voters(g)),
           NEW h \in headers, ReachedQuorum(Voters(h)),
           g.author = h.author, g.round = h.round
    PROVE  g = h
<1>1. PICK v \in Voters(g) \cap Voters(h) : v \notin Faulty
  BY VotersType, FaultyAssumption, QuorumsMeetHonest
<1>2. [voter |-> v, header |-> g] \in votes /\ [voter |-> v, header |-> h] \in votes
  BY <1>1 DEF Voters
<1> QED BY <1>2 DEF CInv, VotesOnce

\* What the invariant says of certificates: no equivocation.
LEMMA CInvNoEquivocation ==
    ASSUME CInv
    PROVE  NoEquivocation
<1> SUFFICES ASSUME NEW c \in certs, NEW d \in certs, c.author = d.author, c.round = d.round
             PROVE  c = d
  BY DEF NoEquivocation
<1>1. c \in headers /\ d \in headers /\ c.round \in Nat
  BY HeaderRounds DEF CInv, TypeOK
<1>2. CASE c.round = 0
  <2>1. c \in GenesisCerts /\ d \in GenesisCerts
    BY ZenonT(30), <1>1, <1>2, HeaderRounds DEF CInv
  <2> QED BY <2>1 DEF GenesisCerts
<1>3. CASE c.round >= 1
  BY <1>1, <1>3, EquivocationLemma DEF CInv, CertsVoted
<1> QED BY <1>1, <1>2, <1>3

\* A header that reached a quorum of voters has a correct voter, so its
\* parents are valid.
LEMMA VotedValid ==
    ASSUME CInv, NEW h, ReachedQuorum(Voters(h))
    PROVE  h \in headers /\ h.round >= 1 /\ ValidParents(parents[h], h.round)
<1>1. PICK v \in Voters(h) \cap Voters(h) : v \notin Faulty
  BY VotersType, FaultyAssumption, QuorumsMeetHonest
<1>2. [voter |-> v, header |-> h] \in votes
  BY <1>1 DEF Voters
<1> QED BY <1>2 DEF CInv, VotesValid, TypeOK

-----------------------------------------------------------------------------
\* Initially only genesis exists.
LEMMA CInit == Init => CInv
<1> SUFFICES ASSUME Init PROVE CInv
  OBVIOUS
<1>1. TypeOK
  BY DEF Init, TypeOK
<1>2. \A h \in headers : h.round = 0
  BY DEF Init, GenesisCerts
<1>3. OwnOnce
  BY DEF Init, OwnOnce, GenesisCerts
<1> QED BY <1>1, <1>2, <1>3 DEF CInv, Init, VotesOnce, VotesValid, CertsVoted, GenesisOnly

\* The inductive step, one case per action.
LEMMA CStep ==
    ASSUME CInv, [Next]_vars
    PROVE  CInv'
<1> USE DEF CInv
<1>1. ASSUME NEW h \in Header, NEW ps \in SUBSET {c \in certs : c.round + 1 = h.round},
             ProposeHeader(h, ps)
      PROVE  CInv'
  <2> DEFINE w == [voter |-> h.author, header |-> h]
  <2>1. h \notin headers /\ ps \subseteq headers /\ h.round >= 1 /\ h.round \in Nat
    BY <1>1, RoundPositive DEF ProposeHeader, Header, TypeOK
  <2>2. /\ headers' = headers \cup {h} /\ parents'[h] = ps
        /\ \A x \in headers : parents'[x] = parents[x]
        /\ parents' \in [headers' -> SUBSET headers']
        /\ votes' = votes \cup {w} /\ certs' = certs /\ anc' = anc
    BY <1>1, <2>1, CreateFacts DEF ProposeHeader
  <2>3. h.author \in Honest /\ \A g \in headers : ~(g.author = h.author /\ g.round = h.round)
    BY <1>1 DEF ProposeHeader
  <2>4. TypeOK'
    <3>1. w \in [voter : Honest, header : headers']
      BY <2>2, <2>3
    <3>2. votes' \subseteq [voter : Honest, header : headers']
      <4> HIDE DEF w
      <4> QED BY <2>2, <3>1 DEF TypeOK
    <3> QED BY <2>1, <2>2, <3>2 DEF TypeOK
  <2>5. VotesOnce'
    <3>1. w.voter = h.author /\ w.header = h /\ \A u \in votes : u.header \in headers
      BY DEF TypeOK
    <3> HIDE DEF w
    <3>2. \A u \in votes : ~(u.header.author = h.author /\ u.header.round = h.round)
      BY <2>3, <3>1
    <3> QED BY <2>2, <3>1, <3>2 DEF VotesOnce
  <2>6. OwnOnce'
    BY <2>2, <2>3 DEF OwnOnce
  <2>7. VotesValid'
    <3>1. w.header = h /\ \A u \in votes : u.header \in headers
      BY DEF TypeOK
    <3>2. ValidParents(ps, h.round)
      BY <1>1 DEF ProposeHeader
    <3> HIDE DEF w
    <3>3. parents'[h] = ps /\ ValidParents(ps, h.round)'
      BY <2>2, <3>2 DEF ValidParents
    <3>4. ValidParents(parents[h], h.round)'
      BY <3>3 DEF ValidParents
    <3>5. \A u \in votes : ValidParents(parents[u.header], u.header.round)'
      BY <2>2, <3>1 DEF VotesValid, ValidParents
    <3> QED BY <2>1, <2>2, <3>1, <3>4, <3>5 DEF VotesValid
  <2>8. CertsVoted'
    BY <2>1, <2>2, HeaderRounds DEF CertsVoted, Voters, TypeOK, ReachedQuorum
  <2>9. GenesisOnly'
    BY <2>1, <2>2 DEF GenesisOnly
  <2> QED BY <2>4, <2>5, <2>6, <2>7, <2>8, <2>9
<1>2. ASSUME NEW h \in Header, NEW ps \in SUBSET headers, ProposeFaulty(h, ps)
      PROVE  CInv'
  <2>1. h \notin headers /\ h.round >= 1 /\ h.round \in Nat
    BY <1>2, RoundPositive DEF ProposeFaulty, Header
  <2>2. /\ headers' = headers \cup {h} /\ parents'[h] = ps
        /\ \A x \in headers : parents'[x] = parents[x]
        /\ parents' \in [headers' -> SUBSET headers']
        /\ votes' = votes /\ certs' = certs /\ anc' = anc
    BY <1>2, <2>1, CreateFacts DEF ProposeFaulty
  <2>3. TypeOK'
    BY <2>2 DEF TypeOK
  <2>4. OwnOnce'
    BY <1>2, <2>2 DEF OwnOnce, ProposeFaulty, Honest
  <2>5. VotesValid'
    BY <2>2 DEF VotesValid, ValidParents, TypeOK
  <2>6. GenesisOnly'
    BY <2>1, <2>2 DEF GenesisOnly
  <2> QED BY <2>2, <2>3, <2>4, <2>5, <2>6 DEF VotesOnce, CertsVoted, Voters
<1>3. ASSUME NEW h \in headers, NEW v \in Honest, VoteFor(v, h)
      PROVE  CInv'
  <2> DEFINE w == [voter |-> v, header |-> h]
  <2>1. /\ votes' = votes \cup {w} /\ UNCHANGED <<headers, parents, certs, anc>>
        /\ w.voter = v /\ w.header = h /\ w \in [voter : Honest, header : headers]
        /\ v # h.author /\ h.round >= 1 /\ h.round \in Nat
        /\ ValidParents(parents[h], h.round)
        /\ \A x \in votes : x.voter = v /\ x.header.author = h.author =>
                x.header.round < h.round \/ x.header = h
    BY <1>3, HeaderRounds DEF VoteFor
  <2> HIDE DEF w
  <2>2. TypeOK'
    BY <2>1 DEF TypeOK
  <2>3. VotesOnce'
    BY <2>1 DEF VotesOnce
  <2>4. VotesValid'
    <3>1. \A ps, r : ValidParents(ps, r)' <=> ValidParents(ps, r)
      BY <2>1 DEF ValidParents
    <3>2. \A x \in votes' : x \in votes \/ x.header = h
      BY <2>1
    <3>3. \A x \in votes : x.header.round >= 1
                            /\ ValidParents(parents[x.header], x.header.round)
      BY DEF VotesValid
    <3> HIDE DEF ValidParents
    <3> QED BY <2>1, <3>1, <3>2, <3>3 DEF VotesValid
  <2>5. CertsVoted'
    <3> SUFFICES ASSUME NEW c \in certs, c.round >= 1 PROVE ReachedQuorum(Voters(c)')
      BY <2>1 DEF CertsVoted, ReachedQuorum
    <3>1. Voters(c) \subseteq Voters(c)' /\ Voters(c)' \subseteq Authority
      BY <2>1, FaultyAssumption DEF Voters, Honest
    <3>2. Cardinality(Voters(c)) <= Cardinality(Voters(c)')
          /\ Cardinality(Voters(c)) \in Nat /\ Cardinality(Voters(c)') \in Nat
      BY <3>1, AuthorityAssumption, FS_Subset, FS_CardinalityType
    <3> QED BY <3>2, Thresholds DEF CertsVoted, ReachedQuorum
  <2> QED BY <2>1, <2>2, <2>3, <2>4, <2>5 DEF OwnOnce, GenesisOnly
<1>4. ASSUME NEW h \in headers, Certify(h)
      PROVE  CInv'
  <2>1. /\ certs' = certs \cup {h} /\ h \notin certs /\ UNCHANGED <<headers, parents, votes>>
        /\ ReachedQuorum(Voters(h)) /\ parents[h] \subseteq certs
    BY ZenonT(30), <1>4, VotedValid DEF Certify, ValidParents
  <2>2. anc' \in [certs' -> SUBSET certs']
    <3>1. parents[h] \cup UNION {anc[p] : p \in parents[h]} \subseteq certs
      BY <2>1 DEF TypeOK
    <3> QED BY <1>4, <2>1, <3>1 DEF Certify, TypeOK
  <2>3. TypeOK'
    BY <2>1, <2>2 DEF TypeOK
  <2>4. VotesValid'
    BY <2>1, ParentsStable DEF VotesValid
  <2> QED BY ZenonT(30), <2>1, <2>3, <2>4 DEF VotesOnce, OwnOnce, CertsVoted, GenesisOnly, Voters
<1>5. CASE UNCHANGED vars
  <2>1. UNCHANGED <<headers, parents, votes, certs, anc>>
    BY <1>5 DEF vars
  <2>2. TypeOK' /\ VotesOnce' /\ OwnOnce' /\ GenesisOnly'
    BY <2>1 DEF TypeOK, VotesOnce, OwnOnce, GenesisOnly
  <2>3. VotesValid' /\ CertsVoted'
    BY <2>1 DEF VotesValid, CertsVoted, Voters, ValidParents
  <2> QED BY <2>2, <2>3
<1> QED BY <1>1, <1>2, <1>3, <1>4, <1>5 DEF Next

\* The invariant of the whole system.
THEOREM CInvTheorem == Spec => []CInv
BY CInit, CStep, PTL DEF Spec

\* At most one certificate per author and round, whatever up to MaxFaulty
\* authorities sign.
THEOREM NoEquivocationTheorem == Spec => []NoEquivocation
BY CInvTheorem, CInvNoEquivocation, PTL

\* Certification implements the certified DAG.
THEOREM DagTheorem == Spec => DagSpec
<1>1. Init => D!Init
  BY DEF Init, D!Init, GenesisCerts, D!GenesisCerts, D!GenesisCert
<1>2. CInv /\ NoEquivocation' /\ [Next]_vars => [D!Next]_(D!dagVars)
  <2> SUFFICES ASSUME CInv, NoEquivocation', [Next]_vars
               PROVE  D!Next \/ UNCHANGED D!dagVars
    OBVIOUS
  <2> DEFINE P == [c \in certs |-> parents[c]]
  <2>1. ASSUME NEW h \in headers, Certify(h) PROVE D!Next
    <3>1. /\ h \notin certs /\ certs' = certs \cup {h} /\ ReachedQuorum(Voters(h))
          /\ UNCHANGED <<headers, parents, votes>>
      BY <2>1 DEF Certify
    <3>2. h.round >= 1 /\ h \in Header /\ ValidParents(parents[h], h.round)
      BY <3>1, VotedValid, HeaderRounds DEF CInv
    <3>3. \A d \in certs : ~(d.author = h.author /\ d.round = h.round)
      <4>1. \A c, d \in certs' : c.author = d.author /\ c.round = d.round => c = d
        BY DEF NoEquivocation
      <4> QED BY <3>1, <4>1
    <3>4. P' = [x \in certs \cup {h} |-> IF x = h THEN parents[h] ELSE P[x]]
      BY <3>1
    <3>5. D!ValidParents(parents[h], h.round)
      <4>1. D!Authors(parents[h]) = {p.author : p \in parents[h]}
        BY DEF D!Authors
      <4>2. D!ReachedQuorum(D!Authors(parents[h]))
        <5>0. \A S : D!Cardinality(S) = Cardinality(S)
          BY DEF D!Cardinality, Cardinality
        <5>1. D!QuorumThreshold = QuorumThreshold
          BY <5>0 DEF D!QuorumThreshold, QuorumThreshold, D!N, N
        <5>2. Cardinality({p.author : p \in parents[h]}) >= QuorumThreshold
          BY <3>2 DEF ValidParents, ReachedQuorum
        <5> QED BY <4>1, <5>0, <5>1, <5>2 DEF D!ReachedQuorum
      <4> QED BY <3>2, <4>2 DEF ValidParents, D!ValidParents
    <3>6. parents[h] \in SUBSET {p \in certs : p.round + 1 = h.round}
      BY <3>2 DEF ValidParents
    <3>7. PICK a \in Authority, r \in Round, d \in Digest :
                h = [author |-> a, round |-> r, digest |-> d]
      BY <3>2 DEF Header
    <3>8. PICK ps \in SUBSET {p \in certs : p.round + 1 = r} : ps = parents[h]
      BY <3>6, <3>7
    <3>9. D!AddCertificate([author |-> a, round |-> r, digest |-> d], ps)
      BY <2>1, <3>1, <3>3, <3>4, <3>5, <3>7, <3>8 DEF D!AddCertificate, Certify
    <3> QED BY <3>9 DEF D!Next
  <2>2. ASSUME certs' = certs, anc' = anc, \A c \in certs : parents'[c] = parents[c]
        PROVE  UNCHANGED D!dagVars
    BY <2>2 DEF D!dagVars
  <2>3. ASSUME NEW h \in Header, NEW ps \in SUBSET headers,
               ProposeHeader(h, ps) \/ ProposeFaulty(h, ps)
        PROVE  UNCHANGED D!dagVars
    <3>1. h \notin headers /\ certs' = certs /\ anc' = anc /\ Create(h, ps)
      BY <2>3 DEF ProposeHeader, ProposeFaulty
    <3> QED BY <2>2, <3>1, CreateFacts DEF CInv, TypeOK
  <2>4. ASSUME NEW h \in headers, NEW v \in Honest, VoteFor(v, h)
        PROVE  UNCHANGED D!dagVars
    BY <2>2, <2>4 DEF VoteFor
  <2>5. CASE UNCHANGED vars
    BY <2>2, <2>5 DEF vars
  <2>6. ASSUME NEW h \in Header, NEW ps \in SUBSET {c \in certs : c.round + 1 = h.round},
               ProposeHeader(h, ps)
        PROVE  UNCHANGED D!dagVars
    <3>1. ps \in SUBSET headers
      BY DEF CInv, TypeOK
    <3> QED BY <2>3, <2>6, <3>1
  <2> QED BY <2>1, <2>3, <2>4, <2>5, <2>6 DEF Next
<1> QED BY <1>1, <1>2, CInvTheorem, NoEquivocationTheorem, PTL DEF Spec, DagSpec, D!Spec

\* Every correct authority votes for the headers of others as its ledger allows:
\* what a single handler promises (LedgerSpec of VoteHandler) is what the votes
\* of the whole committee are made of.
THEOREM LedgersTheorem == Spec => LedgersSpec
<1>1. Init => \A v \in Honest : Ledger(v)!Init
  BY DEF Init, Ledger!Init, SignedBy
<1>2. CInv /\ [Next]_vars => [\A v \in Honest : Ledger(v)!Next \/ UNCHANGED SignedBy(v)]_vars
  <2> SUFFICES ASSUME CInv, Next, NEW v \in Honest
               PROVE  Ledger(v)!Next \/ UNCHANGED SignedBy(v)
    OBVIOUS
  <2>1. ASSUME NEW h \in headers, NEW u \in Honest, VoteFor(u, h)
        PROVE  Ledger(v)!Next \/ UNCHANGED SignedBy(v)
    <3> DEFINE w == [voter |-> u, header |-> h]
    <3>1. /\ votes' = votes \cup {w} /\ w.voter = u /\ w.header = h
          /\ u # h.author /\ h \in Header
          /\ \A x \in votes : x.voter = u /\ x.header.author = h.author =>
                x.header.round < h.round \/ x.header = h
      BY <2>1, HeaderRounds DEF VoteFor, CInv
    <3> HIDE DEF w
    <3>2. CASE u # v
      BY <3>1, <3>2 DEF SignedBy
    <3>3. CASE u = v
      <4>1. SignedBy(v)' = SignedBy(v) \cup {h}
        BY <3>1, <3>3 DEF SignedBy
      <4>2. h \in Ledger(v)!Ballot
        BY <3>1 DEF Header, Ledger!Ballot
      <4>3. Ledger(v)!MaySign(h)
        BY <3>1, <3>3 DEF SignedBy, Ledger!MaySign
      <4> QED BY <4>1, <4>2, <4>3 DEF Ledger!Next, Ledger!Sign
    <3> QED BY <3>2, <3>3
  <2>2. ASSUME NEW h \in Header, NEW ps, ProposeHeader(h, ps)
        PROVE  UNCHANGED SignedBy(v)
    <3> DEFINE w == [voter |-> h.author, header |-> h]
    <3>1. votes' = votes \cup {w} /\ w.voter = h.author /\ w.header = h
      BY <2>2 DEF ProposeHeader
    <3> HIDE DEF w
    <3> QED BY <3>1 DEF SignedBy
  <2>3. ASSUME votes' = votes PROVE UNCHANGED SignedBy(v)
    BY <2>3 DEF SignedBy
  <2> QED BY <2>1, <2>2, <2>3 DEF Next, ProposeFaulty, Certify
<1> QED BY <1>1, <1>2, CInvTheorem, PTL DEF Spec, LedgersSpec
=============================================================================
