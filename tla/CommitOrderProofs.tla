-------------------------- MODULE CommitOrderProofs --------------------------
(***************************************************************************)
(* Agreement: what two nodes commit differs only in length, for every      *)
(* committee, DAG, leader schedule and number of nodes.                    *)
(*                                                                         *)
(* First the DAG: a supported leader is in the history of every            *)
(* certificate two or more rounds later, because a quorum meets every set  *)
(* of f+1 authorities (QuorumMeetsValidity).  Two rounds later it is the   *)
(* intersection of its parents with the supporters, which are the same     *)
(* certificates by OnePerRound; later ones inherit it from any parent.     *)
(* The induction over rounds is a least counterexample (LeastNatural).     *)
(*                                                                         *)
(* Then the order: after a common prefix p there is at most one next       *)
(* leader.  Let l and k be two supported leaders, l.round <= k.round, with *)
(* chains S and T.  Every leader of a later round has l in its history     *)
(* (SupportedLemma), so the chain T cannot step over l; from l down both   *)
(* chains take the same steps, so they have the same first leader.         *)
(***************************************************************************)
EXTENDS CommitOrder, TLAPS, FiniteSetTheorems, SequenceTheorems, WellFoundedInduction

\* A nonempty set of natural numbers has a least element.
LEMMA LeastNatural ==
    ASSUME NEW T, T \subseteq Nat, T # {}
    PROVE  \E x \in T : \A y \in T : x <= y
<1> DEFINE R == OpToRel(<, Nat)
<1>1. IsWellFoundedOn(R, Nat)
  BY NatLessThanWellFounded
<1>2. \E x \in T : \A y \in T : ~(<<y, x>> \in R)
  <2> HIDE DEF R
  <2> QED BY <1>1, WFMin
<1>3. \A x, y \in Nat : x < y => <<x, y>> \in R
  BY DEF OpToRel
<1> HIDE DEF R
<1>4. PICK x \in T : \A y \in T : ~(<<y, x>> \in R)
  BY <1>2
<1>5. \A y \in T : y \in Nat /\ x \in Nat /\ ~(y < x)
  BY <1>3, <1>4
<1>6. \A y \in T : x <= y
  BY <1>5
<1> QED BY <1>6

\* The arithmetic of calculate_quorum_threshold and calculate_validity_threshold:
\* a quorum and f+1 authorities are more than there are.
LEMMA Thresholds ==
    /\ N \in Nat /\ N > 0
    /\ QuorumThreshold \in Nat /\ QuorumThreshold >= 1
    /\ ValidityThreshold \in Nat /\ ValidityThreshold >= 1
    /\ QuorumThreshold + ValidityThreshold > N
<1>1. N \in Nat /\ N > 0
  BY AuthorityAssumption, FS_CardinalityType, FS_EmptySet DEF N
<1> QED BY <1>1 DEF QuorumThreshold, ValidityThreshold

\* A quorum and a set of f+1 authorities have a member in common.
LEMMA QuorumMeetsValidity ==
    ASSUME NEW Q, Q \subseteq Authority, ReachedQuorum(Q),
           NEW V, V \subseteq Authority, ReachedValidity(V)
    PROVE  Q \cap V # {}
<1>1. IsFiniteSet(Q) /\ IsFiniteSet(V)
  BY AuthorityAssumption, FS_Subset
<1>2. Cardinality(Q) + Cardinality(V) > Cardinality(Authority)
  BY <1>1, Thresholds, FS_CardinalityType DEF ReachedQuorum, ReachedValidity, N
<1> QED BY <1>2, AuthorityAssumption, FS_MajoritiesIntersect

\* A quorum is not empty.
LEMMA QuorumNonEmpty ==
    ASSUME NEW Q, ReachedQuorum(Q)
    PROVE  Q # {}
BY Thresholds, FS_EmptySet DEF ReachedQuorum

-----------------------------------------------------------------------------
\* Every certificate but those of genesis has valid parents, and its history
\* holds its parents and their histories.
WellFormed ==
    \A c \in certs : c.round > 0 =>
        /\ ValidParents(par[c], c.round)
        /\ \A p \in par[c] : p \in anc[c] /\ anc[p] \subseteq anc[c]

DagInv == TypeOK /\ OnePerRound /\ WellFormed

\* The inductive step: a certificate that is added disturbs none of the others.
LEMMA DagStep ==
    ASSUME DagInv, NEW c \in Vertex, c.round > 0, NEW ps, AddCertificate(c, ps)
    PROVE  DagInv'
<1>1. /\ ps \subseteq certs /\ certs' = certs \cup {c} /\ c \notin certs
      /\ \A x \in certs : par'[x] = par[x] /\ anc'[x] = anc[x]
      /\ par'[c] = ps /\ anc'[c] = ps \cup UNION {anc[p] : p \in ps}
  BY DEF AddCertificate, ValidParents, DagInv, TypeOK
<1>2. TypeOK'
  <2>1. certs' \subseteq Vertex
    BY <1>1 DEF DagInv, TypeOK
  <2>2. par' \in [certs' -> SUBSET certs']
    BY <1>1 DEF AddCertificate, DagInv, TypeOK
  <2>3. anc'[c] \subseteq certs
    BY <1>1 DEF DagInv, TypeOK
  <2>4. \A x \in certs' : anc'[x] \subseteq certs'
    BY <1>1, <2>3 DEF DagInv, TypeOK
  <2>5. anc' \in [certs' -> SUBSET certs']
    BY <1>1, <2>4 DEF AddCertificate
  <2> QED BY <2>1, <2>2, <2>5 DEF TypeOK
<1>3. OnePerRound'
  BY <1>1 DEF AddCertificate, DagInv, OnePerRound
<1>4. WellFormed'
  <2> SUFFICES ASSUME NEW x \in certs', x.round > 0
               PROVE  /\ ValidParents(par[x], x.round)'
                      /\ \A p \in par'[x] : p \in anc'[x] /\ anc'[p] \subseteq anc'[x]
    BY DEF WellFormed
  <2>1. CASE x = c
    <3>1. ValidParents(ps, c.round)'
      BY <1>1 DEF AddCertificate, ValidParents, Authors, ReachedQuorum
    <3>2. \A p \in ps : p \in anc'[c] /\ anc'[p] \subseteq anc'[c]
      BY <1>1
    <3>3. ValidParents(par[x], x.round)'
      BY <1>1, <2>1, <3>1 DEF ValidParents
    <3> QED BY <1>1, <2>1, <3>2, <3>3
  <2>2. CASE x # c
    <3>1. x \in certs /\ ValidParents(par[x], x.round) /\ par[x] \subseteq certs
      BY <1>1, <2>2 DEF DagInv, WellFormed, ValidParents
    <3>2. ValidParents(par[x], x.round)'
      BY <1>1, <3>1 DEF ValidParents, Authors, ReachedQuorum
    <3>3. ValidParents(par[x], x.round)' /\ par'[x] = par[x]
      BY <1>1, <3>1, <3>2 DEF ValidParents
    <3> QED BY <1>1, <2>2, <3>1, <3>3 DEF DagInv, WellFormed
  <2> QED BY <2>1, <2>2
<1> QED BY <1>2, <1>3, <1>4 DEF DagInv

\* The genesis certificates are a well formed DAG.
LEMMA DagInitially ==
    ASSUME Init
    PROVE  DagInv
<1>1. \A c \in certs : c \in Vertex /\ c.round = 0
  BY DEF Init, GenesisCerts, GenesisCert, Vertex
<1>2. OnePerRound
  BY DEF Init, GenesisCerts, GenesisCert, OnePerRound
<1>3. TypeOK
  BY <1>1 DEF Init, TypeOK
<1> QED BY <1>1, <1>2, <1>3 DEF DagInv, WellFormed

\* Every reachable DAG is well formed, with one certificate per author and
\* round.
THEOREM DagWellFormed == Spec => []DagInv
<1>1. Init => DagInv
  BY DagInitially
<1>2. DagInv /\ [Next]_dagVars => DagInv'
  <2> SUFFICES ASSUME DagInv, [Next]_dagVars PROVE DagInv'
    OBVIOUS
  <2>1. CASE Next
    <3> PICK a \in Authority, r \in Round, d \in Digest :
              \E ps \in SUBSET {p \in certs : p.round + 1 = r} :
                  AddCertificate([author |-> a, round |-> r, digest |-> d], ps)
      BY <2>1 DEF Next
    <3> DEFINE c == [author |-> a, round |-> r, digest |-> d]
    <3>1. c \in Vertex /\ c.round > 0
      BY RoundAssumption DEF Vertex
    <3> HIDE DEF c
    <3> QED BY <3>1, DagStep DEF c
  <2>2. CASE UNCHANGED dagVars
    BY <2>2 DEF dagVars, DagInv, TypeOK, OnePerRound, WellFormed, ValidParents
  <2> QED BY <2>1, <2>2
<1> QED BY <1>1, <1>2, PTL DEF Spec

-----------------------------------------------------------------------------
\* Two rounds above a supported leader: the parents meet the supporters.
LEMMA LinkedAtTwo ==
    ASSUME DagInv, NEW l \in certs, ReachedValidity(Authors(Supporters(l))),
           NEW c \in certs, c.round = l.round + 2
    PROVE  l \in anc[c]
<1>1. l.round \in Nat /\ c.round > 0
  BY DEF DagInv, TypeOK, Vertex
<1>2. /\ ReachedQuorum(Authors(par[c])) /\ par[c] \subseteq certs
      /\ \A p \in par[c] : p.round + 1 = c.round /\ p \in anc[c] /\ anc[p] \subseteq anc[c]
  BY <1>1 DEF DagInv, WellFormed, ValidParents
<1>3. Authors(par[c]) \subseteq Authority /\ Authors(Supporters(l)) \subseteq Authority
  BY <1>2 DEF Authors, Supporters, DagInv, TypeOK, Vertex
<1>4. PICK a \in Authority : a \in Authors(par[c]) /\ a \in Authors(Supporters(l))
  BY <1>2, <1>3, QuorumMeetsValidity
<1>5. PICK p \in par[c] : p.author = a
  BY <1>4 DEF Authors
<1>6. PICK s \in Supporters(l) : s.author = a
  BY <1>4 DEF Authors
<1>7. p = s
  <2>1. p \in certs /\ s \in certs /\ p.round \in Nat /\ s.round = l.round + 1
    BY <1>2 DEF Supporters, DagInv, TypeOK, Vertex
  <2>2. p.round = s.round
    BY <1>1, <1>2, <2>1
  <2> QED BY <1>5, <1>6, <2>1, <2>2 DEF DagInv, OnePerRound
<1>8. s.round > 0 /\ l \in par[s] /\ s \in certs
  BY <1>1 DEF Supporters
<1>9. l \in anc[s]
  BY <1>8 DEF DagInv, WellFormed
<1> QED BY <1>2, <1>5, <1>7, <1>9

\* A supported leader is in the causal history of every certificate two or
\* more rounds later (what commit_leader and order_leaders rely on).
LEMMA SupportedLemma ==
    ASSUME DagInv
    PROVE  SupportedIsLinked
<1> SUFFICES ASSUME NEW l \in certs, ReachedValidity(Authors(Supporters(l))),
                    NEW e \in certs, e.round >= l.round + 2, l \notin anc[e]
             PROVE  FALSE
  BY DEF SupportedIsLinked
<1> DEFINE Bad == {c \in certs : c.round >= l.round + 2 /\ l \notin anc[c]}
           T == {c.round : c \in Bad}
<1>1. \A c \in certs : c.round \in Nat
  BY DEF DagInv, TypeOK, Vertex
<1>2. T \subseteq Nat /\ T # {}
  BY <1>1
<1>3. PICK m \in T : \A y \in T : m <= y
  BY <1>2, LeastNatural
<1>4. PICK c \in Bad : c.round = m
  BY <1>3
<1>5. CASE c.round = l.round + 2
  BY <1>4, <1>5, LinkedAtTwo
<1>6. CASE c.round > l.round + 2
  <2>1. /\ ReachedQuorum(Authors(par[c])) /\ par[c] \subseteq certs
        /\ \A p \in par[c] : p.round + 1 = c.round /\ anc[p] \subseteq anc[c]
    BY <1>1, <1>4, <1>6 DEF DagInv, WellFormed, ValidParents
  <2>2. PICK p \in par[c] : TRUE
    BY <2>1, QuorumNonEmpty DEF Authors
  <2>3. p \in certs /\ p.round \in Nat /\ p.round >= l.round + 2 /\ p.round < m
    BY <1>1, <1>4, <1>6, <2>1, <2>2
  <2>4. l \notin anc[p]
    BY <1>4, <2>1, <2>2
  <2>5. p.round \in T
    BY <2>3, <2>4
  <2> QED BY <1>1, <1>3, <1>4, <2>3, <2>5
<1> QED BY <1>1, <1>4, <1>5, <1>6

\* The same for every reachable state.
THEOREM SupportedIsLinkedTheorem == Spec => []SupportedIsLinked
BY DagWellFormed, SupportedLemma, PTL

\* No author ever has two certificates in a round.
THEOREM OnePerRoundTheorem == Spec => []OnePerRound
<1>1. DagInv => OnePerRound
  BY DEF DagInv
<1> QED BY <1>1, DagWellFormed, PTL

-----------------------------------------------------------------------------
\* A non-empty set of certificates has one of the lowest round.
LEMMA LowestRound ==
    ASSUME DagInv, NEW A \in SUBSET certs, A # {}
    PROVE  \E x \in A : \A y \in A : x.round <= y.round
<1> DEFINE R == {x.round : x \in A}
<1>1. R \subseteq Nat /\ R # {}
  BY DEF DagInv, TypeOK, Vertex
<1>2. PICK m \in R : \A y \in R : m <= y
  BY ZenonT(30), <1>1, LeastNatural
<1> QED BY <1>2

\* A non-empty set of certificates of bounded round has one of the highest.
LEMMA HighestRound ==
    ASSUME DagInv, NEW A \in SUBSET certs, A # {},
           NEW b \in Nat, \A x \in A : x.round <= b
    PROVE  \E x \in A : \A y \in A : y.round <= x.round
<1> DEFINE R == {b - x.round : x \in A}
<1>1. \A x \in A : x.round \in Nat
  BY DEF DagInv, TypeOK, Vertex
<1>2. R \subseteq Nat /\ R # {}
  BY <1>1
<1>3. PICK m \in R : \A y \in R : m <= y
  BY ZenonT(30), <1>2, LeastNatural
<1>4. PICK x \in A : m = b - x.round
  BY <1>3
<1>5. \A y \in A : b - x.round <= b - y.round
  BY <1>3, <1>4
<1> QED BY <1>1, <1>4, <1>5

\* There is one leader per round after a prefix.
LEMMA OneLeader ==
    ASSUME DagInv, NEW p, NEW x \in Leaders(p), NEW y \in Leaders(p), x.round = y.round
    PROVE  x = y
  BY DEF Leaders, DagInv, OnePerRound

\* A supported leader is in the history of every leader of a later round.
LEMMA SupportedInHistory ==
    ASSUME DagInv, NEW p, NEW l \in Leaders(p), EnoughSupport(l),
           NEW x \in Leaders(p), x.round > l.round
    PROVE  l \in anc[x]
<1>1. l.round \in Nat /\ x.round \in Nat /\ l \in certs /\ x \in certs
  BY DEF Leaders, DagInv, TypeOK, Vertex
<1>2. l.round % 2 = 0 /\ x.round % 2 = 0
  BY DEF Leaders
<1>3. x.round >= l.round + 2
  BY <1>1, <1>2
<1> QED BY <1>1, <1>3, SupportedLemma DEF EnoughSupport, SupportedIsLinked

\* A leader with a leader in its history has a latest one there.
LEMMA PrevExists ==
    ASSUME DagInv, NEW p, NEW x \in Leaders(p),
           NEW l \in Leaders(p), l \in anc[x], l.round < x.round
    PROVE  \E y \in Leaders(p) : PrevLeader(Leaders(p), x, y) /\ l.round <= y.round
<1> DEFINE A == {z \in Leaders(p) : z \in anc[x] /\ z.round < x.round}
<1>1. A \in SUBSET certs /\ l \in A /\ x.round \in Nat
  BY DEF Leaders, DagInv, TypeOK, Vertex
<1>2. \A z \in A : z.round <= x.round
  BY <1>1 DEF DagInv, TypeOK, Vertex
<1>3. PICK y \in A : \A z \in A : z.round <= y.round
  BY ZenonT(30), <1>1, <1>2, HighestRound
<1> QED BY <1>1, <1>3 DEF PrevLeader

\* A chain that ends at or above a supported leader passes through it.
LEMMA ChainMeets ==
    ASSUME DagInv, NEW p, NEW l \in Leaders(p), EnoughSupport(l),
           NEW k \in Leaders(p), NEW T \in SUBSET Leaders(p), IsChain(Leaders(p), T, k),
           l.round <= k.round
    PROVE  l \in T
<1> DEFINE A == {x \in T : l.round <= x.round}
<1>0. \A x \in Leaders(p) : x \in certs /\ x.round \in Nat
  BY DEF Leaders, DagInv, TypeOK, Vertex
<1>1. A \in SUBSET certs /\ k \in A
  BY <1>0 DEF IsChain
<1>2. PICK x \in A : \A y \in A : x.round <= y.round
  BY ZenonT(30), <1>1, LowestRound
<1>3. CASE x.round = l.round
  BY <1>2, <1>3, OneLeader
<1>4. CASE x.round # l.round
  <2>1. x \in Leaders(p) /\ x.round > l.round
    BY <1>0, <1>2, <1>4
  <2>2. l \in anc[x]
    BY <2>1, SupportedInHistory
  <2>3. PICK y \in Leaders(p) : PrevLeader(Leaders(p), x, y) /\ l.round <= y.round
    BY <1>0, <2>1, <2>2, PrevExists
  <2>4. y \in T
    BY <1>2, <2>3 DEF IsChain
  <2>5. y.round < x.round /\ x.round <= y.round
    BY <1>2, <2>3, <2>4 DEF PrevLeader
  <2> QED BY <1>0, <2>3, <2>5, <2>1
<1> QED BY <1>3, <1>4

\* Below a supported leader two chains are the same.
LEMMA ChainsAgree ==
    ASSUME DagInv, NEW p, NEW l \in Leaders(p), EnoughSupport(l),
           NEW S \in SUBSET Leaders(p), IsChain(Leaders(p), S, l),
           NEW k \in Leaders(p), NEW T \in SUBSET Leaders(p), IsChain(Leaders(p), T, k),
           l.round <= k.round
    PROVE  S = {x \in T : x.round <= l.round}
<1>0. \A x \in Leaders(p) : x \in certs /\ x.round \in Nat
  BY DEF Leaders, DagInv, TypeOK, Vertex
<1>1. l \in T
  BY ChainMeets
<1>2. S \subseteq T
  <2> DEFINE A == S \ T
  <2> SUFFICES ASSUME A # {} PROVE FALSE
    OBVIOUS
  <2>1. A \in SUBSET certs /\ \A x \in A : x.round <= l.round
    BY <1>0 DEF IsChain
  <2>2. PICK y \in A : \A z \in A : z.round <= y.round
    BY ZenonT(30), <1>0, <2>1, HighestRound
  <2>3. PICK x \in S : PrevLeader(Leaders(p), x, y)
    BY <1>1, <2>2 DEF IsChain
  <2>4. x \in T
    BY <1>0, <2>2, <2>3 DEF PrevLeader
  <2> QED BY <2>2, <2>3, <2>4 DEF IsChain
<1>3. \A x \in T : x.round <= l.round => x \in S
  <2> DEFINE A == {x \in T : x.round <= l.round /\ x \notin S}
  <2> SUFFICES ASSUME A # {} PROVE FALSE
    OBVIOUS
  <2>1. A \in SUBSET certs /\ \A x \in A : x.round <= l.round
    BY <1>0
  <2>2. PICK y \in A : \A z \in A : z.round <= y.round
    BY ZenonT(30), <1>0, <2>1, HighestRound
  <2>3. y # l /\ y.round < l.round /\ y \in Leaders(p)
    <3>1. l \in S
      BY DEF IsChain
    <3>2. y # l /\ y \in Leaders(p)
      BY <2>2, <3>1
    <3>3. y.round # l.round
      BY <3>2, OneLeader
    <3> QED BY <1>0, <2>2, <3>2, <3>3
  <2>4. y # k
    BY <1>0, <2>3
  <2>5. PICK x \in T : PrevLeader(Leaders(p), x, y)
    BY <2>2, <2>4 DEF IsChain
  <2>6. CASE x.round <= l.round
    <3>1. x \in S
      BY <1>0, <2>2, <2>5, <2>6 DEF PrevLeader
    <3> QED BY <2>2, <2>5, <3>1 DEF IsChain
  <2>7. CASE x.round > l.round
    <3>1. l \in anc[x]
      BY <2>7, SupportedInHistory
    <3>2. l.round <= y.round
      BY <2>5, <2>7, <3>1 DEF PrevLeader
    <3> QED BY <1>0, <2>3, <3>2
  <2> QED BY <1>0, <2>6, <2>7
<1> QED BY <1>2, <1>3 DEF IsChain

\* The same, for the first leaders of the two chains.
LEMMA FirstsAgree ==
    ASSUME DagInv, NEW p, NEW l \in Leaders(p), EnoughSupport(l),
           NEW S \in SUBSET Leaders(p), IsChain(Leaders(p), S, l),
           NEW k \in Leaders(p), NEW T \in SUBSET Leaders(p), IsChain(Leaders(p), T, k),
           l.round <= k.round,
           NEW f \in S, \A x \in S : f.round <= x.round,
           NEW g \in T, \A x \in T : g.round <= x.round
    PROVE  f = g
<1>0. \A x \in Leaders(p) : x.round \in Nat
  BY DEF Leaders, DagInv, TypeOK, Vertex
<1>1. S = {x \in T : x.round <= l.round}
  BY ChainsAgree
<1>2. l \in S /\ l \in T
  BY <1>1 DEF IsChain
<1>3. g.round <= l.round /\ g \in S
  BY <1>1, <1>2
<1>4. f.round <= g.round /\ g.round <= f.round
  BY <1>1, <1>3
<1>5. f.round = g.round
  BY <1>0, <1>4
<1> QED BY <1>5, OneLeader

\* After a prefix there is at most one next leader, whatever supported leader
\* a node starts commit_leader from.
LEMMA NextLeaderUnique ==
    ASSUME DagInv, NEW p, NEW f, NEW g, NextLeader(p, f), NextLeader(p, g)
    PROVE  f = g
<1>1. PICK l \in Leaders(p), S \in SUBSET Leaders(p) :
         /\ EnoughSupport(l) /\ IsChain(Leaders(p), S, l) /\ f \in S
         /\ \A x \in S : f.round <= x.round
  BY DEF NextLeader
<1>2. PICK k \in Leaders(p), T \in SUBSET Leaders(p) :
         /\ EnoughSupport(k) /\ IsChain(Leaders(p), T, k) /\ g \in T
         /\ \A x \in T : g.round <= x.round
  BY DEF NextLeader
<1>3. l.round \in Nat /\ k.round \in Nat
  BY DEF Leaders, DagInv, TypeOK, Vertex
<1>4. CASE l.round <= k.round
  BY <1>1, <1>2, <1>4, FirstsAgree
<1>5. CASE k.round <= l.round
  BY <1>1, <1>2, <1>5, FirstsAgree
<1> QED BY <1>3, <1>4, <1>5

-----------------------------------------------------------------------------
\* Two sequences that begin alike have equal prefixes.
LEMMA PrefixEqual ==
    ASSUME NEW A, NEW s \in Seq(A), NEW t \in Seq(A), NEW k \in Nat,
           k <= Len(s), k <= Len(t), \A y \in 1..k : s[y] = t[y]
    PROVE  SubSeq(s, 1, k) = SubSeq(t, 1, k)
<1>1. /\ \A y \in 1..k : s[y] \in A /\ t[y] \in A
      /\ k \in Int /\ 1 \in Int
  BY Len(s) \in Nat, Len(t) \in Nat
<1>2. /\ SubSeq(s, 1, k) \in Seq(A) /\ Len(SubSeq(s, 1, k)) = k
      /\ \A y \in 1..k : SubSeq(s, 1, k)[y] = s[y]
  BY <1>1
<1>3. /\ SubSeq(t, 1, k) \in Seq(A) /\ Len(SubSeq(t, 1, k)) = k
      /\ \A y \in 1..k : SubSeq(t, 1, k)[y] = t[y]
  BY <1>1
<1>4. \A y \in 1..Len(SubSeq(s, 1, k)) : SubSeq(s, 1, k)[y] = SubSeq(t, 1, k)[y]
  BY <1>2, <1>3
<1> HIDE DEF SubSeq
<1> QED BY <1>2, <1>3, <1>4, SeqEqual

\* What a node has committed is a finite sequence.
Sequences_ == \A n \in Node : \E S : committed[n] \in Seq(S)

\* Justified, with the prefix and the leader named.
EntryJustified(n, i) ==
    \A p, f : p = SubSeq(committed[n], 1, i - 1) /\ f = committed[n][i].leader
                 => NextLeader(p, f) /\ committed[n][i] = Entry(p, f)

JustifiedBy == \A n \in Node : \A i \in 1..Len(committed[n]) : EntryJustified(n, i)

\* Nodes whose entries are justified agree: at the first place they differ they
\* have the same prefix, hence the same next leader and the same entry.
LEMMA JustifiedAgree ==
    ASSUME DagInv, Sequences_, JustifiedBy
    PROVE  CommitAgreement
<1> SUFFICES ASSUME NEW m \in Node, NEW n \in Node, NEW i \in 1..Len(committed[m]),
                    i <= Len(committed[n]), committed[m][i] # committed[n][i]
             PROVE  FALSE
  BY DEF CommitAgreement
<1> DEFINE s == committed[m]
           t == committed[n]
           T == {j \in 1..Len(s) : j <= Len(t) /\ s[j] # t[j]}
<1>0. Len(s) \in Nat /\ Len(t) \in Nat
  BY DEF Sequences_
<1>1. T \subseteq Nat /\ T # {}
  BY <1>0
<1>2. PICK j \in T : \A y \in T : j <= y
  BY ZenonT(30), <1>1, LeastNatural
<1>3. j \in 1..Len(s) /\ j \in 1..Len(t) /\ s[j] # t[j]
  BY <1>0, <1>2
<1>4. \A y \in 1..(j - 1) : s[y] = t[y]
  BY <1>0, <1>2, <1>3
<1>5. SubSeq(s, 1, j - 1) = SubSeq(t, 1, j - 1)
  <2>1. PICK A : s \in Seq(A)
    BY DEF Sequences_
  <2>2. PICK B : t \in Seq(B)
    BY DEF Sequences_
  <2>3. s \in Seq(A \cup B) /\ t \in Seq(A \cup B)
    BY <2>1, <2>2, SeqMonotonic
  <2> HIDE DEF s, t
  <2> QED BY <1>0, <1>3, <1>4, <2>3, PrefixEqual
<1>6. PICK p : p = SubSeq(s, 1, j - 1)
  BY ZenonT(30)
<1>7. PICK f : f = s[j].leader
  OBVIOUS
<1>8. PICK g : g = t[j].leader
  OBVIOUS
<1>9. NextLeader(p, f) /\ s[j] = Entry(p, f)
  <2>1. EntryJustified(m, j)
    BY <1>3, ZenonT(30) DEF JustifiedBy
  <2> QED BY <1>6, <1>7, <2>1, ZenonT(30) DEF EntryJustified
<1>10. NextLeader(p, g) /\ t[j] = Entry(p, g)
  <2>1. EntryJustified(n, j)
    BY <1>3, ZenonT(30) DEF JustifiedBy
  <2> QED BY <1>5, <1>6, <1>8, <2>1, ZenonT(30) DEF EntryJustified
<1>11. f = g
  BY <1>9, <1>10, NextLeaderUnique
<1> QED BY <1>3, <1>9, <1>10, <1>11

-----------------------------------------------------------------------------
\* A next leader stays one while the DAG grows: histories do not change, and
\* support only grows.
LEMMA NextLeaderGrows ==
    ASSUME DagInv, NEW c \in Vertex, NEW ps, AddCertificate(c, ps),
           NEW p, NEW f, NextLeader(p, f)
    PROVE  NextLeader(p, f)'
<1>1. /\ certs' = certs \cup {c}
      /\ \A x \in certs : par'[x] = par[x] /\ anc'[x] = anc[x] /\ anc[x] \subseteq certs
  BY DEF AddCertificate, ValidParents, DagInv, TypeOK
<1>2. Leaders(p) \subseteq Leaders(p)' /\ Leaders(p) \subseteq certs
  BY <1>1 DEF Leaders
<1>3. \A x \in Leaders(p), y \in Leaders(p)' : y \in anc[x] => y \in Leaders(p)
  BY <1>1 DEF Leaders
<1>4. \A x \in Leaders(p), y \in Leaders(p)' : PrevLeader(Leaders(p), x, y)' <=> PrevLeader(Leaders(p), x, y)
  BY <1>1, <1>2, <1>3 DEF PrevLeader
<1>5. PICK l \in Leaders(p), S \in SUBSET Leaders(p) :
         /\ EnoughSupport(l) /\ IsChain(Leaders(p), S, l) /\ f \in S
         /\ \A x \in S : f.round <= x.round
  BY DEF NextLeader
<1>6. EnoughSupport(l)'
  <2>1. Authors(Supporters(l)) \subseteq Authors(Supporters(l))'
    BY <1>1, <1>2 DEF Authors, Supporters
  <2>2. Authors(Supporters(l))' \subseteq Authority
    <3>1. Supporters(l)' \subseteq Vertex
      BY <1>1 DEF Supporters, DagInv, TypeOK
    <3> QED BY <3>1 DEF Authors, Vertex
  <2>3. IsFiniteSet(Authors(Supporters(l))')
    BY <2>2, AuthorityAssumption, FS_Subset
  <2>4. /\ Cardinality(Authors(Supporters(l))) <= Cardinality(Authors(Supporters(l))')
        /\ Cardinality(Authors(Supporters(l))) \in Nat
        /\ Cardinality(Authors(Supporters(l))') \in Nat
    BY <2>1, <2>3, FS_Subset, FS_CardinalityType
  <2>5. ValidityThreshold \in Int
    BY AuthorityAssumption, FS_CardinalityType DEF ValidityThreshold, N
  <2> QED BY <1>5, <2>4, <2>5 DEF EnoughSupport, ReachedValidity
<1>7. IsChain(Leaders(p), S, l)'
  <2>1. \A x \in S : \A y \in Leaders(p)' : PrevLeader(Leaders(p), x, y)' => y \in S
    <3> SUFFICES ASSUME NEW x \in S, NEW y \in Leaders(p)', PrevLeader(Leaders(p), x, y)'
                 PROVE  y \in S
      OBVIOUS
    <3>1. x \in Leaders(p) /\ PrevLeader(Leaders(p), x, y)
      BY <1>4, <1>5
    <3> QED BY <1>5, <3>1 DEF IsChain, PrevLeader
  <2>2. \A y \in S : y = l \/ \E x \in S : PrevLeader(Leaders(p), x, y)'
    BY <1>2, <1>4, <1>5 DEF IsChain
  <2> QED BY <1>5, <2>1, <2>2 DEF IsChain
<1> QED BY <1>2, <1>5, <1>6, <1>7 DEF NextLeader
\* What is committed with a leader does not change either.
LEMMA EntryKept ==
    ASSUME DagInv, NEW c \in Vertex, NEW ps, AddCertificate(c, ps),
           NEW p, NEW f, NextLeader(p, f)
    PROVE  Entry(p, f)' = Entry(p, f)
<1>1. f \in certs
  BY DEF NextLeader, Leaders
<1>2. /\ par'[f] = par[f] /\ anc'[f] = anc[f]
      /\ \A x \in anc[f] \cup {f} : par'[x] = par[x]
  BY <1>1 DEF AddCertificate, DagInv, TypeOK
<1>3. History(f)' = History(f)
  BY <1>2 DEF History
<1> QED BY <1>3 DEF Entry

OrderInv == DagInv /\ Sequences_ /\ DOMAIN committed = Node /\ JustifiedBy

\* What may be committed next depends on the DAG and the prefix only.
LEMMA SameDag ==
    ASSUME UNCHANGED dagVars
    PROVE  \A p, g : /\ NextLeader(p, g)' <=> NextLeader(p, g)
                     /\ Entry(p, g)' = Entry(p, g)
<1>1. certs' = certs /\ par' = par /\ anc' = anc
  BY DEF dagVars
<1>2. \A p : Leaders(p)' = Leaders(p)
  BY <1>1, Zenon DEF Leaders
<1>3. \A l : EnoughSupport(l)' <=> EnoughSupport(l)
  BY <1>1, Zenon DEF EnoughSupport, Supporters
<1>4. \A L, S, l : IsChain(L, S, l)' <=> IsChain(L, S, l)
  <2>1. \A L, x, y : PrevLeader(L, x, y)' <=> PrevLeader(L, x, y)
    BY <1>1, Zenon DEF PrevLeader
  <2> QED BY <2>1, Zenon DEF IsChain
<1>5. \A p, g : NextLeader(p, g)' <=> NextLeader(p, g)
  BY <1>2, <1>3, <1>4, Zenon DEF NextLeader
<1>6. \A p, g : Entry(p, g)' = Entry(p, g)
  BY <1>1, Zenon DEF Entry, History
<1> QED BY <1>5, <1>6, Zenon

\* A new entry is justified by construction, the others are as before.
LEMMA CommitStep ==
    ASSUME OrderInv, NEW n \in Node, NEW f \in certs, Commit(n, f)
    PROVE  OrderInv'
<1> DEFINE s == committed[n]
           e == Entry(s, f)
<1>1. /\ DagInv'
      /\ \A p, g : /\ NextLeader(p, g)' <=> NextLeader(p, g)
                   /\ Entry(p, g)' = Entry(p, g)
  <2>1. DagInv'
    BY DEF Commit, dagVars, OrderInv, DagInv, TypeOK, OnePerRound, WellFormed, ValidParents
  <2>2. UNCHANGED dagVars
    BY DEF Commit
  <2> QED BY <2>1, <2>2, SameDag, Zenon
<1>2. /\ committed'[n] = Append(s, e) /\ DOMAIN committed' = Node
      /\ \A m \in Node : m # n => committed'[m] = committed[m]
  BY DEF Commit, OrderInv
<1>3. PICK A : s \in Seq(A)
  BY DEF OrderInv, Sequences_
<1>4. e \in A \cup {e} /\ s \in Seq(A \cup {e})
  BY <1>3, SeqMonotonic
<1>5. NextLeader(s, f)
  BY DEF Commit
<1> HIDE DEF s, e
<1>6. /\ Append(s, e) \in Seq(A \cup {e}) /\ Len(Append(s, e)) = Len(s) + 1 /\ Len(s) \in Nat
      /\ \A i \in 1..Len(s) : Append(s, e)[i] = s[i]
      /\ Append(s, e)[Len(s) + 1] = e
  BY <1>4, AppendProperties
<1>7. Sequences_'
  <2> SUFFICES ASSUME NEW m \in Node PROVE \E S : committed'[m] \in Seq(S)
    BY DEF Sequences_
  <2>1. CASE m = n
    BY <1>2, <1>6, <2>1
  <2>2. CASE m # n
    BY <1>2, <2>2 DEF OrderInv, Sequences_
  <2> QED BY <2>1, <2>2
<1>8. JustifiedBy'
  <2> SUFFICES ASSUME NEW m \in Node, NEW i \in 1..Len(committed'[m])
               PROVE  EntryJustified(m, i)'
    BY ZenonT(30) DEF JustifiedBy
  <2> SUFFICES ASSUME NEW p, NEW g, p = SubSeq(committed'[m], 1, i - 1),
                      g = committed'[m][i].leader
               PROVE  NextLeader(p, g)' /\ committed'[m][i] = Entry(p, g)'
    BY ZenonT(30) DEF EntryJustified
  <2>1. CASE m # n
    <3>1. /\ i \in 1..Len(committed[m]) /\ p = SubSeq(committed[m], 1, i - 1)
          /\ g = committed[m][i].leader /\ committed'[m][i] = committed[m][i]
      BY <1>2, <2>1
    <3>2. NextLeader(p, g) /\ committed[m][i] = Entry(p, g)
      <4>1. EntryJustified(m, i)
        BY <3>1, ZenonT(30) DEF OrderInv, JustifiedBy
      <4> QED BY <3>1, <4>1, ZenonT(30) DEF EntryJustified
    <3> QED BY <1>1, <3>1, <3>2
  <2>2. CASE m = n /\ i \in 1..Len(s)
    <3>1. p = SubSeq(s, 1, i - 1)
      <4>1. i - 1 \in Nat /\ i - 1 <= Len(s) /\ i - 1 <= Len(Append(s, e))
        BY <1>6, <2>2
      <4>2. \A y \in 1..(i - 1) : Append(s, e)[y] = s[y]
        BY <1>6, <2>2
      <4>3. SubSeq(Append(s, e), 1, i - 1) = SubSeq(s, 1, i - 1)
        BY <1>4, <1>6, <4>1, <4>2, PrefixEqual
      <4> QED BY <1>2, <2>2, <4>3
    <3>2. g = s[i].leader /\ committed'[m][i] = s[i]
      BY <1>2, <1>6, <2>2
    <3>3. NextLeader(p, g) /\ s[i] = Entry(p, g)
      <4>1. EntryJustified(n, i)
        BY <2>2, ZenonT(30) DEF OrderInv, JustifiedBy, s
      <4> QED BY <3>1, <3>2, <4>1, ZenonT(30) DEF EntryJustified, s
    <3> QED BY <1>1, <3>2, <3>3
  <2>3. CASE m = n /\ i = Len(s) + 1
    <3>1. p = s
      <4>1. \A y \in 1..Len(s) : Append(s, e)[y] = s[y]
        BY <1>6
      <4>2. Len(s) <= Len(s) /\ Len(s) <= Len(Append(s, e))
        BY <1>6
      <4>3. SubSeq(Append(s, e), 1, Len(s)) = SubSeq(s, 1, Len(s))
        BY <1>4, <1>6, <4>1, <4>2, PrefixEqual
      <4>4. SubSeq(s, 1, Len(s)) = s
        BY <1>4, SubSeqFull
      <4>5. i - 1 = Len(s)
        BY <1>6, <2>3
      <4> QED BY <1>2, <2>3, <4>3, <4>4, <4>5
    <3>2. committed'[m][i] = e
      BY <1>2, <1>6, <2>3
    <3>3. g = f
      BY <3>2 DEF e, Entry
    <3> QED BY ZenonT(30), <1>1, <1>5, <3>1, <3>2, <3>3 DEF e
  <2>4. m # n \/ i \in 1..Len(s) \/ i = Len(s) + 1
    BY <1>2, <1>6
  <2> QED BY <2>1, <2>2, <2>3, <2>4
<1> QED BY <1>1, <1>2, <1>7, <1>8 DEF OrderInv

\* The entries that remain after a restart are as before.
LEMMA ForgetStep ==
    ASSUME OrderInv, NEW n \in Node, NEW k \in 0..Len(committed[n]), Forget(n, k)
    PROVE  OrderInv'
<1> DEFINE s == committed[n]
           t == SubSeq(s, 1, k)
<1>1. /\ DagInv'
      /\ \A p, g : /\ NextLeader(p, g)' <=> NextLeader(p, g)
                   /\ Entry(p, g)' = Entry(p, g)
  <2>1. DagInv'
    BY DEF Forget, dagVars, OrderInv, DagInv, TypeOK, OnePerRound, WellFormed, ValidParents
  <2>2. UNCHANGED dagVars
    BY DEF Forget
  <2> QED BY <2>1, <2>2, SameDag, Zenon
<1>2. /\ committed'[n] = t /\ DOMAIN committed' = Node
      /\ \A m \in Node : m # n => committed'[m] = committed[m]
  BY DEF Forget, OrderInv
<1>3. PICK A : s \in Seq(A)
  BY DEF OrderInv, Sequences_
<1>4. Len(s) \in Nat /\ k \in Nat /\ k <= Len(s) /\ k \in Int
  BY <1>3
<1>5. /\ t \in Seq(A) /\ Len(t) = k
      /\ \A i \in 1..k : t[i] = s[i]
  <2> HIDE DEF s
  <2>1. \A i \in 1..k : s[i] \in A
    BY <1>3, <1>4
  <2> QED BY <1>3, <1>4, <2>1
<1> HIDE DEF s, t
<1>6. Sequences_'
  <2> SUFFICES ASSUME NEW m \in Node PROVE \E S : committed'[m] \in Seq(S)
    BY DEF Sequences_
  <2>1. CASE m = n
    BY <1>2, <1>5, <2>1
  <2>2. CASE m # n
    BY <1>2, <2>2 DEF OrderInv, Sequences_
  <2> QED BY <2>1, <2>2
<1>7. JustifiedBy'
  <2> SUFFICES ASSUME NEW m \in Node, NEW i \in 1..Len(committed'[m])
               PROVE  EntryJustified(m, i)'
    BY ZenonT(30) DEF JustifiedBy
  <2> SUFFICES ASSUME NEW p, NEW g, p = SubSeq(committed'[m], 1, i - 1),
                      g = committed'[m][i].leader
               PROVE  NextLeader(p, g)' /\ committed'[m][i] = Entry(p, g)'
    BY ZenonT(30) DEF EntryJustified
  <2>1. /\ i \in 1..Len(committed[m]) /\ p = SubSeq(committed[m], 1, i - 1)
        /\ g = committed[m][i].leader /\ committed'[m][i] = committed[m][i]
    <3>1. CASE m # n
      BY <1>2, <3>1
    <3>2. CASE m = n
      <4>1. i \in 1..k
        BY <1>2, <1>5, <3>2
      <4>2. i - 1 \in Nat /\ i - 1 <= Len(s) /\ i - 1 <= Len(t)
        BY <1>4, <1>5, <4>1
      <4>3. \A y \in 1..(i - 1) : t[y] = s[y]
        BY <1>4, <1>5, <4>1
      <4>4. SubSeq(t, 1, i - 1) = SubSeq(s, 1, i - 1)
        BY <1>3, <1>5, <4>2, <4>3, PrefixEqual
      <4>5. t[i] = s[i] /\ i \in 1..Len(s)
        BY <1>4, <1>5, <4>1
      <4> QED BY <1>2, <3>2, <4>4, <4>5 DEF s
    <3> QED BY <3>1, <3>2
  <2>2. NextLeader(p, g) /\ committed[m][i] = Entry(p, g)
    <3>1. EntryJustified(m, i)
      BY <2>1, ZenonT(30) DEF OrderInv, JustifiedBy
    <3> QED BY <2>1, <3>1, ZenonT(30) DEF EntryJustified
  <2> QED BY <1>1, <2>1, <2>2
<1> QED BY <1>1, <1>2, <1>6, <1>7 DEF OrderInv

\* For every committee, every schedule of leaders and any number of nodes, what
\* nodes commit is justified and two nodes never disagree.
THEOREM AgreementTheorem == OrderSpec => [](Justified /\ CommitAgreement)
<1>1. OrderInit => OrderInv
  <2> SUFFICES ASSUME OrderInit PROVE OrderInv
    OBVIOUS
  <2>1. DagInv
    BY DagInitially DEF OrderInit
  <2>2. \A n \in Node : committed[n] = <<>> /\ DOMAIN committed = Node
    BY DEF OrderInit
  <2>3. DOMAIN committed = Node
    BY DEF OrderInit
  <2>4. Sequences_
    <3>1. <<>> \in Seq({})
      OBVIOUS
    <3> QED BY <2>2, <3>1, ZenonT(30) DEF Sequences_
  <2>5. JustifiedBy
    BY <2>2 DEF JustifiedBy
  <2> QED BY <2>1, <2>3, <2>4, <2>5 DEF OrderInv
<1>2. OrderInv /\ [OrderNext]_vars => OrderInv'
  <2> SUFFICES ASSUME OrderInv, [OrderNext]_vars PROVE OrderInv'
    OBVIOUS
  <2>1. CASE Grow
    <3>1. PICK c \in Vertex : c.round > 0 /\ \E ps : AddCertificate(c, ps)
      <4> PICK a \in Authority, r \in Round, d \in Digest :
               \E ps \in SUBSET {p \in certs : p.round + 1 = r} :
                   AddCertificate([author |-> a, round |-> r, digest |-> d], ps)
        BY <2>1 DEF Grow, Next
      <4> DEFINE c == [author |-> a, round |-> r, digest |-> d]
      <4>1. c \in Vertex /\ c.round > 0
        BY RoundAssumption DEF Vertex
      <4> HIDE DEF c
      <4> QED BY <4>1 DEF c
    <3>2. PICK ps : AddCertificate(c, ps)
      BY <3>1
    <3>3. DagInv'
      BY <3>1, <3>2, DagStep DEF OrderInv
    <3>4. \A p, f : NextLeader(p, f) => NextLeader(p, f)' /\ Entry(p, f)' = Entry(p, f)
      BY <3>2, NextLeaderGrows, EntryKept DEF OrderInv
    <3>5. committed' = committed
      BY <2>1 DEF Grow
    <3>6. JustifiedBy'
      <4> SUFFICES ASSUME NEW m \in Node, NEW i \in 1..Len(committed'[m])
                   PROVE  EntryJustified(m, i)'
        BY ZenonT(30) DEF JustifiedBy
      <4> SUFFICES ASSUME NEW p, NEW g, p = SubSeq(committed'[m], 1, i - 1),
                          g = committed'[m][i].leader
                   PROVE  NextLeader(p, g)' /\ committed'[m][i] = Entry(p, g)'
        BY ZenonT(30) DEF EntryJustified
      <4>1. committed' = committed
        BY <3>5
      <4>2. EntryJustified(m, i)
        BY <4>1, ZenonT(30) DEF OrderInv, JustifiedBy
      <4>3. NextLeader(p, g) /\ committed[m][i] = Entry(p, g)
        BY <4>1, <4>2, ZenonT(30) DEF EntryJustified
      <4> QED BY <3>4, <4>1, <4>3
    <3> QED BY <3>3, <3>5, <3>6 DEF OrderInv, Sequences_
  <2>2. ASSUME NEW n \in Node, NEW f \in certs, Commit(n, f) PROVE OrderInv'
    BY <2>2, CommitStep
  <2>3. ASSUME NEW n \in Node, NEW k \in 0..Len(committed[n]), Forget(n, k) PROVE OrderInv'
    BY <2>3, ForgetStep
  <2>4. CASE UNCHANGED vars
    <3>1. \A p, g : (NextLeader(p, g)' <=> NextLeader(p, g)) /\ Entry(p, g)' = Entry(p, g)
      <4>1. UNCHANGED dagVars
        BY <2>4 DEF vars, dagVars
      <4> QED BY <4>1, SameDag, Zenon
    <3>2. JustifiedBy'
      <4> SUFFICES ASSUME NEW m \in Node, NEW i \in 1..Len(committed'[m])
                   PROVE  EntryJustified(m, i)'
        BY ZenonT(30) DEF JustifiedBy
      <4> SUFFICES ASSUME NEW p, NEW g, p = SubSeq(committed'[m], 1, i - 1),
                          g = committed'[m][i].leader
                   PROVE  NextLeader(p, g)' /\ committed'[m][i] = Entry(p, g)'
        BY ZenonT(30) DEF EntryJustified
      <4>1. committed' = committed
        BY <2>4 DEF vars
      <4>2. EntryJustified(m, i)
        BY <4>1, ZenonT(30) DEF OrderInv, JustifiedBy
      <4>3. NextLeader(p, g) /\ committed[m][i] = Entry(p, g)
        BY <4>1, <4>2, ZenonT(30) DEF EntryJustified
      <4> QED BY <3>1, <4>1, <4>3
    <3>3. DagInv'
      BY <2>4 DEF vars, OrderInv, DagInv, TypeOK, OnePerRound, WellFormed, ValidParents
    <3> QED BY <2>4, <3>2, <3>3 DEF vars, OrderInv, Sequences_
  <2> QED BY <2>1, <2>2, <2>3, <2>4 DEF OrderNext
<1>3. OrderInv => Justified /\ CommitAgreement
  <2> SUFFICES ASSUME OrderInv PROVE Justified /\ CommitAgreement
    OBVIOUS
  <2>1. Justified
    <3> SUFFICES ASSUME NEW n \in Node, NEW i \in 1..Len(committed[n])
                 PROVE  /\ NextLeader(SubSeq(committed[n], 1, i - 1), committed[n][i].leader)
                        /\ committed[n][i] = Entry(SubSeq(committed[n], 1, i - 1), committed[n][i].leader)
      BY ZenonT(30) DEF Justified
    <3>1. EntryJustified(n, i)
      BY ZenonT(30) DEF OrderInv, JustifiedBy
    <3> QED BY <3>1, ZenonT(30) DEF EntryJustified
  <2> QED BY <2>1, JustifiedAgree DEF OrderInv
<1> QED BY <1>1, <1>2, <1>3, PTL DEF OrderSpec
=============================================================================
