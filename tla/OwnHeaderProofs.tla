--------------------------- MODULE OwnHeaderProofs ---------------------------
(***************************************************************************)
(* One header per round, one certificate per header, no commit of what was *)
(* requeued for good and no digest dropped: OnceUnlessLost,                *)
(* RequeuedForGood and DigestsKept for every number of rounds, writes in   *)
(* flight, restarts and crashes.                                           *)
(*                                                                         *)
(* Shape is what the other three invariants take for granted.  The header  *)
(* a crash takes away is known because every header sent is, in each state *)
(* the store may fall back to, the last one, below the last one, still to  *)
(* be written or lost (HeadersInStore).  That the last one is never ahead  *)
(* of the round the proposer may build for is ProposerBehind.  The         *)
(* certificates follow from what the certifier and the manager hold for    *)
(* one header: Certificates.  A header requeued for good lies below an own *)
(* commit or the gc horizon of some output, and a new output is above all  *)
(* earlier ones: Requeued.  A digest taken is followed from the queue to a *)
(* header and back: Kept.                                                  *)
(***************************************************************************)
EXTENDS OwnHeader, TLAPS, FiniteSetTheorems, SequenceTheorems

ASequence(s) == s \in Seq({s[i] : i \in DOMAIN s})
IsASnap(s) == s = [last |-> s.last, certs |-> s.certs, top |-> s.top,
                   commit |-> s.commit, own |-> s.own]

\* The kinds of values, and that every header in the node was sent.
SnapShape(s, headers, certificates) ==
    /\ IsASnap(s)
    /\ s.last \in headers \cup {NoHeader} /\ s.last.round <= s.top + 1
    /\ s.certs \subseteq certificates
    /\ {s.top, s.commit, s.own} \subseteq Nat

StoreShape ==
    /\ ASequence(snaps) /\ Len(snaps) >= 1
    /\ \A i \in 1..Len(snaps) : SnapShape(snaps[i], sent, known)
    /\ IsFiniteSet(sent)
    /\ \A h \in sent : h.round \in 1..MaxRound /\ h.n \in Nat
    /\ \A c \in known : c.header \in sent

\* The proposer has parents only of stored rounds.
ProposerShape ==
    /\ round \in Nat /\ parents \in BOOLEAN /\ rewound \in BOOLEAN
    /\ parentsQ \in Seq(Nat) /\ ASequence(commitQ)
    /\ parents => round <= store.top
    /\ \A i \in 1..Len(parentsQ) : parentsQ[i] <= store.top
    /\ proposed \subseteq sent /\ pending \in sent \cup {NoHeader}

CertifierShape ==
    /\ ASequence(managerQ)
    /\ \A i \in 1..Len(managerQ) : managerQ[i].header \in sent /\ managerQ[i].signers \in Signers
    /\ inflight = NoProposal \/ inflight.header \in sent

Shape == StoreShape /\ ProposerShape /\ CertifierShape

\* Unless it was rewound the proposer may never build a header below the last
\* one it stored.
ProposerBehind ==
    ~rewound =>
      /\ parents => store.last.round <= round + 1
      /\ \A i \in 1..Len(parentsQ) :
            parentsQ[i] >= round => store.last.round <= parentsQ[i] + 1

\* Where the header h is with respect to the k-th state of the store.
HeaderInStore(h, k) ==
    \/ h \in lost
    \/ snaps[k].last.round > h.round
    \/ \E i \in k..Len(snaps) : snaps[i].last = h

HeadersInStore ==
    ~rewound =>
      /\ \A h \in sent : \A k \in 1..Len(snaps) : HeaderInStore(h, k)
      /\ \A g, h \in sent : Twins(g, h) => g \in lost \/ h \in lost

\* Some certificate of the header died with the process.
CertificateLost(h) == \E d \in known \cap lost : d.header = h
Gathering == inflight # NoProposal /\ inflight.signers = {}
Sending(h) == \E i \in 1..Len(managerQ) : managerQ[i].header = h

\* The number of a header tells it from those of its round sent before.
Numbered == \A h \in sent : h.n <= Cardinality({g \in sent : g.round = h.round})

KnownStored == \A b \in known : IsCertified(b.header) \/ CertificateLost(b.header)
OneCertificate ==
    \A b, c \in known : b.header = c.header /\ b # c => CertificateLost(b.header)

\* At most one certificate of a header is on its way to the manager, the task in
\* flight is still waiting for that of the stored header, and it is the first.
QueueApart == \A i, j \in 1..Len(managerQ) : managerQ[i].header = managerQ[j].header => i = j
QueueCurrent == \A i \in 1..Len(managerQ) : managerQ[i].header = store.last => inflight = managerQ[i]
QueueFirst ==
    \A i \in 1..Len(managerQ) : \A b \in known :
        b.header = managerQ[i].header => CertificateLost(b.header)

\* No certificate of a header in the making is sent or, unless lost, known.
GatherFirst ==
    Gathering =>
      /\ ~Sending(inflight.header)
      /\ \A b \in known : b.header = inflight.header => CertificateLost(b.header)

Certificates ==
    /\ Numbered /\ KnownStored /\ OneCertificate
    /\ QueueApart /\ QueueCurrent /\ QueueFirst /\ GatherFirst

\* A header that can no longer commit: an output has a later own header, or its
\* leader is GcDepth rounds ahead.
Passed(h) ==
    \E o \in outputs : (\E g \in o.own : h.round < g.round) \/ h.round <= o.round - GcDepth

\* A state of the store knows its commit and the last own round up to it.
SnapCommitted(s, done) ==
    /\ s.commit = 0 \/ \E o \in done : o.round = s.commit
    /\ \A o \in done : o.round <= s.commit => \A g \in o.own : g.round <= s.own

OutputsApart ==
    /\ \A o \in outputs : o.round \in Nat /\ o.own \subseteq sent
    /\ \A o, p \in outputs : o.round = p.round => o = p

Requeued ==
    /\ OutputsApart
    /\ \A i \in 1..Len(snaps) : SnapCommitted(snaps[i], outputs)
    /\ \A i \in 1..Len(commitQ) :
         \E o \in outputs : commitQ[i].own = {g.round : g \in o.own}
    /\ \A h \in retired : Passed(h)

-----------------------------------------------------------------------------
(***************************************************************************)
(* Sequences, maxima and the store.                                        *)
(***************************************************************************)
\* A sequence over any set is one over its own elements.
LEMMA SequenceOf ==
    ASSUME NEW S, NEW s \in Seq(S)
    PROVE  /\ ASequence(s) /\ Len(s) \in Nat /\ DOMAIN s = 1..Len(s)
           /\ \A i \in 1..Len(s) : s[i] \in S
<1>1. Len(s) \in Nat /\ DOMAIN s = 1..Len(s) /\ \A i \in 1..Len(s) : s[i] \in S
  OBVIOUS
<1>2. s \in [1..Len(s) -> {s[i] : i \in DOMAIN s}]
  <2>1. s = [i \in 1..Len(s) |-> s[i]]
    OBVIOUS
  <2> QED BY <2>1, <1>1
<1>3. s \in Seq({s[i] : i \in DOMAIN s})
  BY <1>1, <1>2, SeqDef
<1> QED BY <1>1, <1>3 DEF ASequence

\* What a sender does to a channel.
LEMMA Appended ==
    ASSUME NEW s, ASequence(s), NEW e
    PROVE  /\ ASequence(Append(s, e)) /\ Len(s) \in Nat
           /\ Len(Append(s, e)) = Len(s) + 1
           /\ \A i \in 1..Len(s) : Append(s, e)[i] = s[i]
           /\ Append(s, e)[Len(s) + 1] = e
<1> DEFINE S == {s[i] : i \in DOMAIN s} \cup {e}
<1>1. s \in Seq({s[i] : i \in DOMAIN s})
  BY DEF ASequence
<1>2. s \in Seq(S) /\ e \in S
  <2> DEFINE R == {s[i] : i \in DOMAIN s}
  <2>1. s \in Seq(R) /\ R \subseteq S
    BY <1>1
  <2> HIDE DEF R, S
  <2>2. s \in Seq(S)
    BY <2>1, SeqMonotonic
  <2> QED BY <2>2 DEF S
<1> HIDE DEF S
<1>3. Append(s, e) \in Seq(S)
  BY <1>2
<1>4. ASequence(Append(s, e))
  BY <1>3, SequenceOf
<1> QED BY <1>2, <1>4

\* What a receiver does to a channel.
LEMMA Received ==
    ASSUME NEW s, ASequence(s), s # <<>>
    PROVE  /\ ASequence(Tail(s)) /\ Len(s) \in Nat /\ Len(s) >= 1
           /\ Len(Tail(s)) = Len(s) - 1 /\ Head(s) = s[1]
           /\ \A i \in 1..Len(Tail(s)) : i + 1 \in 1..Len(s) /\ Tail(s)[i] = s[i + 1]
<1> DEFINE S == {s[i] : i \in DOMAIN s}
<1>1. s \in Seq(S)
  BY DEF ASequence
<1> HIDE DEF S
<1>2. Tail(s) \in Seq(S)
  BY <1>1
<1>3. ASequence(Tail(s))
  BY <1>2, SequenceOf
<1> QED BY <1>1, <1>3

\* A part of a sequence.
LEMMA Part ==
    ASSUME NEW s, ASequence(s), NEW m \in Nat, NEW n \in Nat, 1 <= m, m <= n, n <= Len(s)
    PROVE  /\ ASequence(SubSeq(s, m, n)) /\ Len(SubSeq(s, m, n)) = n - m + 1
           /\ \A i \in 1 .. n - m + 1 : SubSeq(s, m, n)[i] = s[m + i - 1]
<1> DEFINE S == {s[i] : i \in DOMAIN s}
<1>1. s \in Seq(S)
  BY DEF ASequence
<1> HIDE DEF S
<1>2. SubSeq(s, m, n) \in Seq(S)
  BY <1>1
<1>3. ASequence(SubSeq(s, m, n))
  BY <1>2, SequenceOf
<1>4. Len(SubSeq(s, m, n)) = n - m + 1
  BY <1>1
<1>5. \A i \in 1 .. n - m + 1 : SubSeq(s, m, n)[i] = s[m + i - 1]
  BY <1>1
<1> QED BY <1>3, <1>4, <1>5

\* A nonempty set of natural numbers has a least element.
LEMMA LeastNatural ==
    ASSUME NEW T, T \subseteq Nat, T # {}
    PROVE  \E x \in T : \A y \in T : x <= y
<1> DEFINE R == OpToRel(<, Nat)
<1>1. IsWellFoundedOn(R, Nat)
  BY NatLessThanWellFounded
<1>2. \E x \in T : \A y \in T : ~(<<y, x>> \in R)
  <2> HIDE DEF R
  <2> QED BY <1>1, WFMin
<1>3. \A x, y \in Nat : x < y => <<x, y>> \in R
  BY DEF OpToRel
<1> HIDE DEF R
<1>4. PICK x \in T : \A y \in T : ~(<<y, x>> \in R)
  BY <1>2
<1>5. \A y \in T : y \in Nat /\ x \in Nat /\ ~(y < x)
  BY <1>3, <1>4
<1>6. \A y \in T : x <= y
  BY <1>5
<1> QED BY <1>6

\* Max of a bounded set of rounds.
LEMMA MaxRounds ==
    ASSUME NEW S, NEW b \in Nat, S \subseteq 0..b, S # {}
    PROVE  Max(S) \in S /\ \A x \in S : x <= Max(S)
<1> DEFINE T == {b - x : x \in S}
<1>1. T \subseteq Nat /\ T # {}
  <2>1. \A x \in S : x \in Int /\ 0 <= x /\ x <= b
    OBVIOUS
  <2>2. \A x \in S : b - x \in Nat
    BY <2>1
  <2> QED BY <2>2
<1>2. PICK t \in T : \A y \in T : t <= y
  <2> HIDE DEF T
  <2> QED BY <1>1, LeastNatural
<1>3. PICK m \in S : t = b - m
  BY <1>2
<1>4. \A x \in S : m >= x
  <2> SUFFICES ASSUME NEW x \in S PROVE m >= x
    OBVIOUS
  <2>1. b - m <= b - x
    BY <1>2, <1>3
  <2>2. m \in Int /\ x \in Int
    OBVIOUS
  <2> QED BY <2>1, <2>2
<1>5. \E m2 \in S : \A x \in S : m2 >= x
  BY <1>4
<1>6. Max(S) \in S /\ \A x \in S : Max(S) >= x
  BY <1>5, Zenon DEF Max
<1>7. \A x \in S : x \in Int
  OBVIOUS
<1> QED BY <1>6, <1>7

\* Max and Min of two numbers.
LEMMA TwoNumbers ==
    ASSUME NEW a \in Int, NEW b \in Int
    PROVE  /\ Max({a, b}) \in {a, b} /\ Max({a, b}) >= a /\ Max({a, b}) >= b
           /\ Min({a, b}) \in {a, b} /\ Min({a, b}) <= a /\ Min({a, b}) <= b
<1>1. \E x \in {a, b} : \A y \in {a, b} : x >= y
  <2>1. a >= b \/ b >= a
    OBVIOUS
  <2> QED BY <2>1
<1>2. Max({a, b}) \in {a, b} /\ \A y \in {a, b} : Max({a, b}) >= y
  BY <1>1, Zenon DEF Max
<1>3. \E x \in {a, b} : \A y \in {a, b} : x =< y
  <2>1. a <= b \/ b <= a
    OBVIOUS
  <2> QED BY <2>1
<1>4. Min({a, b}) \in {a, b} /\ \A y \in {a, b} : Min({a, b}) =< y
  BY <1>3, Zenon DEF Min
<1> QED BY <1>2, <1>4

\* A write is the last state of the store; before it is a suffix of the earlier
\* states.
LEMMA Written ==
    ASSUME NEW s, ASequence(snaps), Len(snaps) >= 1, Write(s)
    PROVE  /\ ASequence(snaps') /\ Len(snaps') >= 1 /\ store' = s
           /\ Len(snaps) \in Nat /\ Len(snaps') \in Nat
           /\ \E m \in 0..Len(snaps) :
                /\ Len(snaps') = Len(snaps) + 1 - m
                /\ snaps'[Len(snaps')] = s
                /\ \A j \in 1 .. Len(snaps) - m : j + m \in 1..Len(snaps) /\ snaps'[j] = snaps[j + m]
<1> DEFINE all == Append(snaps, s)
<1> DEFINE f == Max({1, Len(all) - MaxUnflushed})
<1>1. /\ ASequence(all) /\ Len(snaps) \in Nat /\ Len(all) = Len(snaps) + 1
      /\ \A i \in 1..Len(snaps) : all[i] = snaps[i]
      /\ all[Len(snaps) + 1] = s
  BY Appended
<1>2. snaps' = SubSeq(all, f, Len(all))
  BY DEF Write
<1>3. MaxUnflushed \in Nat
  BY BoundAssumption
<1> HIDE DEF all
<1>4. f \in Nat /\ 1 <= f /\ f <= Len(all)
  <2>1. Len(all) - MaxUnflushed \in Int /\ Len(all) - MaxUnflushed <= Len(all) /\ 1 <= Len(all)
    BY <1>1, <1>3
  <2>2. 1 \in Int
    OBVIOUS
  <2>3. f \in {1, Len(all) - MaxUnflushed} /\ f >= 1
    BY <2>1, <2>2, TwoNumbers, Zenon
  <2> HIDE DEF f
  <2> QED BY <2>1, <2>3, <1>1
<1> HIDE DEF f
<1>5. /\ ASequence(snaps') /\ Len(snaps') = Len(all) - f + 1
      /\ \A i \in 1 .. Len(all) - f + 1 : snaps'[i] = all[f + i - 1]
  <2>1. Len(all) \in Nat
    BY <1>1
  <2> QED BY <1>1, <1>2, <1>4, <2>1, Part
<1>6. Len(snaps') \in Nat /\ Len(snaps') >= 1
  BY <1>1, <1>4, <1>5
<1>7. snaps'[Len(snaps')] = s
  <2>1. Len(all) - f + 1 \in 1 .. Len(all) - f + 1 /\ f + (Len(all) - f + 1) - 1 = Len(snaps) + 1
    BY <1>1, <1>4
  <2> QED BY <2>1, <1>1, <1>5
<1>8. store' = s
  BY <1>7 DEF store
<1> DEFINE m == f - 1
<1>9. m \in 0..Len(snaps) /\ Len(snaps') = Len(snaps) + 1 - m
  BY <1>1, <1>4, <1>5
<1>10. ASSUME NEW j \in 1 .. Len(snaps) - m
       PROVE  j + m \in 1..Len(snaps) /\ snaps'[j] = snaps[j + m]
  <2>1. j + m \in 1..Len(snaps) /\ f + j - 1 = j + m /\ j \in 1 .. Len(all) - f + 1
    BY <1>1, <1>4
  <2> QED BY <2>1, <1>1, <1>5
<1> HIDE DEF m
<1> QED BY <1>1, <1>5, <1>6, <1>7, <1>8, <1>9, <1>10

\* A write leaves every state the store may fall back to as it was or is the
\* new one.
LEMMA OldOrNew ==
    ASSUME NEW s, ASequence(snaps), Len(snaps) >= 1, Write(s)
    PROVE  \A j \in 1..Len(snaps') :
              snaps'[j] = s \/ \E i \in 1..Len(snaps) : snaps'[j] = snaps[i]
<1>1. Len(snaps) \in Nat /\ Len(snaps') \in Nat
  BY Written
<1>2. PICK m \in 0..Len(snaps) :
        /\ Len(snaps') = Len(snaps) + 1 - m
        /\ snaps'[Len(snaps')] = s
        /\ \A j \in 1 .. Len(snaps) - m : j + m \in 1..Len(snaps) /\ snaps'[j] = snaps[j + m]
  BY Written
<1> SUFFICES ASSUME NEW j \in 1..Len(snaps')
             PROVE  snaps'[j] = s \/ \E i \in 1..Len(snaps) : snaps'[j] = snaps[i]
  OBVIOUS
<1>3. j = Len(snaps') \/ j \in 1 .. Len(snaps) - m
  BY <1>1, <1>2
<1> QED BY <1>2, <1>3

\* A restart and a crash: the tasks start on one of the states the store may
\* fall back to, and what lies behind it is lost.
Begin(k) ==
    /\ Start(snaps[k]) /\ Stopped(snaps[k])
    /\ ASequence(snaps') /\ Len(snaps') = k /\ store' = snaps[k]
    /\ \A i \in 1..k : snaps'[i] = snaps[i]
    /\ lost \subseteq lost'
    /\ \A i \in k..Len(snaps) : snaps[i].last = snaps[k].last \/ snaps[i].last \in lost'
    /\ \A c \in store.certs : c \in snaps[k].certs \/ c \in lost'

\* Restart and Crash both begin on a state the store may fall back to.
LEMMA Begun ==
    ASSUME ASequence(snaps), Len(snaps) >= 1,
           Restart \/ \E k \in 1 .. Len(snaps) - 1 : Crash(k)
    PROVE  Len(snaps) \in Nat /\ \E k \in 1..Len(snaps) : Begin(k)
<1>1. Len(snaps) \in Nat
  BY Appended
<1>2. ASSUME Restart PROVE Begin(Len(snaps))
  <2>1. snaps' = snaps /\ lost' = lost
    BY <1>2 DEF Restart
  <2>2. store = snaps[Len(snaps)] /\ store' = snaps[Len(snaps)]
    BY <2>1 DEF store
  <2>3. Start(snaps[Len(snaps)]) /\ Stopped(snaps[Len(snaps)])
    BY <1>2, <2>2, Zenon DEF Restart
  <2>4. \A i \in Len(snaps)..Len(snaps) : i = Len(snaps)
    BY <1>1
  <2> QED BY <2>1, <2>2, <2>3, <2>4, Zenon DEF Begin
<1>3. ASSUME NEW k \in 1 .. Len(snaps) - 1, Crash(k) PROVE Begin(k)
  <2>1. k \in Nat /\ 1 <= k /\ k <= Len(snaps)
    BY <1>1
  <2>2. /\ Start(snaps[k]) /\ Stopped(snaps[k]) /\ snaps' = SubSeq(snaps, 1, k)
        /\ lost' = lost \cup ({snaps[i].last : i \in k..Len(snaps)} \ {snaps[k].last})
                        \cup (store.certs \ snaps[k].certs)
    BY <1>3, Zenon DEF Crash
  <2>3. /\ ASequence(snaps') /\ Len(snaps') = k - 1 + 1
        /\ \A i \in 1 .. k - 1 + 1 : snaps'[i] = snaps[1 + i - 1]
    BY <2>1, <2>2, Part
  <2>4. Len(snaps') = k /\ \A i \in 1..k : snaps'[i] = snaps[i]
    BY <2>1, <2>3
  <2>5. store' = snaps[k]
    <3>1. k \in 1..k
      BY <2>1
    <3> QED BY <2>4, <3>1 DEF store
  <2>6. lost \subseteq lost'
    BY <2>2, Zenon
  <2>7. \A i \in k..Len(snaps) : snaps[i].last = snaps[k].last \/ snaps[i].last \in lost'
    BY <2>2, Zenon
  <2>8. \A c \in store.certs : c \in snaps[k].certs \/ c \in lost'
    BY <2>2, Zenon
  <2> QED BY <2>2, <2>3, <2>4, <2>5, <2>6, <2>7, <2>8, Zenon DEF Begin
<1>4. Len(snaps) \in 1..Len(snaps) /\ \A k \in 1 .. Len(snaps) - 1 : k \in 1..Len(snaps)
  BY <1>1
<1> QED BY <1>1, <1>2, <1>3, <1>4, Zenon

-----------------------------------------------------------------------------
(***************************************************************************)
(* The shape of the state.                                                 *)
(***************************************************************************)
\* The store in a step that writes nothing, one state, or starts again.
LEMMA StoreShapeStep ==
    ASSUME StoreShape, sent \subseteq sent', known \subseteq known', IsFiniteSet(sent'),
           \A h \in sent' : h.round \in 1..MaxRound /\ h.n \in Nat,
           \A c \in known' : c.header \in sent',
           \/ snaps' = snaps
           \/ \E s : Write(s) /\ SnapShape(s, sent', known')
           \/ \E k \in 1..Len(snaps) : Begin(k)
    PROVE  StoreShape'
<1>1. ASequence(snaps) /\ Len(snaps) >= 1 /\ \A i \in 1..Len(snaps) : SnapShape(snaps[i], sent, known)
  BY DEF StoreShape
<1>2. \A s : SnapShape(s, sent, known) => SnapShape(s, sent', known')
  BY Zenon DEF SnapShape
<1>3. ASequence(snaps') /\ Len(snaps') >= 1 /\ \A i \in 1..Len(snaps') : SnapShape(snaps'[i], sent', known')
  <2>1. CASE snaps' = snaps
    BY <1>1, <1>2, <2>1, Zenon
  <2>2. ASSUME NEW s, Write(s), SnapShape(s, sent', known')
        PROVE  ASequence(snaps') /\ Len(snaps') >= 1 /\ \A i \in 1..Len(snaps') : SnapShape(snaps'[i], sent', known')
    <3>1. ASequence(snaps') /\ Len(snaps') >= 1
      BY <1>1, <2>2, Written, Zenon
    <3>2. \A j \in 1..Len(snaps') : snaps'[j] = s \/ \E i \in 1..Len(snaps) : snaps'[j] = snaps[i]
      BY <1>1, <2>2, OldOrNew, Zenon
    <3> QED BY <1>1, <1>2, <2>2, <3>1, <3>2, Zenon
  <2>3. ASSUME NEW k \in 1..Len(snaps), Begin(k)
        PROVE  ASequence(snaps') /\ Len(snaps') >= 1 /\ \A i \in 1..Len(snaps') : SnapShape(snaps'[i], sent', known')
    <3>1. ASequence(snaps') /\ Len(snaps') = k /\ \A i \in 1..k : snaps'[i] = snaps[i]
      BY <2>3, Zenon DEF Begin
    <3>2. Len(snaps) \in Nat
      BY <1>1, Appended
    <3>3. k >= 1 /\ \A i \in 1..k : i \in 1..Len(snaps)
      BY <3>2
    <3> QED BY <1>1, <1>2, <3>1, <3>3, Zenon
  <2> QED BY <2>1, <2>2, <2>3, Zenon
<1> QED BY <1>3, Zenon DEF StoreShape

\* The last state of the store is one of its states.
LEMMA StoreIsSnap ==
    ASSUME StoreShape
    PROVE  Len(snaps) \in Nat /\ Len(snaps) \in 1..Len(snaps) /\ store = snaps[Len(snaps)]
           /\ SnapShape(store, sent, known)
<1>1. ASequence(snaps) /\ Len(snaps) >= 1 /\ \A i \in 1..Len(snaps) : SnapShape(snaps[i], sent, known)
  BY DEF StoreShape
<1>2. Len(snaps) \in Nat
  BY <1>1, Appended
<1>3. Len(snaps) \in 1..Len(snaps)
  BY <1>1, <1>2
<1>4. store = snaps[Len(snaps)]
  BY DEF store
<1> QED BY <1>1, <1>2, <1>3, <1>4, Zenon

\* Rounds of the store are numbers.
LEMMA SnapRounds ==
    ASSUME StoreShape, NEW s, SnapShape(s, sent, known)
    PROVE  /\ s.last.round \in Nat /\ s.last.round <= MaxRound /\ s.last.round <= s.top + 1
           /\ s.top \in Nat /\ s.commit \in Nat /\ s.own \in Nat
<1>1. s.top \in Nat /\ s.commit \in Nat /\ s.own \in Nat /\ s.last.round <= s.top + 1
  BY DEF SnapShape
<1>2. MaxRound \in Nat
  BY BoundAssumption
<1>3. CASE s.last = NoHeader
  <2>1. NoHeader.round = 0
    BY DEF NoHeader, Header
  <2> QED BY <1>1, <1>2, <1>3, <2>1
<1>4. CASE s.last \in sent
  <2>1. s.last.round \in 1..MaxRound
    BY <1>4, Zenon DEF StoreShape
  <2> QED BY <1>1, <1>2, <2>1
<1> QED BY <1>3, <1>4, Zenon DEF SnapShape

\* propose_next_header and repropose_header send the stored header again or a
\* new one.
Again ==
    /\ store_and_send_header(store.last) /\ store.last # NoHeader
    /\ \/ round' = round /\ parents' = parents
       \/ parents /\ round' = round + 1 /\ parents' = FALSE /\ store.last.round = round + 1

Anew(h) ==
    /\ store_and_send_header(h) /\ parents /\ round < MaxRound
    /\ round' = round + 1 /\ parents' = FALSE
    /\ store.last.round # round + 1 /\ h.round = round + 1
    /\ h.n = 1 + Cardinality({g \in sent : g.round = round + 1})

\* A proposal sends the last header again or a new one.
LEMMA Proposing ==
    ASSUME ProposerShape, propose_next_header \/ repropose_header
    PROVE  Again \/ \E h : Anew(h)
<1>1. CASE repropose_header
  BY <1>1, Zenon DEF repropose_header, Again
<1>2. CASE propose_next_header
  <2>1. parents /\ round < MaxRound /\ round' = round + 1 /\ parents' = FALSE
    BY <1>2, Zenon DEF propose_next_header
  <2>2. CASE store.last.round = round + 1
    <3>1. store_and_send_header(store.last)
      BY <1>2, <2>2, Zenon DEF propose_next_header
    <3>2. store.last # NoHeader
      <4>1. NoHeader.round = 0 /\ round + 1 # 0
        BY DEF NoHeader, Header, ProposerShape
      <4> QED BY <2>2, <4>1, Zenon
    <3> QED BY <2>1, <2>2, <3>1, <3>2, Zenon DEF Again
  <2>3. CASE store.last.round # round + 1
    <3> DEFINE n == 1 + Cardinality({h \in sent : h.round = round + 1})
    <3>1. PICK p : store_and_send_header(Header(round + 1, p, n))
      BY <1>2, <2>3, Zenon DEF propose_next_header
    <3>2. Header(round + 1, p, n).round = round + 1 /\ Header(round + 1, p, n).n = n
      BY DEF Header
    <3> QED BY <2>1, <2>3, <3>1, <3>2, Zenon DEF Anew
  <2> QED BY <2>2, <2>3, Zenon
<1> QED BY <1>1, <1>2, Zenon

\* The writes of the model: each sets its fields and keeps the others.
Snap(last, certs, top, commit, own) ==
    [last |-> last, certs |-> certs, top |-> top, commit |-> commit, own |-> own]

\* The fields of a snapshot put together from five values.
LEMMA SnapFields ==
    ASSUME NEW l, NEW c, NEW t, NEW m, NEW o
    PROVE  /\ Snap(l, c, t, m, o).last = l /\ Snap(l, c, t, m, o).certs = c
           /\ Snap(l, c, t, m, o).top = t /\ Snap(l, c, t, m, o).commit = m
           /\ Snap(l, c, t, m, o).own = o /\ IsASnap(Snap(l, c, t, m, o))
BY DEF Snap, IsASnap

Updates(s, v, w) ==
    /\ [s EXCEPT !.last = v] = Snap(v, s.certs, s.top, s.commit, s.own)
    /\ [s EXCEPT !.certs = v] = Snap(s.last, v, s.top, s.commit, s.own)
    /\ [s EXCEPT !.top = v] = Snap(s.last, s.certs, v, s.commit, s.own)
    /\ [s EXCEPT !.commit = v, !.own = w] = Snap(s.last, s.certs, s.top, v, w)

\* A snapshot with a field replaced is one put together from the others.
LEMMA SnapUpdates ==
    ASSUME NEW s, IsASnap(s), NEW v, NEW w
    PROVE  Updates(s, v, w)
<1>1. s = [last |-> s.last, certs |-> s.certs, top |-> s.top, commit |-> s.commit, own |-> s.own]
  BY DEF IsASnap
<1> DEFINE l == s.last
<1> DEFINE c == s.certs
<1> DEFINE t == s.top
<1> DEFINE m == s.commit
<1> DEFINE o == s.own
<1>2. s = [last |-> l, certs |-> c, top |-> t, commit |-> m, own |-> o]
  BY <1>1
<1> HIDE DEF l, c, t, m, o
<1>3. [s EXCEPT !.last = v] = Snap(v, c, t, m, o)
  BY <1>2 DEF Snap
<1>4. [s EXCEPT !.certs = v] = Snap(l, v, t, m, o)
  BY <1>2 DEF Snap
<1>5. [s EXCEPT !.top = v] = Snap(l, c, v, m, o)
  BY <1>2 DEF Snap
<1>6. [s EXCEPT !.commit = v, !.own = w] = Snap(l, c, t, v, w)
  <2>1. [s EXCEPT !.commit = v, !.own = w] = [[s EXCEPT !.commit = v] EXCEPT !.own = w]
    OBVIOUS
  <2>2. [s EXCEPT !.commit = v] = Snap(l, c, t, v, o)
    BY <1>2 DEF Snap
  <2>3. [Snap(l, c, t, v, o) EXCEPT !.own = w] = Snap(l, c, t, v, w)
    BY DEF Snap
  <2> QED BY <2>1, <2>2, <2>3, Zenon
<1> QED BY <1>3, <1>4, <1>5, <1>6, Zenon DEF Updates, l, c, t, m, o

\* The store after a write, field by field, and its shape.
LEMMA StoreAfter ==
    ASSUME StoreShape, NEW l, NEW c, NEW t, NEW m, NEW o, Write(Snap(l, c, t, m, o))
    PROVE  /\ store'.last = l /\ store'.certs = c /\ store'.top = t
           /\ store'.commit = m /\ store'.own = o
<1>1. store' = Snap(l, c, t, m, o)
  <2>1. ASequence(snaps) /\ Len(snaps) >= 1
    BY DEF StoreShape
  <2> QED BY <2>1, Written, Zenon
<1> QED BY <1>1, SnapFields

\* The same for the store, whose updates are what the node writes.
LEMMA StoreUpdates ==
    ASSUME StoreShape, NEW v, NEW w
    PROVE  Updates(store, v, w)
<1>1. IsASnap(store)
  BY StoreIsSnap, Zenon DEF SnapShape
<1> QED BY <1>1, SnapUpdates, Zenon

\* store_and_send_header.
LEMMA SendStore ==
    ASSUME StoreShape, NEW h, store_and_send_header(h)
    PROVE  /\ Write(Snap(h, store.certs, store.top, store.commit, store.own))
           /\ store'.last = h /\ store'.certs = store.certs /\ store'.top = store.top
           /\ store'.commit = store.commit /\ store'.own = store.own
<1>1. Write([store EXCEPT !.last = h])
  BY Zenon DEF store_and_send_header
<1>2. Write(Snap(h, store.certs, store.top, store.commit, store.own))
  BY <1>1, StoreUpdates, Zenon DEF Updates
<1> QED BY <1>2, StoreAfter, Zenon

\* store_and_send_header of a header of the epoch keeps Shape.
LEMMA SendShape ==
    ASSUME Shape, NEW h, store_and_send_header(h),
           h.round \in 1..MaxRound, h.n \in Nat, h.round <= store.top + 1
    PROVE  StoreShape' /\ CertifierShape'
<1>1. StoreShape /\ CertifierShape
  BY DEF Shape
<1>2. sent' = sent \cup {h} /\ known' = known /\ managerQ' = managerQ
  BY DEF store_and_send_header
<1>3. inflight' = inflight \/ inflight' = Certificate(h, {})
  BY Zenon DEF store_and_send_header
<1>4. StoreShape'
  <2> DEFINE s == Snap(h, store.certs, store.top, store.commit, store.own)
  <2>1. Write(s)
    BY <1>1, SendStore, Zenon
  <2>2. s.last = h /\ s.certs = store.certs /\ s.top = store.top
        /\ s.commit = store.commit /\ s.own = store.own /\ IsASnap(s)
    BY SnapFields
  <2> HIDE DEF s
  <2>3. SnapShape(store, sent, known)
    BY <1>1, StoreIsSnap, Zenon
  <2>4. SnapShape(s, sent', known')
    BY <1>2, <2>2, <2>3, Zenon DEF SnapShape
  <2>5. IsFiniteSet(sent')
    <3>1. IsFiniteSet(sent)
      BY <1>1 DEF StoreShape
    <3> QED BY <1>2, <3>1, FS_AddElement, Zenon
  <2>6. \A g \in sent' : g.round \in 1..MaxRound /\ g.n \in Nat
    BY <1>1, <1>2, Zenon DEF StoreShape
  <2>7. (\A c \in known' : c.header \in sent') /\ sent \subseteq sent' /\ known \subseteq known'
    BY <1>1, <1>2, Zenon DEF StoreShape
  <2> QED BY <1>1, <2>1, <2>4, <2>5, <2>6, <2>7, StoreShapeStep, Zenon
<1>5. CertifierShape'
  <2>1. Certificate(h, {}).header = h
    BY DEF Certificate
  <2> QED BY <1>1, <1>2, <1>3, <2>1, Zenon DEF CertifierShape
<1> QED BY <1>4, <1>5

\* The shape is kept by the proposer's sends.
LEMMA AgainShape ==
    ASSUME Shape, Again
    PROVE  Shape'
<1>1. StoreShape /\ ProposerShape /\ CertifierShape /\ store_and_send_header(store.last)
  BY DEF Shape, Again
<1>2. SnapShape(store, sent, known) /\ store.last # NoHeader
  BY <1>1, StoreIsSnap, Zenon DEF Again
<1>3. store.last \in sent /\ store.last.round <= store.top + 1
  BY <1>2, Zenon DEF SnapShape
<1>4. store.last.round \in 1..MaxRound /\ store.last.n \in Nat
  BY <1>1, <1>3, Zenon DEF StoreShape
<1>5. StoreShape' /\ CertifierShape'
  BY <1>1, <1>3, <1>4, SendShape, Zenon
<1>6. store'.top = store.top
  BY <1>1, SendStore, Zenon
<1>7. /\ sent' = sent \cup {store.last} /\ pending' = store.last /\ proposed' = proposed
      /\ parentsQ' = parentsQ /\ commitQ' = commitQ /\ rewound' = rewound
  BY <1>1, Zenon DEF store_and_send_header
<1>8. round' \in Nat /\ parents' \in BOOLEAN /\ (parents' => round' <= store'.top)
  <2>1. CASE round' = round /\ parents' = parents
    BY <1>1, <1>6, <2>1, Zenon DEF ProposerShape
  <2>2. CASE round' = round + 1 /\ parents' = FALSE
    <3>1. round + 1 \in Nat
      BY <1>1 DEF ProposerShape
    <3> QED BY <2>2, <3>1, Zenon
  <2> QED BY <2>1, <2>2, Zenon DEF Again
<1>9. ProposerShape'
  BY <1>1, <1>6, <1>7, <1>8, Zenon DEF ProposerShape
<1> QED BY <1>5, <1>9 DEF Shape

\* A new header keeps Shape.
LEMMA AnewShape ==
    ASSUME Shape, NEW h, Anew(h)
    PROVE  Shape' /\ h.round \in 1..MaxRound /\ h.n \in Nat
<1>1. StoreShape /\ ProposerShape /\ CertifierShape /\ store_and_send_header(h)
  BY DEF Shape, Anew
<1>2. /\ parents /\ round < MaxRound /\ round' = round + 1 /\ parents' = FALSE /\ h.round = round + 1
      /\ h.n = 1 + Cardinality({g \in sent : g.round = round + 1})
  BY Zenon DEF Anew
<1>3. round <= store.top /\ round \in Nat
  BY <1>1, <1>2, Zenon DEF ProposerShape
<1>4. h.round \in 1..MaxRound /\ h.round <= store.top + 1
  <2>1. MaxRound \in Nat
    BY BoundAssumption
  <2>2. store.top \in Nat
    BY <1>1, StoreIsSnap, SnapRounds, Zenon
  <2> QED BY <1>2, <1>3, <2>1, <2>2
<1>5. h.n \in Nat
  <2> DEFINE G == {g \in sent : g.round = round + 1}
  <2>1. IsFiniteSet(G)
    <3>1. IsFiniteSet(sent) /\ G \subseteq sent
      BY <1>1 DEF StoreShape
    <3> QED BY <3>1, FS_Subset, Zenon
  <2>2. Cardinality(G) \in Nat
    BY <2>1, FS_CardinalityType
  <2> HIDE DEF G
  <2>3. 1 + Cardinality(G) \in Nat
    BY <2>2
  <2> QED BY <1>2, <2>3 DEF G
<1>6. StoreShape' /\ CertifierShape'
  BY <1>1, <1>4, <1>5, SendShape, Zenon
<1>7. store'.top = store.top
  BY <1>1, SendStore, Zenon
<1>8. /\ sent' = sent \cup {h} /\ pending' = h /\ proposed' = proposed
      /\ parentsQ' = parentsQ /\ commitQ' = commitQ /\ rewound' = rewound
  BY <1>1, Zenon DEF store_and_send_header
<1>9. round' \in Nat
  BY <1>2, <1>3
<1>10. ProposerShape'
  BY <1>1, <1>2, <1>7, <1>8, <1>9, Zenon DEF ProposerShape
<1> QED BY <1>4, <1>5, <1>6, <1>10 DEF Shape

\* Steps that leave the store alone.
LEMMA StoreSame ==
    ASSUME snaps' = snaps
    PROVE  store' = store
BY Zenon DEF store

\* StoreShape does not look at the proposer or the certifier.
LEMMA StoreShapeSame ==
    ASSUME StoreShape, snaps' = snaps, sent' = sent, known' = known
    PROVE  StoreShape'
BY Zenon DEF StoreShape

\* CertifierShape survives the end of the task in flight.
LEMMA CertifierShapeSame ==
    ASSUME CertifierShape, managerQ' = managerQ, inflight' = inflight \/ inflight' = NoProposal,
           sent' = sent
    PROVE  CertifierShape'
BY Zenon DEF CertifierShape

\* ProposerShape survives a write that keeps the stored round.
LEMMA ProposerShapeSame ==
    ASSUME ProposerShape, store'.top = store.top, round' = round, parents' = parents,
           parentsQ' = parentsQ, rewound' = rewound, sent' = sent,
           ASequence(commitQ'), proposed' \subseteq sent, pending' \in sent \cup {NoHeader}
    PROVE  ProposerShape'
BY Zenon DEF ProposerShape

\* process_parents, arithmetic.
LEMMA JumpRound ==
    ASSUME NEW r \in Nat, NEW q \in Nat, NEW t \in Nat, q <= t
    PROVE  /\ Max({r, q}) \in Nat /\ Max({r, q}) >= r /\ Max({r, q}) >= q
           /\ q >= r => Max({r, q}) = q
           /\ ~(q >= r) => Max({r, q}) = r
<1>1. Max({r, q}) \in {r, q} /\ Max({r, q}) >= r /\ Max({r, q}) >= q
  <2>1. r \in Int /\ q \in Int
    OBVIOUS
  <2> QED BY <2>1, TwoNumbers, Zenon
<1> DEFINE x == Max({r, q})
<1>2. x \in {r, q} /\ x >= r /\ x >= q
  BY <1>1
<1> HIDE DEF x
<1>3. x \in Nat /\ x >= r /\ x >= q /\ (q >= r => x = q) /\ (~(q >= r) => x = r)
  BY <1>2
<1> QED BY <1>3 DEF x

\* process_parents takes the round from the front of its channel.
LEMMA ParentsTaken ==
    ASSUME Shape, process_parents
    PROVE  /\ Len(parentsQ) \in Nat /\ 1 \in 1..Len(parentsQ) /\ parentsQ[1] \in Nat
           /\ parentsQ[1] <= store.top
           /\ round' \in Nat /\ round' >= round
           /\ parentsQ[1] >= round => round' = parentsQ[1]
           /\ ~(parentsQ[1] >= round) => round' = round /\ (parents' => parents)
           /\ parents' \in BOOLEAN /\ parentsQ' \in Seq(Nat)
           /\ \A i \in 1..Len(parentsQ') : i + 1 \in 1..Len(parentsQ) /\ parentsQ'[i] = parentsQ[i + 1]
           /\ snaps' = snaps /\ store' = store
<1>1. /\ parentsQ # <<>> /\ parentsQ' = Tail(parentsQ)
      /\ round' = Max({round, Head(parentsQ)})
      /\ parents' = (parents \/ Head(parentsQ) >= round)
      /\ snaps' = snaps
  BY Zenon DEF process_parents
<1>2. /\ parentsQ \in Seq(Nat) /\ round \in Nat
      /\ \A i \in 1..Len(parentsQ) : parentsQ[i] <= store.top
  BY Zenon DEF Shape, ProposerShape
<1>3. /\ Len(parentsQ) \in Nat /\ 1 \in 1..Len(parentsQ) /\ Head(parentsQ) = parentsQ[1]
      /\ parentsQ[1] \in Nat /\ Tail(parentsQ) \in Seq(Nat)
      /\ \A i \in 1..Len(Tail(parentsQ)) :
            i + 1 \in 1..Len(parentsQ) /\ Tail(parentsQ)[i] = parentsQ[i + 1]
  BY <1>1, <1>2
<1>4. parentsQ[1] <= store.top /\ store.top \in Nat
  BY <1>2, <1>3, StoreIsSnap, SnapRounds, Zenon DEF Shape
<1>5. /\ round' \in Nat /\ round' >= round /\ round' >= parentsQ[1]
      /\ parentsQ[1] >= round => round' = parentsQ[1]
      /\ ~(parentsQ[1] >= round) => round' = round
  <2>1. round' = Max({round, parentsQ[1]})
    BY <1>1, <1>3, Zenon
  <2>2. /\ Max({round, parentsQ[1]}) \in Nat
        /\ Max({round, parentsQ[1]}) >= round /\ Max({round, parentsQ[1]}) >= parentsQ[1]
        /\ parentsQ[1] >= round => Max({round, parentsQ[1]}) = parentsQ[1]
        /\ ~(parentsQ[1] >= round) => Max({round, parentsQ[1]}) = round
    BY <1>2, <1>3, <1>4, JumpRound, Zenon
  <2> QED BY <2>1, <2>2, Zenon
<1>6. parents' \in BOOLEAN /\ (~(parentsQ[1] >= round) => (parents' => parents))
  BY <1>1, <1>3, Zenon
<1> QED BY <1>1, <1>3, <1>4, <1>5, <1>6, StoreSame, Zenon

\* process_parents keeps ProposerShape.
LEMMA ParentsShape ==
    ASSUME Shape, process_parents
    PROVE  Shape'
<1>1. /\ sent' = sent /\ known' = known /\ managerQ' = managerQ /\ inflight' = inflight
      /\ commitQ' = commitQ /\ proposed' = proposed /\ pending' = pending /\ rewound' = rewound
  BY Zenon DEF process_parents, certifierVars
<1>2. StoreShape' /\ CertifierShape'
  BY <1>1, ParentsTaken, StoreShapeSame, CertifierShapeSame, Zenon DEF Shape
<1>3. parents' => round' <= store'.top
  <2>1. CASE parentsQ[1] >= round
    BY <2>1, ParentsTaken, Zenon
  <2>2. CASE ~(parentsQ[1] >= round)
    BY <2>2, ParentsTaken, Zenon DEF Shape, ProposerShape
  <2> QED BY <2>1, <2>2
<1>4. \A i \in 1..Len(parentsQ') : parentsQ'[i] <= store'.top
  BY ParentsTaken, Zenon DEF Shape, ProposerShape
<1>5. ProposerShape'
  BY <1>1, <1>3, <1>4, ParentsTaken, Zenon DEF Shape, ProposerShape
<1> QED BY <1>2, <1>5 DEF Shape

\* Steps of the proposer on its headers.
LEMMA HeadersShape ==
    ASSUME Shape, process_committed_headers \/ handle_proposal_result \/ \E d \in Digest : push_digest(d)
    PROVE  Shape'
<1>1. /\ sent' = sent /\ known' = known /\ managerQ' = managerQ /\ inflight' = inflight
      /\ snaps' = snaps /\ round' = round /\ parents' = parents /\ parentsQ' = parentsQ
      /\ rewound' = rewound
  BY Zenon DEF process_committed_headers, handle_proposal_result, push_digest, certifierVars
<1>2. store'.top = store.top
  BY <1>1, StoreSame, Zenon
<1>3. ProposerShape
  BY DEF Shape
<1>4. ASequence(commitQ') /\ proposed' \subseteq sent /\ pending' \in sent \cup {NoHeader}
  <2>1. CASE process_committed_headers
    <3>1. /\ commitQ # <<>> /\ commitQ' = Tail(commitQ) /\ pending' = pending
          /\ proposed' \subseteq proposed
      BY <2>1, Zenon DEF process_committed_headers
    <3>2. ASequence(commitQ')
      BY <1>3, <3>1, Received, Zenon DEF ProposerShape
    <3> QED BY <1>3, <3>1, <3>2, Zenon DEF ProposerShape
  <2>2. CASE handle_proposal_result
    <3>1. /\ commitQ' = commitQ /\ pending # NoHeader /\ pending' = NoHeader
          /\ proposed' \subseteq proposed \cup {pending}
      BY <2>2, Zenon DEF handle_proposal_result
    <3> QED BY <1>3, <3>1, Zenon DEF ProposerShape
  <2>3. CASE \E d \in Digest : push_digest(d)
    <3>1. commitQ' = commitQ /\ pending' = pending /\ proposed' = proposed
      BY <2>3, Zenon DEF push_digest
    <3> QED BY <1>3, <3>1, Zenon DEF ProposerShape
  <2> QED BY <2>1, <2>2, <2>3
<1>5. ProposerShape'
  BY <1>1, <1>2, <1>3, <1>4, ProposerShapeSame, Zenon
<1>6. StoreShape' /\ CertifierShape'
  BY <1>1, StoreShapeSame, CertifierShapeSame, Zenon DEF Shape
<1> QED BY <1>5, <1>6 DEF Shape

\* The certifier forms a certificate or gives up.
LEMMA CertifyShape ==
    ASSUME Shape, GiveUp \/ \E s \in Signers : Certify(s)
    PROVE  Shape'
<1>1. StoreShape /\ ProposerShape /\ CertifierShape
  BY DEF Shape
<1>2. /\ snaps' = snaps /\ sent' = sent /\ round' = round /\ parents' = parents
      /\ parentsQ' = parentsQ /\ commitQ' = commitQ /\ rewound' = rewound
      /\ proposed' = proposed /\ pending' = pending
  BY Zenon DEF GiveUp, Certify, proposerVars
<1>3. ProposerShape'
  BY <1>1, <1>2, StoreSame, ProposerShapeSame, Zenon DEF ProposerShape
<1>4. CASE GiveUp
  <2>1. known' = known /\ managerQ' = managerQ /\ inflight' = NoProposal
    BY <1>4, Zenon DEF GiveUp
  <2> QED BY <1>1, <1>2, <1>3, <2>1, StoreShapeSame, CertifierShapeSame, Zenon DEF Shape
<1>5. ASSUME NEW s \in Signers, Certify(s) PROVE StoreShape' /\ CertifierShape'
  <2> DEFINE c == Certificate(inflight.header, s)
  <2>1. c.header = inflight.header /\ c.signers = s
    BY DEF Certificate
  <2>2. inflight.header \in sent
    BY <1>1, <1>5, Zenon DEF CertifierShape, Certify
  <2>3. /\ IsCertified(c.header) => inflight' = NoProposal /\ known' = known \cup {c} /\ managerQ' = managerQ
        /\ ~IsCertified(c.header) => inflight' = c /\ managerQ' = Append(managerQ, c) /\ known' = known
    BY <1>5, Zenon DEF Certify
  <2> HIDE DEF c
  <2>4. StoreShape'
    <3>1. known \subseteq known' /\ \A b \in known' : b.header \in sent'
      BY <1>1, <1>2, <2>1, <2>2, <2>3, Zenon DEF StoreShape
    <3>2. IsFiniteSet(sent') /\ (\A h \in sent' : h.round \in 1..MaxRound /\ h.n \in Nat) /\ sent \subseteq sent'
      BY <1>1, <1>2, Zenon DEF StoreShape
    <3> QED BY <1>1, <1>2, <3>1, <3>2, StoreShapeStep, Zenon
  <2>5. CertifierShape'
    <3>1. CASE IsCertified(c.header)
      BY <1>1, <1>2, <2>3, <3>1, CertifierShapeSame, Zenon
    <3>2. CASE ~IsCertified(c.header)
      <4>1. inflight' = c /\ managerQ' = Append(managerQ, c)
        BY <2>3, <3>2
      <4>2. /\ ASequence(Append(managerQ, c)) /\ Len(managerQ) \in Nat
            /\ Len(Append(managerQ, c)) = Len(managerQ) + 1
            /\ \A i \in 1..Len(managerQ) : Append(managerQ, c)[i] = managerQ[i]
            /\ Append(managerQ, c)[Len(managerQ) + 1] = c
        BY <1>1, Appended, Zenon DEF CertifierShape
      <4>3. \A i \in 1 .. Len(managerQ) + 1 : i \in 1..Len(managerQ) \/ i = Len(managerQ) + 1
        BY <4>2
      <4> QED BY <1>1, <1>2, <2>1, <2>2, <4>1, <4>2, <4>3, Zenon DEF CertifierShape
    <3> QED BY <3>1, <3>2
  <2> QED BY <2>4, <2>5
<1> QED BY <1>3, <1>4, <1>5, Zenon DEF Shape

\* A certificate is added to the store.
LEMMA CertStore ==
    ASSUME StoreShape, NEW c, Write([store EXCEPT !.certs = @ \cup {c}])
    PROVE  /\ Write(Snap(store.last, store.certs \cup {c}, store.top, store.commit, store.own))
           /\ store'.last = store.last /\ store'.certs = store.certs \cup {c} /\ store'.top = store.top
           /\ store'.commit = store.commit /\ store'.own = store.own
<1>1. Updates(store, store.certs \cup {c}, 0)
  BY StoreUpdates, Zenon
<1>2. [store EXCEPT !.certs = store.certs \cup {c}]
        = Snap(store.last, store.certs \cup {c}, store.top, store.commit, store.own)
  BY <1>1, Zenon DEF Updates
<1>3. Write([store EXCEPT !.certs = store.certs \cup {c}])
  OBVIOUS
<1>4. Write(Snap(store.last, store.certs \cup {c}, store.top, store.commit, store.own))
  BY <1>2, <1>3, Zenon
<1> QED BY <1>4, StoreAfter, Zenon

\* A certificate that enters the store keeps StoreShape.
LEMMA CertStoreShape ==
    ASSUME StoreShape, NEW c, Write([store EXCEPT !.certs = @ \cup {c}]),
           c.header \in sent, sent' = sent, known' = known \cup {c}
    PROVE  StoreShape' /\ store'.top = store.top
<1> DEFINE s == Snap(store.last, store.certs \cup {c}, store.top, store.commit, store.own)
<1>1. Write(s) /\ store'.top = store.top
  BY CertStore, Zenon
<1>2. s.last = store.last /\ s.certs = store.certs \cup {c} /\ s.top = store.top
      /\ s.commit = store.commit /\ s.own = store.own /\ IsASnap(s)
  BY SnapFields
<1> HIDE DEF s
<1>3. SnapShape(store, sent, known)
  BY StoreIsSnap, Zenon
<1>4. SnapShape(s, sent', known')
  BY <1>2, <1>3, Zenon DEF SnapShape
<1>5. known \subseteq known' /\ \A b \in known' : b.header \in sent'
  BY Zenon DEF StoreShape
<1>6. IsFiniteSet(sent') /\ (\A h \in sent' : h.round \in 1..MaxRound /\ h.n \in Nat) /\ sent \subseteq sent'
  BY Zenon DEF StoreShape
<1> QED BY <1>1, <1>4, <1>5, <1>6, StoreShapeStep, Zenon

\* The manager stores an own certificate.
LEMMA ManagerShape ==
    ASSUME Shape, ProcessOwnCertificate
    PROVE  Shape'
<1>1. StoreShape /\ ProposerShape /\ CertifierShape
  BY DEF Shape
<1> DEFINE c == Head(managerQ)
<1>2. /\ managerQ # <<>> /\ managerQ' = Tail(managerQ)
      /\ inflight' = inflight \/ inflight' = NoProposal
      /\ sent' = sent /\ round' = round /\ parents' = parents
      /\ parentsQ' = parentsQ /\ commitQ' = commitQ /\ rewound' = rewound
      /\ proposed' = proposed /\ pending' = pending
  BY Zenon DEF ProcessOwnCertificate, proposerVars
<1>3. /\ IsCertified(c.header) => snaps' = snaps /\ (known' = known \/ known' = known \cup {c})
      /\ ~IsCertified(c.header) => Write([store EXCEPT !.certs = @ \cup {c}]) /\ known' = known \cup {c}
  BY Zenon DEF ProcessOwnCertificate
<1>4. /\ ASequence(Tail(managerQ)) /\ c = managerQ[1] /\ 1 \in 1..Len(managerQ)
      /\ \A i \in 1..Len(Tail(managerQ)) : i + 1 \in 1..Len(managerQ) /\ Tail(managerQ)[i] = managerQ[i + 1]
  <2>1. ASequence(managerQ)
    BY <1>1 DEF CertifierShape
  <2>2. Len(managerQ) \in Nat /\ Len(managerQ) >= 1
    BY <1>2, <2>1, Received, Zenon
  <2>3. 1 \in 1..Len(managerQ)
    BY <2>2
  <2> QED BY <1>2, <2>1, <2>3, Received, Zenon
<1> HIDE DEF c
<1>5. c.header \in sent
  BY <1>1, <1>4, Zenon DEF CertifierShape
<1>6. CertifierShape'
  BY <1>1, <1>2, <1>4, Zenon DEF CertifierShape
<1>7. StoreShape' /\ store'.top = store.top
  <2>1. CASE IsCertified(c.header)
    <3>1. known \subseteq known' /\ \A b \in known' : b.header \in sent'
      BY <1>1, <1>2, <1>3, <1>5, <2>1, Zenon DEF StoreShape
    <3>2. IsFiniteSet(sent') /\ (\A h \in sent' : h.round \in 1..MaxRound /\ h.n \in Nat) /\ sent \subseteq sent'
      BY <1>1, <1>2, Zenon DEF StoreShape
    <3>3. StoreShape'
      BY <1>1, <1>3, <2>1, <3>1, <3>2, StoreShapeStep, Zenon
    <3> QED BY <1>3, <2>1, <3>3, StoreSame, Zenon
  <2>2. CASE ~IsCertified(c.header)
    BY <1>1, <1>2, <1>3, <1>5, <2>2, CertStoreShape, Zenon
  <2> QED BY <2>1, <2>2
<1>8. ProposerShape'
  BY <1>1, <1>2, <1>7, ProposerShapeSame, Zenon DEF ProposerShape
<1> QED BY <1>6, <1>7, <1>8 DEF Shape

\* An own certificate comes back from a peer.
LEMMA PeerShape ==
    ASSUME Shape, NEW c \in known, PeerCertificate(c)
    PROVE  Shape'
<1>1. StoreShape /\ ProposerShape /\ CertifierShape
  BY DEF Shape
<1>2. /\ sent' = sent /\ known' = known /\ managerQ' = managerQ /\ inflight' = inflight
      /\ round' = round /\ parents' = parents
      /\ parentsQ' = parentsQ /\ commitQ' = commitQ /\ rewound' = rewound
      /\ proposed' = proposed /\ pending' = pending
      /\ Write([store EXCEPT !.certs = @ \cup {c}])
  BY Zenon DEF PeerCertificate, proposerVars, certifierVars
<1>3. known' = known \cup {c} /\ c.header \in sent
  BY <1>1, <1>2, Zenon DEF StoreShape
<1>4. StoreShape' /\ store'.top = store.top
  BY <1>1, <1>2, <1>3, CertStoreShape, Zenon
<1>5. ProposerShape'
  BY <1>1, <1>2, <1>4, ProposerShapeSame, Zenon DEF ProposerShape
<1>6. CertifierShape'
  BY <1>1, <1>2, CertifierShapeSame, Zenon
<1> QED BY <1>4, <1>5, <1>6 DEF Shape

\* A quorum of a round is stored and sent to the proposer.
LEMMA QuorumStore ==
    ASSUME StoreShape, Quorum
    PROVE  /\ Write(Snap(store.last, store.certs, store.top + 1, store.commit, store.own))
           /\ store'.last = store.last /\ store'.certs = store.certs /\ store'.top = store.top + 1
           /\ store'.commit = store.commit /\ store'.own = store.own
<1>1. Updates(store, store.top + 1, 0)
  BY StoreUpdates, Zenon
<1>2. [store EXCEPT !.top = store.top + 1]
        = Snap(store.last, store.certs, store.top + 1, store.commit, store.own)
  BY <1>1, Zenon DEF Updates
<1>3. Write([store EXCEPT !.top = store.top + 1])
  BY DEF Quorum
<1>4. Write(Snap(store.last, store.certs, store.top + 1, store.commit, store.own))
  BY <1>2, <1>3, Zenon
<1> QED BY <1>4, StoreAfter, Zenon

\* A new stored round, sent to the proposer, keeps Shape.
LEMMA QuorumShape ==
    ASSUME Shape, Quorum
    PROVE  /\ Shape' /\ Len(parentsQ) \in Nat /\ Len(parentsQ') = Len(parentsQ) + 1
           /\ \A i \in 1..Len(parentsQ) : parentsQ'[i] = parentsQ[i]
           /\ parentsQ'[Len(parentsQ) + 1] = store.top + 1
<1>1. StoreShape /\ ProposerShape /\ CertifierShape
  BY DEF Shape
<1>2. /\ sent' = sent /\ known' = known /\ managerQ' = managerQ /\ inflight' = inflight
      /\ round' = round /\ parents' = parents /\ commitQ' = commitQ /\ rewound' = rewound
      /\ proposed' = proposed /\ pending' = pending
      /\ parentsQ' = Append(parentsQ, store.top + 1)
  BY Zenon DEF Quorum, proposerVars, certifierVars
<1>3. SnapShape(store, sent, known)
  BY <1>1, StoreIsSnap, Zenon
<1>4. /\ store.top \in Nat /\ store.commit \in Nat /\ store.own \in Nat
      /\ store.last.round \in Nat /\ store.last.round <= store.top + 1
  BY <1>1, <1>3, SnapRounds, Zenon
<1>5. StoreShape'
  <2> DEFINE s == Snap(store.last, store.certs, store.top + 1, store.commit, store.own)
  <2>1. Write(s)
    BY <1>1, QuorumStore, Zenon
  <2>2. s.last = store.last /\ s.certs = store.certs /\ s.top = store.top + 1
        /\ s.commit = store.commit /\ s.own = store.own /\ IsASnap(s)
    BY SnapFields
  <2> HIDE DEF s
  <2>3. s.last.round <= s.top + 1 /\ {s.top, s.commit, s.own} \subseteq Nat
    BY <1>4, <2>2
  <2>4. SnapShape(s, sent', known')
    BY <1>2, <1>3, <2>2, <2>3, Zenon DEF SnapShape
  <2>5. /\ known \subseteq known' /\ (\A b \in known' : b.header \in sent') /\ IsFiniteSet(sent')
        /\ (\A h \in sent' : h.round \in 1..MaxRound /\ h.n \in Nat) /\ sent \subseteq sent'
    BY <1>1, <1>2, Zenon DEF StoreShape
  <2> QED BY <1>1, <2>1, <2>4, <2>5, StoreShapeStep, Zenon
<1>6. CertifierShape'
  BY <1>1, <1>2, CertifierShapeSame, Zenon
<1>7. store'.top = store.top + 1
  BY <1>1, QuorumStore, Zenon
<1>8. /\ parentsQ' \in Seq(Nat) /\ Len(parentsQ) \in Nat /\ Len(parentsQ') = Len(parentsQ) + 1
      /\ \A i \in 1..Len(parentsQ) : parentsQ'[i] = parentsQ[i]
      /\ parentsQ'[Len(parentsQ) + 1] = store.top + 1
  <2> DEFINE q == parentsQ
  <2> DEFINE t == store.top + 1
  <2>1. q \in Seq(Nat) /\ t \in Nat
    BY <1>1, <1>4 DEF ProposerShape
  <2> HIDE DEF q, t
  <2>2. /\ Append(q, t) \in Seq(Nat) /\ Len(q) \in Nat /\ Len(Append(q, t)) = Len(q) + 1
        /\ \A i \in 1..Len(q) : Append(q, t)[i] = q[i]
        /\ Append(q, t)[Len(q) + 1] = t
    BY <2>1
  <2> QED BY <1>2, <2>2 DEF q, t
<1>9. \A i \in 1..Len(parentsQ') : parentsQ'[i] <= store.top + 1
  <2> SUFFICES ASSUME NEW i \in 1 .. Len(parentsQ) + 1 PROVE parentsQ'[i] <= store.top + 1
    BY <1>8, Zenon
  <2>1. CASE i \in 1..Len(parentsQ)
    <3>1. parentsQ[i] <= store.top /\ parentsQ[i] \in Nat
      BY <1>1, <2>1 DEF ProposerShape
    <3> QED BY <1>4, <1>8, <2>1, <3>1
  <2>2. CASE i = Len(parentsQ) + 1
    BY <1>4, <1>8, <2>2
  <2> QED BY <1>8, <2>1, <2>2
<1>10. parents' => round' <= store'.top
  <2>1. parents => round <= store.top /\ round \in Nat
    BY <1>1, Zenon DEF ProposerShape
  <2>2. round \in Nat
    BY <1>1, Zenon DEF ProposerShape
  <2>3. round <= store.top => round <= store.top + 1
    BY <1>4, <2>2
  <2> QED BY <1>2, <1>7, <2>1, <2>3, Zenon
<1>11. ProposerShape'
  BY <1>1, <1>2, <1>7, <1>8, <1>9, <1>10, Zenon DEF ProposerShape
<1> QED BY <1>5, <1>6, <1>8, <1>11, Zenon DEF Shape

\* What a commit orders was sent, and it saves the last own round.
LEMMA CommitOwn ==
    ASSUME StoreShape, NEW r \in 1..MaxRound, NEW own \in SUBSET Orderable(r)
    PROVE  LET last == Max({store.own} \cup {h.round : h \in own}) IN
           /\ own \subseteq sent /\ r \in Nat /\ last \in Nat /\ store.own <= last
           /\ \A h \in own : h.round <= last
<1>1. SnapShape(store, sent, known)
  BY StoreIsSnap, Zenon
<1>2. store.own \in Nat /\ MaxRound \in Nat
  BY <1>1, SnapRounds, BoundAssumption
<1>3. own \subseteq sent
  <2>1. \A h \in own : \E c \in store.certs : h = c.header
    BY Zenon DEF Orderable
  <2> QED BY <1>1, <2>1, Zenon DEF SnapShape, StoreShape
<1> DEFINE S == {store.own} \cup {h.round : h \in own}
<1>4. S \subseteq 0 .. store.own + MaxRound /\ S # {} /\ store.own + MaxRound \in Nat
  <2>1. \A h \in own : h.round \in 1..MaxRound
    BY <1>3, Zenon DEF StoreShape
  <2>2. \A x \in 1..MaxRound : x \in 0 .. store.own + MaxRound
    BY <1>2
  <2>3. store.own \in 0 .. store.own + MaxRound /\ store.own + MaxRound \in Nat
    BY <1>2
  <2> QED BY <2>1, <2>2, <2>3, Zenon
<1>5. store.own \in S /\ \A h \in own : h.round \in S
  OBVIOUS
<1> HIDE DEF S
<1>6. Max(S) \in S /\ \A x \in S : x <= Max(S)
  BY <1>4, MaxRounds, Zenon
<1>7. Max(S) \in Nat
  <2>1. \A x \in 0 .. store.own + MaxRound : x \in Nat
    BY <1>4
  <2> QED BY <1>4, <1>6, <2>1, Zenon
<1>8. r \in Nat
  BY <1>2
<1> QED BY <1>3, <1>5, <1>6, <1>7, <1>8, Zenon DEF S

\* What a commit writes, and what is in the store then.
LEMMA CommitStore ==
    ASSUME StoreShape, NEW r, NEW own, Commit(r, own)
    PROVE  LET last == Max({store.own} \cup {h.round : h \in own}) IN
           /\ Write(Snap(store.last, store.certs, store.top, r, last))
           /\ store'.last = store.last /\ store'.certs = store.certs /\ store'.top = store.top
           /\ store'.commit = r /\ store'.own = last
<1> DEFINE last == Max({store.own} \cup {h.round : h \in own})
<1>1. Updates(store, r, last)
  BY StoreUpdates, Zenon
<1>2. [store EXCEPT !.commit = r, !.own = last]
        = Snap(store.last, store.certs, store.top, r, last)
  BY <1>1, Zenon DEF Updates
<1>3. Write([store EXCEPT !.commit = r, !.own = last])
  BY DEF Commit
<1> HIDE DEF last
<1>4. Write(Snap(store.last, store.certs, store.top, r, last))
  BY <1>2, <1>3, Zenon
<1>5. /\ Write(Snap(store.last, store.certs, store.top, r, last))
      /\ store'.last = store.last /\ store'.certs = store.certs /\ store'.top = store.top
      /\ store'.commit = r /\ store'.own = last
  BY <1>4, StoreAfter, Zenon
<1> QED BY <1>5, Zenon DEF last

\* A commit.
LEMMA CommitShape ==
    ASSUME Shape, NEW r \in 1..MaxRound, NEW own \in SUBSET Orderable(r), Commit(r, own)
    PROVE  Shape'
<1>1. StoreShape /\ ProposerShape /\ CertifierShape
  BY DEF Shape
<1>2. /\ sent' = sent /\ known' = known /\ managerQ' = managerQ /\ inflight' = inflight
      /\ round' = round /\ parents' = parents /\ parentsQ' = parentsQ /\ rewound' = rewound
      /\ proposed' = proposed /\ pending' = pending
      /\ commitQ' = Append(commitQ, [round |-> r, own |-> {h.round : h \in own}])
  BY Zenon DEF Commit, proposerVars, certifierVars
<1> DEFINE last == Max({store.own} \cup {h.round : h \in own})
<1> DEFINE s == Snap(store.last, store.certs, store.top, r, last)
<1>3. Write(s) /\ store'.top = store.top
  BY <1>1, CommitStore, Zenon
<1>4. last \in Nat /\ r \in Nat
  BY <1>1, CommitOwn, Zenon
<1> HIDE DEF last
<1>5. s.last = store.last /\ s.certs = store.certs /\ s.top = store.top
      /\ s.commit = r /\ s.own = last /\ IsASnap(s)
  BY SnapFields
<1> HIDE DEF s
<1>6. SnapShape(store, sent, known)
  BY <1>1, StoreIsSnap, Zenon
<1>7. SnapShape(s, sent', known')
  BY <1>2, <1>4, <1>5, <1>6, Zenon DEF SnapShape
<1>8. /\ known \subseteq known' /\ (\A b \in known' : b.header \in sent') /\ IsFiniteSet(sent')
      /\ (\A h \in sent' : h.round \in 1..MaxRound /\ h.n \in Nat) /\ sent \subseteq sent'
  BY <1>1, <1>2, Zenon DEF StoreShape
<1>9. StoreShape'
  BY <1>1, <1>3, <1>7, <1>8, StoreShapeStep, Zenon
<1>10. CertifierShape'
  BY <1>1, <1>2, CertifierShapeSame, Zenon
<1>11. ASequence(commitQ')
  BY <1>1, <1>2, Appended, Zenon DEF ProposerShape
<1>12. ProposerShape'
  BY <1>1, <1>2, <1>3, <1>11, ProposerShapeSame, Zenon DEF ProposerShape
<1> QED BY <1>9, <1>10, <1>12 DEF Shape

\* A start of the tasks.
LEMMA BeginShape ==
    ASSUME Shape, NEW k \in 1..Len(snaps), Begin(k)
    PROVE  Shape' /\ SnapShape(snaps[k], sent, known)
<1>1. StoreShape /\ ProposerShape /\ CertifierShape
  BY DEF Shape
<1>2. SnapShape(snaps[k], sent, known)
  BY <1>1, Zenon DEF StoreShape
<1>3. snaps[k].top \in Nat /\ snaps[k].commit \in Nat
  BY <1>1, <1>2, SnapRounds, Zenon
<1>4. Start(snaps[k]) /\ Stopped(snaps[k]) /\ store' = snaps[k]
  BY DEF Begin
<1>5. /\ sent' = sent /\ known' = known /\ managerQ' = <<>> /\ inflight' = NoProposal
      /\ proposed' = {} /\ pending' = NoHeader /\ commitQ' = <<>>
      /\ round' = snaps[k].commit /\ parents' = (snaps[k].commit = 0)
      /\ parentsQ' = IF snaps[k].top = 0 THEN <<>> ELSE <<snaps[k].top>>
      /\ rewound' = (rewound \/ (snaps[k].commit = 0 /\ snaps[k].last.round > 1))
  BY <1>4, Zenon DEF Start, Stopped
<1>6. StoreShape'
  <2>1. /\ known \subseteq known' /\ (\A b \in known' : b.header \in sent') /\ IsFiniteSet(sent')
        /\ (\A h \in sent' : h.round \in 1..MaxRound /\ h.n \in Nat) /\ sent \subseteq sent'
    BY <1>1, <1>5, Zenon DEF StoreShape
  <2> QED BY <1>1, <2>1, StoreShapeStep, Zenon
<1>7. <<>> \in Seq(Nat) /\ Len(<<>>) = 0
  OBVIOUS
<1>8. ASequence(<<>>) /\ \A i \in 1..Len(<<>>) : FALSE
  <2>1. ASequence(<<>>)
    BY <1>7, SequenceOf, Zenon
  <2>2. \A i \in 1..0 : FALSE
    OBVIOUS
  <2> QED BY <1>7, <2>1, <2>2, Zenon
<1>9. CertifierShape'
  BY <1>5, <1>8, Zenon DEF CertifierShape
<1>10. /\ parentsQ' \in Seq(Nat)
       /\ \A i \in 1..Len(parentsQ') : parentsQ'[i] <= snaps[k].top
  <2>1. CASE snaps[k].top = 0
    BY <1>5, <1>8, <2>1
  <2>2. CASE snaps[k].top # 0
    <3> DEFINE t == snaps[k].top
    <3>1. parentsQ' = <<t>> /\ t \in Nat
      BY <1>3, <1>5, <2>2
    <3> HIDE DEF t
    <3>2. parentsQ' \in Seq(Nat) /\ \A i \in 1..Len(parentsQ') : parentsQ'[i] <= t
      BY <3>1
    <3> QED BY <3>2 DEF t
  <2> QED BY <2>1, <2>2
<1>11. parents' => round' <= snaps[k].top
  <2>1. snaps[k].commit = 0 => snaps[k].commit <= snaps[k].top
    BY <1>3
  <2> QED BY <1>5, <2>1, Zenon
<1>12. parents' \in BOOLEAN /\ rewound' \in BOOLEAN
  BY <1>5, Zenon
<1>13. ProposerShape'
  BY <1>3, <1>4, <1>5, <1>8, <1>10, <1>11, <1>12, Zenon DEF ProposerShape
<1> QED BY <1>2, <1>6, <1>9, <1>13 DEF Shape

\* The steps of the system as the following proofs split them.
Step ==
    \/ process_parents
    \/ process_committed_headers \/ handle_proposal_result \/ \E d \in Digest : push_digest(d)
    \/ Again \/ \E h : Anew(h)
    \/ GiveUp \/ \E s \in Signers : Certify(s)
    \/ ProcessOwnCertificate
    \/ \E c \in known : PeerCertificate(c)
    \/ Quorum
    \/ \E r \in 1..MaxRound : \E own \in SUBSET Orderable(r) : Commit(r, own)
    \/ \E k \in 1..Len(snaps) : Begin(k)

\* Every step is one of the cases of Step.
LEMMA Steps ==
    ASSUME Shape, Next
    PROVE  Step
<1>1. CASE Proposer
  BY <1>1, Proposing, Zenon DEF Proposer, Step, Shape
<1>2. CASE Certifier
  BY <1>2, Zenon DEF Certifier, Step
<1>3. CASE Node
  <2>1. ASequence(snaps) /\ Len(snaps) >= 1
    BY DEF Shape, StoreShape
  <2>2. ASSUME Restart \/ \E k \in 1 .. Len(snaps) - 1 : Crash(k) PROVE \E k \in 1..Len(snaps) : Begin(k)
    BY <2>1, <2>2, Begun, Zenon
  <2> QED BY <1>3, <2>2, Zenon DEF Node, Step
<1> QED BY <1>1, <1>2, <1>3, Zenon DEF Next

\* The first state has Shape.
LEMMA ShapeInit ==
    ASSUME Init
    PROVE  Shape
<1>1. /\ snaps = <<Fresh>> /\ round = 0 /\ parents = TRUE /\ proposed = {} /\ pending = NoHeader
      /\ parentsQ = <<>> /\ commitQ = <<>> /\ inflight = NoProposal /\ managerQ = <<>>
      /\ known = {} /\ sent = {} /\ rewound = FALSE
  BY Zenon DEF Init
<1>2. Fresh.last = NoHeader /\ Fresh.certs = {} /\ Fresh.top = 0 /\ Fresh.commit = 0 /\ Fresh.own = 0
      /\ NoHeader.round = 0 /\ IsASnap(Fresh)
  BY DEF Fresh, NoHeader, Header, IsASnap
<1>3. snaps \in Seq({Fresh}) /\ Len(snaps) = 1 /\ snaps[1] = Fresh
  BY <1>1
<1>4. ASequence(snaps) /\ Len(snaps) >= 1 /\ store = Fresh /\ \A i \in 1..Len(snaps) : snaps[i] = Fresh
  <2>1. ASequence(snaps)
    BY <1>3, SequenceOf, Zenon
  <2>2. store = Fresh
    BY <1>3 DEF store
  <2>3. \A i \in 1..1 : i = 1
    OBVIOUS
  <2>4. 1 >= 1
    OBVIOUS
  <2> QED BY <1>3, <2>1, <2>2, <2>3, <2>4, Zenon
<1>5. SnapShape(Fresh, sent, known)
  <2>1. 0 <= 0 + 1 /\ 0 \in Nat
    OBVIOUS
  <2> QED BY <1>2, <2>1, Zenon DEF SnapShape
<1>6. StoreShape
  <2>1. IsFiniteSet({})
    BY FS_EmptySet
  <2> QED BY <1>1, <1>4, <1>5, <2>1, Zenon DEF StoreShape
<1>7. <<>> \in Seq(Nat) /\ Len(<<>>) = 0 /\ \A i \in 1..0 : FALSE
  OBVIOUS
<1>8. ASequence(<<>>)
  BY <1>7, SequenceOf, Zenon
<1>9. CertifierShape
  BY <1>1, <1>7, <1>8, Zenon DEF CertifierShape
<1>10. ProposerShape
  <2>1. 0 \in Nat /\ 0 <= 0
    OBVIOUS
  <2> QED BY <1>1, <1>2, <1>4, <1>7, <1>8, <2>1, Zenon DEF ProposerShape
<1> QED BY <1>6, <1>9, <1>10 DEF Shape

\* Every step keeps Shape.
LEMMA ShapeStep ==
    ASSUME Shape, [Next]_vars
    PROVE  Shape'
<1>1. CASE UNCHANGED vars
  <2>1. /\ snaps' = snaps /\ sent' = sent /\ known' = known /\ managerQ' = managerQ
        /\ inflight' = inflight /\ round' = round /\ parents' = parents /\ parentsQ' = parentsQ
        /\ commitQ' = commitQ /\ rewound' = rewound /\ proposed' = proposed /\ pending' = pending
    BY <1>1, Zenon DEF vars, proposerVars, certifierVars
  <2>2. StoreShape' /\ CertifierShape'
    BY <2>1, StoreShapeSame, CertifierShapeSame, Zenon DEF Shape
  <2>3. ProposerShape'
    BY <2>1, StoreSame, ProposerShapeSame, Zenon DEF Shape, ProposerShape
  <2> QED BY <2>2, <2>3 DEF Shape
<1>2. CASE Next
  <2>1. Step
    BY <1>2, Steps, Zenon
  <2> QED BY <2>1, ParentsShape, HeadersShape, AgainShape, AnewShape, CertifyShape, ManagerShape,
             PeerShape, QuorumShape, CommitShape, BeginShape, Zenon DEF Step
<1> QED BY <1>1, <1>2

-----------------------------------------------------------------------------
(***************************************************************************)
(* One header per round.                                                   *)
(***************************************************************************)
\* Unchanged in steps that keep the last header, the channel of parents and the
\* proposer's round.
LEMMA BehindSame ==
    ASSUME ProposerBehind, store'.last = store.last, round' = round, parents' = parents,
           parentsQ' = parentsQ, rewound' = rewound
    PROVE  ProposerBehind'
BY Zenon DEF ProposerBehind

\* process_parents keeps ProposerBehind.
LEMMA BehindParents ==
    ASSUME Shape, ProposerBehind, process_parents
    PROVE  ProposerBehind'
<1>1. rewound' = rewound
  BY Zenon DEF process_parents
<1> SUFFICES ASSUME ~rewound
             PROVE  /\ parents' => store'.last.round <= round' + 1
                    /\ \A i \in 1..Len(parentsQ') :
                          parentsQ'[i] >= round' => store'.last.round <= parentsQ'[i] + 1
  BY <1>1, Zenon DEF ProposerBehind
<1>2. /\ parents => store.last.round <= round + 1
      /\ \A i \in 1..Len(parentsQ) : parentsQ[i] >= round => store.last.round <= parentsQ[i] + 1
  BY Zenon DEF ProposerBehind
<1>3. parents' => store'.last.round <= round' + 1
  <2>1. CASE parentsQ[1] >= round
    BY <1>2, <2>1, ParentsTaken, Zenon
  <2>2. CASE ~(parentsQ[1] >= round)
    BY <1>2, <2>2, ParentsTaken, Zenon
  <2> QED BY <2>1, <2>2
<1>4. ASSUME NEW i \in 1..Len(parentsQ'), parentsQ'[i] >= round'
      PROVE  store'.last.round <= parentsQ'[i] + 1
  <2>1. i + 1 \in 1..Len(parentsQ) /\ parentsQ'[i] = parentsQ[i + 1] /\ store' = store
    BY ParentsTaken, Zenon
  <2>2. parentsQ[i + 1] \in Nat /\ round' \in Nat /\ round \in Nat /\ round' >= round
    <3>1. parentsQ \in Seq(Nat) /\ round \in Nat
      BY DEF Shape, ProposerShape
    <3>2. parentsQ[i + 1] \in Nat
      BY <2>1, <3>1
    <3> QED BY <3>1, <3>2, ParentsTaken, Zenon
  <2>3. parentsQ[i + 1] >= round
    <3> DEFINE q == parentsQ[i + 1]
    <3>1. q \in Nat /\ q >= round'
      BY <1>4, <2>1, <2>2, Zenon
    <3> HIDE DEF q
    <3>2. q >= round
      BY <2>2, <3>1
    <3> QED BY <3>2 DEF q
  <2> QED BY <1>2, <2>1, <2>3, Zenon
<1> QED BY <1>3, <1>4

\* A proposal takes the proposer to the round of the header it stores.
LEMMA BehindSend ==
    ASSUME Shape, ProposerBehind, Again \/ \E h : Anew(h)
    PROVE  ProposerBehind'
<1>1. StoreShape /\ ProposerShape
  BY DEF Shape
<1>2. ASSUME NEW h, store_and_send_header(h), round' = round + 1, parents' = FALSE, h.round = round + 1
      PROVE  ProposerBehind'
  <2>1. store'.last = h
    BY <1>1, <1>2, SendStore, Zenon
  <2>2. parentsQ' = parentsQ /\ round \in Nat /\ parentsQ \in Seq(Nat)
    BY <1>1, <1>2, Zenon DEF store_and_send_header, ProposerShape
  <2>3. ASSUME NEW i \in 1..Len(parentsQ), parentsQ[i] >= round + 1
        PROVE  round + 1 <= parentsQ[i] + 1
    <3> DEFINE q == parentsQ[i]
    <3>1. q \in Nat /\ q >= round + 1
      BY <2>2, <2>3
    <3> HIDE DEF q
    <3>2. round + 1 <= q + 1
      BY <2>2, <3>1
    <3> QED BY <3>2 DEF q
  <2> QED BY <1>2, <2>1, <2>2, <2>3, Zenon DEF ProposerBehind
<1>3. CASE Again
  <2>1. store_and_send_header(store.last)
    BY <1>3 DEF Again
  <2>2. CASE round' = round /\ parents' = parents
    <3>1. store'.last = store.last
      BY <1>1, <2>1, SendStore, Zenon
    <3>2. parentsQ' = parentsQ /\ rewound' = rewound
      BY <2>1, Zenon DEF store_and_send_header
    <3> QED BY <2>2, <3>1, <3>2, BehindSame, Zenon
  <2>3. CASE round' = round + 1 /\ parents' = FALSE /\ store.last.round = round + 1
    BY <1>2, <2>1, <2>3, Zenon
  <2> QED BY <1>3, <2>2, <2>3, Zenon DEF Again
<1>4. ASSUME NEW h, Anew(h) PROVE ProposerBehind'
  BY <1>2, <1>4, Zenon DEF Anew
<1> QED BY <1>3, <1>4

\* A new stored round keeps ProposerBehind.
LEMMA BehindQuorum ==
    ASSUME Shape, ProposerBehind, Quorum
    PROVE  ProposerBehind'
<1>1. StoreShape /\ ProposerShape
  BY DEF Shape
<1>2. round' = round /\ parents' = parents /\ rewound' = rewound
  BY Zenon DEF Quorum, proposerVars
<1>3. store'.last = store.last
  BY <1>1, QuorumStore, Zenon
<1>4. store.last.round <= (store.top + 1) + 1
  <2>1. store.last.round \in Nat /\ store.top \in Nat /\ store.last.round <= store.top + 1
    BY <1>1, StoreIsSnap, SnapRounds, Zenon
  <2> QED BY <2>1
<1>5. \A i \in 1..Len(parentsQ') :
         (i \in 1..Len(parentsQ) /\ parentsQ'[i] = parentsQ[i]) \/ parentsQ'[i] = store.top + 1
  <2>1. \A i \in 1 .. Len(parentsQ) + 1 : i \in 1..Len(parentsQ) \/ i = Len(parentsQ) + 1
    BY QuorumShape
  <2> QED BY <2>1, QuorumShape, Zenon
<1> QED BY <1>2, <1>3, <1>4, <1>5, Zenon DEF ProposerBehind

\* A proposer that begins is not ahead of its last header, or is rewound.
LEMMA BehindBegin ==
    ASSUME Shape, NEW k \in 1..Len(snaps), Begin(k)
    PROVE  ProposerBehind'
<1>1. Start(snaps[k]) /\ Stopped(snaps[k]) /\ store' = snaps[k]
  BY DEF Begin
<1> DEFINE s == snaps[k]
<1>2. s.last.round \in Nat /\ s.top \in Nat /\ s.commit \in Nat /\ s.last.round <= s.top + 1
  BY BeginShape, SnapRounds, Zenon DEF Shape
<1>3. /\ round' = s.commit /\ parents' = (s.commit = 0)
      /\ parentsQ' = IF s.top = 0 THEN <<>> ELSE <<s.top>>
      /\ rewound' = (rewound \/ (s.commit = 0 /\ s.last.round > 1))
  BY <1>1, Zenon DEF Start, Stopped
<1>4. store' = s
  BY <1>1
<1> HIDE DEF s
<1>5. ASSUME ~rewound', parents' PROVE s.last.round <= round' + 1
  <2>1. s.commit = 0 /\ ~(s.last.round > 1)
    BY <1>3, <1>5, Zenon
  <2> QED BY <1>2, <1>3, <2>1
<1>6. \A i \in 1..Len(parentsQ') : s.last.round <= parentsQ'[i] + 1
  <2>1. CASE s.top = 0
    <3>1. parentsQ' = <<>>
      BY <1>3, <2>1
    <3> QED BY <3>1
  <2>2. CASE s.top # 0
    <3>1. parentsQ' = <<s.top>>
      BY <1>3, <2>2
    <3>2. \A i \in 1..Len(parentsQ') : parentsQ'[i] = s.top
      BY <3>1
    <3> QED BY <1>2, <3>2, Zenon
  <2> QED BY <2>1, <2>2
<1> QED BY <1>4, <1>5, <1>6, Zenon DEF ProposerBehind

\* The last header stored is the last one sent, unless that one is lost.
LEMMA LastHeader ==
    ASSUME StoreShape, HeadersInStore, ~rewound, NEW h \in sent
    PROVE  h \in lost \/ store.last.round > h.round \/ store.last = h
<1>1. Len(snaps) \in Nat /\ Len(snaps) \in 1..Len(snaps) /\ store = snaps[Len(snaps)]
  BY StoreIsSnap, Zenon
<1>2. HeaderInStore(h, Len(snaps))
  BY <1>1, Zenon DEF HeadersInStore
<1>3. \A i \in Len(snaps)..Len(snaps) : i = Len(snaps)
  BY <1>1
<1> QED BY <1>1, <1>2, <1>3, Zenon DEF HeaderInStore

\* A write whose header is not below those sent before.
LEMMA HeadersWrite ==
    ASSUME StoreShape, HeadersInStore, ~rewound, NEW s, Write(s), lost' = lost,
           \A h \in sent : h \in lost \/ s.last.round > h.round \/ s.last = h
    PROVE  \A h \in sent \cup {s.last} : \A k \in 1..Len(snaps') : HeaderInStore(h, k)'
<1>1. ASequence(snaps) /\ Len(snaps) >= 1
  BY DEF StoreShape
<1>2. Len(snaps) \in Nat /\ Len(snaps') \in Nat
  BY <1>1, Written, Zenon
<1>3. PICK m \in 0..Len(snaps) :
        /\ Len(snaps') = Len(snaps) + 1 - m
        /\ snaps'[Len(snaps')] = s
        /\ \A j \in 1 .. Len(snaps) - m : j + m \in 1..Len(snaps) /\ snaps'[j] = snaps[j + m]
  BY <1>1, Written, Zenon
<1> SUFFICES ASSUME NEW h \in sent \cup {s.last}, NEW k \in 1..Len(snaps')
             PROVE  \/ h \in lost \/ snaps'[k].last.round > h.round
                    \/ \E i \in k..Len(snaps') : snaps'[i].last = h
  BY Zenon DEF HeaderInStore
<1>4. Len(snaps') \in k..Len(snaps')
  BY <1>2
<1>5. CASE h = s.last
  BY <1>3, <1>4, <1>5, Zenon
<1>6. CASE h \in sent /\ k = Len(snaps')
  BY <1>3, <1>4, <1>6, Zenon
<1>7. CASE h \in sent /\ k # Len(snaps')
  <2>1. k \in 1 .. Len(snaps) - m
    BY <1>2, <1>3, <1>7
  <2>2. k + m \in 1..Len(snaps) /\ snaps'[k] = snaps[k + m]
    BY <1>3, <2>1, Zenon
  <2>3. HeaderInStore(h, k + m)
    BY <1>7, <2>2, Zenon DEF HeadersInStore
  <2>4. ASSUME NEW i \in k + m .. Len(snaps), snaps[i].last = h
        PROVE  \E j \in k..Len(snaps') : snaps'[j].last = h
    <3>1. i - m \in 1 .. Len(snaps) - m /\ i - m \in k..Len(snaps') /\ (i - m) + m = i
      BY <1>2, <1>3, <2>1
    <3>2. snaps'[i - m] = snaps[(i - m) + m]
      BY <1>3, <3>1, Zenon
    <3> QED BY <2>4, <3>1, <3>2, Zenon
  <2> QED BY <2>2, <2>3, <2>4, Zenon DEF HeaderInStore
<1> QED BY <1>5, <1>6, <1>7

\* HeadersInStore survives a write that keeps the last header.
LEMMA HeadersKeep ==
    ASSUME StoreShape, HeadersInStore, NEW s, Write(s), s.last = store.last, lost' = lost,
           sent' = sent, rewound' = rewound
    PROVE  HeadersInStore'
<1> SUFFICES ASSUME ~rewound PROVE HeadersInStore'
  BY Zenon DEF HeadersInStore
<1>1. \A h \in sent : h \in lost \/ s.last.round > h.round \/ s.last = h
  BY LastHeader, Zenon
<1>2. \A h \in sent \cup {s.last} : \A k \in 1..Len(snaps') : HeaderInStore(h, k)'
  BY <1>1, HeadersWrite, Zenon
<1> QED BY <1>2, Zenon DEF HeadersInStore, Twins

\* Steps that neither write nor send keep HeadersInStore.
LEMMA HeadersSame ==
    ASSUME HeadersInStore, snaps' = snaps, lost' = lost, sent' = sent, rewound' = rewound
    PROVE  HeadersInStore'
BY Zenon DEF HeadersInStore, HeaderInStore, Twins

\* The stored header is sent again.
LEMMA HeadersAgain ==
    ASSUME Shape, HeadersInStore, Again
    PROVE  HeadersInStore'
<1>1. StoreShape /\ store_and_send_header(store.last) /\ store.last # NoHeader
  BY DEF Shape, Again
<1>2. store.last \in sent
  BY <1>1, StoreIsSnap, Zenon DEF SnapShape
<1>3. sent' = sent /\ lost' = lost /\ rewound' = rewound
  BY <1>1, <1>2, Zenon DEF store_and_send_header
<1> DEFINE s == Snap(store.last, store.certs, store.top, store.commit, store.own)
<1>4. Write(s)
  BY <1>1, SendStore, Zenon
<1>5. s.last = store.last
  BY SnapFields
<1> HIDE DEF s
<1> QED BY <1>1, <1>3, <1>4, <1>5, HeadersKeep, Zenon

\* A new header is above those sent before that are not lost.
LEMMA HeadersAnew ==
    ASSUME Shape, ProposerBehind, HeadersInStore, NEW h, Anew(h)
    PROVE  HeadersInStore'
<1>1. StoreShape /\ store_and_send_header(h)
  BY DEF Shape, Anew
<1>2. sent' = sent \cup {h} /\ lost' = lost /\ rewound' = rewound
  BY <1>1, Zenon DEF store_and_send_header
<1> SUFFICES ASSUME ~rewound PROVE HeadersInStore'
  BY <1>2, Zenon DEF HeadersInStore
<1>3. /\ h.round = round + 1 /\ store.last.round # round + 1 /\ store.last.round <= round + 1
  BY Zenon DEF Anew, ProposerBehind
<1>4. round \in Nat /\ store.last.round \in Nat
  BY <1>1, StoreIsSnap, SnapRounds, Zenon DEF Shape, ProposerShape
<1>5. ASSUME NEW g \in sent, g \notin lost PROVE h.round > g.round
  <2>1. store.last.round > g.round \/ store.last = g
    BY <1>1, <1>5, LastHeader, Zenon
  <2>2. g.round \in Nat
    <3>1. g.round \in 1..MaxRound /\ MaxRound \in Nat
      BY <1>1, BoundAssumption DEF StoreShape
    <3> QED BY <3>1
  <2> DEFINE l == store.last.round
  <2>3. l \in Nat /\ l # round + 1 /\ l <= round + 1 /\ (l > g.round \/ l = g.round)
    BY <1>3, <1>4, <2>1, Zenon
  <2> HIDE DEF l
  <2>4. round + 1 > g.round
    BY <1>4, <2>2, <2>3
  <2> QED BY <1>3, <2>4, Zenon
<1> DEFINE s == Snap(h, store.certs, store.top, store.commit, store.own)
<1>6. Write(s)
  BY <1>1, SendStore, Zenon
<1>7. s.last = h
  BY SnapFields
<1> HIDE DEF s
<1>8. \A g \in sent : g \in lost \/ s.last.round > g.round \/ s.last = g
  BY <1>5, <1>7, Zenon
<1>9. \A g \in sent \cup {h} : \A k \in 1..Len(snaps') : HeaderInStore(g, k)'
  BY <1>1, <1>2, <1>6, <1>7, <1>8, HeadersWrite, Zenon
<1>10. ASSUME NEW g \in sent, Twins(g, h) \/ Twins(h, g) PROVE g \in lost
  <2>1. ASSUME g \notin lost PROVE FALSE
    <3>1. g.round = h.round /\ h.round > g.round
      BY <1>5, <1>10, <2>1, Zenon DEF Twins
    <3>2. h.round \in Nat
      BY <1>3, <1>4
    <3> QED BY <3>1, <3>2
  <2> QED BY <2>1
<1>11. \A f, g \in sent' : Twins(f, g) => f \in lost' \/ g \in lost'
  <2>1. ~Twins(h, h)
    BY DEF Twins
  <2> QED BY <1>2, <1>10, <2>1, Zenon DEF HeadersInStore
<1> QED BY <1>2, <1>9, <1>11, Zenon DEF HeadersInStore, Twins

\* A start: what lies behind the state the store falls back to is lost.
LEMMA HeadersBegin ==
    ASSUME Shape, HeadersInStore, NEW k \in 1..Len(snaps), Begin(k)
    PROVE  HeadersInStore'
<1>1. Start(snaps[k]) /\ Stopped(snaps[k])
  BY DEF Begin
<1>2. /\ Len(snaps') = k /\ \A i \in 1..k : snaps'[i] = snaps[i]
      /\ lost \subseteq lost'
      /\ \A i \in k..Len(snaps) : snaps[i].last = snaps[k].last \/ snaps[i].last \in lost'
  BY Zenon DEF Begin
<1>3. sent' = sent /\ (~rewound' => ~rewound)
  BY <1>1, Zenon DEF Stopped
<1>4. Len(snaps) \in Nat
  BY StoreIsSnap, Zenon DEF Shape
<1> SUFFICES ASSUME ~rewound PROVE HeadersInStore'
  BY <1>3, Zenon DEF HeadersInStore
<1>5. ASSUME NEW h \in sent, NEW j \in 1..k PROVE HeaderInStore(h, j)'
  <2>1. j \in 1..Len(snaps) /\ k \in j..k /\ k \in 1..k
    BY <1>4
  <2>2. HeaderInStore(h, j)
    BY <2>1, Zenon DEF HeadersInStore
  <2>3. ASSUME NEW i \in j..Len(snaps), snaps[i].last = h
        PROVE  h \in lost' \/ \E n \in j..k : snaps'[n].last = h
    <3>1. CASE i <= k
      <4>1. i \in j..k /\ i \in 1..k
        BY <1>4, <3>1
      <4> QED BY <1>2, <2>3, <4>1, Zenon
    <3>2. CASE ~(i <= k)
      <4>1. i \in k..Len(snaps)
        BY <1>4, <3>2
      <4> QED BY <1>2, <2>1, <2>3, <4>1, Zenon
    <3> QED BY <3>1, <3>2
  <2>4. snaps'[j] = snaps[j]
    BY <1>2
  <2> QED BY <1>2, <2>2, <2>3, <2>4, Zenon DEF HeaderInStore
<1> QED BY <1>2, <1>3, <1>5, Zenon DEF HeadersInStore, Twins

\* Steps outside the proposer keep the last header.
LEMMA HeadersNode ==
    ASSUME Shape, ProposerBehind, HeadersInStore,
           \/ ProcessOwnCertificate \/ \E c \in known : PeerCertificate(c)
           \/ \E r \in 1..MaxRound : \E own \in SUBSET Orderable(r) : Commit(r, own)
    PROVE  ProposerBehind' /\ HeadersInStore'
<1>1. StoreShape
  BY DEF Shape
<1>2. /\ round' = round /\ parents' = parents /\ parentsQ' = parentsQ /\ rewound' = rewound
      /\ sent' = sent /\ lost' = lost
  BY Zenon DEF ProcessOwnCertificate, PeerCertificate, Commit, proposerVars
<1>3. snaps' = snaps \/ \E s : Write(s) /\ s.last = store.last
  <2>1. ASSUME NEW c, Write([store EXCEPT !.certs = @ \cup {c}])
        PROVE  \E s : Write(s) /\ s.last = store.last
    <3> DEFINE s == Snap(store.last, store.certs \cup {c}, store.top, store.commit, store.own)
    <3>1. Write(s)
      BY <1>1, <2>1, CertStore, Zenon
    <3>2. s.last = store.last
      BY SnapFields
    <3> HIDE DEF s
    <3> QED BY <3>1, <3>2, Zenon
  <2>2. CASE ProcessOwnCertificate
    <3>1. snaps' = snaps \/ Write([store EXCEPT !.certs = @ \cup {Head(managerQ)}])
      BY <2>2, Zenon DEF ProcessOwnCertificate
    <3> QED BY <2>1, <3>1, Zenon
  <2>3. ASSUME NEW c \in known, PeerCertificate(c) PROVE \E s : Write(s) /\ s.last = store.last
    <3>1. Write([store EXCEPT !.certs = @ \cup {c}])
      BY <2>3, Zenon DEF PeerCertificate
    <3> QED BY <2>1, <3>1, Zenon
  <2>4. ASSUME NEW r, NEW own, Commit(r, own) PROVE \E s : Write(s) /\ s.last = store.last
    <3> DEFINE s == Snap(store.last, store.certs, store.top, r, Max({store.own} \cup {h.round : h \in own}))
    <3>1. Write(s)
      BY <1>1, <2>4, CommitStore, Zenon
    <3>2. s.last = store.last
      BY SnapFields
    <3> HIDE DEF s
    <3> QED BY <3>1, <3>2, Zenon
  <2> QED BY <2>2, <2>3, <2>4, Zenon
<1>4. store'.last = store.last
  <2>1. ASSUME NEW s, Write(s) PROVE store' = s
    <3>1. ASequence(snaps) /\ Len(snaps) >= 1
      BY <1>1 DEF StoreShape
    <3> QED BY <2>1, <3>1, Written, Zenon
  <2> QED BY <1>3, <2>1, StoreSame, Zenon
<1>5. HeadersInStore'
  BY <1>1, <1>2, <1>3, HeadersKeep, HeadersSame, Zenon
<1>6. ProposerBehind'
  BY <1>2, <1>4, BehindSame, Zenon
<1> QED BY <1>5, <1>6

\* A new stored round keeps HeadersInStore.
LEMMA HeadersQuorum ==
    ASSUME Shape, HeadersInStore, Quorum
    PROVE  HeadersInStore'
<1>1. StoreShape
  BY DEF Shape
<1>2. rewound' = rewound /\ sent' = sent /\ lost' = lost
  BY Zenon DEF Quorum
<1> DEFINE s == Snap(store.last, store.certs, store.top + 1, store.commit, store.own)
<1>3. Write(s)
  BY <1>1, QuorumStore, Zenon
<1>4. s.last = store.last
  BY SnapFields
<1> HIDE DEF s
<1> QED BY <1>1, <1>2, <1>3, <1>4, HeadersKeep, Zenon

Headers == Shape /\ ProposerBehind /\ HeadersInStore

\* The invariant of the headers is kept.
LEMMA HeadersStep ==
    ASSUME Headers, [Next]_vars
    PROVE  Headers'
<1>1. Shape /\ ProposerBehind /\ HeadersInStore
  BY DEF Headers
<1>2. Shape'
  BY <1>1, ShapeStep, Zenon
<1>3. ASSUME \/ process_committed_headers \/ handle_proposal_result \/ \E d \in Digest : push_digest(d)
             \/ GiveUp \/ \E s \in Signers : Certify(s)
             \/ UNCHANGED vars
      PROVE  ProposerBehind' /\ HeadersInStore'
  <2>1. /\ snaps' = snaps /\ round' = round /\ parents' = parents /\ parentsQ' = parentsQ
        /\ rewound' = rewound /\ sent' = sent /\ lost' = lost
    BY <1>3, Zenon DEF process_committed_headers, handle_proposal_result, push_digest, GiveUp, Certify,
       vars, proposerVars
  <2> QED BY <1>1, <2>1, StoreSame, BehindSame, HeadersSame, Zenon
<1>4. ASSUME process_parents PROVE ProposerBehind' /\ HeadersInStore'
  <2>1. snaps' = snaps /\ lost' = lost /\ sent' = sent /\ rewound' = rewound
    BY <1>4, Zenon DEF process_parents
  <2> QED BY <1>1, <1>4, <2>1, BehindParents, HeadersSame, Zenon
<1>5. ASSUME Again \/ \E h : Anew(h) PROVE ProposerBehind' /\ HeadersInStore'
  BY <1>1, <1>5, BehindSend, HeadersAgain, HeadersAnew, Zenon
<1>6. ASSUME Quorum PROVE ProposerBehind' /\ HeadersInStore'
  BY <1>1, <1>6, BehindQuorum, HeadersQuorum, Zenon
<1>7. ASSUME NEW k \in 1..Len(snaps), Begin(k) PROVE ProposerBehind' /\ HeadersInStore'
  BY <1>1, <1>7, BehindBegin, HeadersBegin, Zenon
<1>8. Step \/ UNCHANGED vars
  BY <1>1, Steps, Zenon
<1>9. ProposerBehind' /\ HeadersInStore'
  BY <1>1, <1>3, <1>4, <1>5, <1>6, <1>7, <1>8, HeadersNode, Zenon DEF Step
<1> QED BY <1>2, <1>9 DEF Headers

\* The invariants about headers hold at the start.
LEMMA HeadersInit ==
    ASSUME Init
    PROVE  Headers
<1>1. Shape
  BY ShapeInit
<1>2. snaps = <<Fresh>> /\ round = 0 /\ sent = {} /\ parentsQ = <<>>
  BY Zenon DEF Init
<1>3. store.last.round = 0
  BY <1>2 DEF store, Fresh, NoHeader, Header
<1>4. ProposerBehind
  <2>1. 0 <= 0 + 1 /\ \A i \in 1..Len(<<>>) : FALSE
    OBVIOUS
  <2> QED BY <1>2, <1>3, <2>1, Zenon DEF ProposerBehind
<1>5. HeadersInStore
  BY <1>2, Zenon DEF HeadersInStore
<1> QED BY <1>1, <1>4, <1>5 DEF Headers

-----------------------------------------------------------------------------
(***************************************************************************)
(* One certificate per header.                                             *)
(***************************************************************************)
\* Losses are never forgotten.
LEMMA LostGrows ==
    ASSUME known \subseteq known', lost \subseteq lost', NEW h, CertificateLost(h)
    PROVE  CertificateLost(h)'
BY Zenon DEF CertificateLost

\* Steps that leave the certifier alone.
LEMMA CertificatesSame ==
    ASSUME Certificates, store'.last = store.last, store.certs \subseteq store'.certs,
           known' = known, lost' = lost, sent' = sent, managerQ' = managerQ, inflight' = inflight
    PROVE  Certificates'
<1>1. \A h : CertificateLost(h) => CertificateLost(h)'
  BY LostGrows, Zenon
<1>2. \A h : IsCertified(h) => IsCertified(h)'
  BY Zenon DEF IsCertified
<1>3. Numbered'
  BY Zenon DEF Certificates, Numbered
<1>4. KnownStored' /\ OneCertificate'
  BY <1>1, <1>2, Zenon DEF Certificates, KnownStored, OneCertificate
<1>5. QueueApart' /\ QueueCurrent' /\ QueueFirst'
  BY <1>1, Zenon DEF Certificates, QueueApart, QueueCurrent, QueueFirst
<1>6. GatherFirst'
  BY <1>1, Zenon DEF Certificates, GatherFirst, Gathering, Sending
<1> QED BY <1>3, <1>4, <1>5, <1>6 DEF Certificates

\* A new header is none of those sent.
LEMMA AnewNumber ==
    ASSUME Shape, Numbered, NEW h, Anew(h)
    PROVE  h \notin sent /\ Numbered'
<1> DEFINE Of(r) == {g \in sent : g.round = r}
<1>1. IsFiniteSet(sent) /\ \A g \in sent : g.n \in Nat
  BY DEF Shape, StoreShape
<1>2. \A r : IsFiniteSet(Of(r)) /\ Cardinality(Of(r)) \in Nat
  <2> SUFFICES ASSUME NEW r PROVE IsFiniteSet(Of(r)) /\ Cardinality(Of(r)) \in Nat
    OBVIOUS
  <2>1. Of(r) \subseteq sent
    OBVIOUS
  <2> HIDE DEF Of
  <2>2. IsFiniteSet(Of(r))
    BY <1>1, <2>1, FS_Subset, Zenon
  <2> QED BY <2>2, FS_CardinalityType, Zenon
<1>3. h.n = 1 + Cardinality(Of(h.round)) /\ sent' = sent \cup {h}
  BY Zenon DEF Anew, store_and_send_header
<1>4. \A g \in sent : g.n <= Cardinality(Of(g.round))
  BY DEF Numbered
<1>5. h \notin sent
  <2>1. ASSUME h \in sent PROVE FALSE
    <3>1. h.n <= Cardinality(Of(h.round)) /\ Cardinality(Of(h.round)) \in Nat
      BY <1>2, <1>4, <2>1
    <3> HIDE DEF Of
    <3> QED BY <1>3, <3>1
  <2> QED BY <2>1
<1>6. ASSUME NEW g \in sent PROVE g.n <= Cardinality({f \in sent' : f.round = g.round})
  <2> DEFINE T == {f \in sent' : f.round = g.round}
  <2>1. Of(g.round) \subseteq T
    BY <1>3
  <2>2. IsFiniteSet(sent') /\ T \subseteq sent'
    BY <1>1, <1>3, FS_AddElement, Zenon
  <2> HIDE DEF T, Of
  <2>3. IsFiniteSet(T)
    BY <2>2, FS_Subset, Zenon
  <2>4. Cardinality(Of(g.round)) <= Cardinality(T)
    BY <2>1, <2>3, FS_Subset, Zenon
  <2>5. Cardinality(T) \in Nat
    BY <2>3, FS_CardinalityType, Zenon
  <2>6. g.n <= Cardinality(Of(g.round)) /\ Cardinality(Of(g.round)) \in Nat /\ g.n \in Nat
    BY <1>1, <1>2, <1>4, Zenon
  <2>7. g.n <= Cardinality(T)
    BY <2>4, <2>5, <2>6
  <2> QED BY <2>7 DEF T
<1>7. h.n <= Cardinality({f \in sent' : f.round = h.round})
  <2> DEFINE T == {f \in sent' : f.round = h.round}
  <2>1. T = Of(h.round) \cup {h} /\ h \notin Of(h.round)
    BY <1>3, <1>5
  <2> HIDE DEF T, Of
  <2>2. Cardinality(T) = Cardinality(Of(h.round)) + 1
    BY <1>2, <2>1, FS_AddElement, Zenon
  <2>3. h.n <= Cardinality(T)
    BY <1>2, <1>3, <2>2
  <2> QED BY <2>3 DEF T
<1>8. \A g \in sent' : g.n <= Cardinality({f \in sent' : f.round = g.round})
  BY <1>3, <1>6, <1>7
<1> QED BY <1>5, <1>8 DEF Numbered

\* No certificate is in the queue for a header the certifier has to vote on.
LEMMA NotSending ==
    ASSUME CertifierShape, QueueCurrent, NEW h, h = store.last \/ h \notin sent, inflight.header # h
    PROVE  ~Sending(h)
BY Zenon DEF CertifierShape, QueueCurrent, Sending

\* A header is sent to the certifier.
LEMMA CertificatesSend ==
    ASSUME Shape, Certificates, NEW h, store_and_send_header(h), h = store.last \/ h \notin sent, Numbered'
    PROVE  Certificates'
<1>1. StoreShape /\ CertifierShape
  BY DEF Shape
<1>2. store'.last = h /\ store'.certs = store.certs
  BY <1>1, SendStore, Zenon
<1>3. /\ known' = known /\ lost' = lost /\ managerQ' = managerQ
      /\ inflight' = IF inflight.header = h \/ IsCertified(h) THEN inflight ELSE Certificate(h, {})
  BY Zenon DEF store_and_send_header
<1>4. \A g : (CertificateLost(g) => CertificateLost(g)') /\ (IsCertified(g) => IsCertified(g)')
  BY <1>2, <1>3, LostGrows, Zenon DEF IsCertified
<1>5. KnownStored' /\ OneCertificate' /\ QueueApart' /\ QueueFirst'
  BY <1>3, <1>4, Zenon DEF Certificates, KnownStored, OneCertificate, QueueApart, QueueFirst
<1>6. QueueCurrent'
  <2>1. ASSUME NEW i \in 1..Len(managerQ), managerQ[i].header = h PROVE inflight' = managerQ[i]
    <3>1. managerQ[i].header \in sent
      BY <1>1, Zenon DEF CertifierShape
    <3>2. inflight = managerQ[i]
      BY <2>1, <3>1, Zenon DEF Certificates, QueueCurrent
    <3> QED BY <1>3, <2>1, <3>2, Zenon
  <2> QED BY <1>2, <1>3, <2>1, Zenon DEF QueueCurrent
<1>7. GatherFirst'
  <2>1. CASE inflight' = inflight
    BY <1>3, <1>4, <2>1, Zenon DEF Certificates, GatherFirst, Gathering, Sending
  <2>2. CASE inflight' # inflight
    <3>1. inflight' = Certificate(h, {}) /\ inflight.header # h /\ ~IsCertified(h)
      BY <1>3, <2>2, Zenon
    <3>2. inflight'.header = h
      BY <3>1 DEF Certificate
    <3>3. ~Sending(h)
      BY <1>1, <3>1, NotSending, Zenon DEF Certificates
    <3>4. \A b \in known : b.header = h => CertificateLost(b.header)
      BY <3>1, Zenon DEF Certificates, KnownStored
    <3> QED BY <1>3, <1>4, <3>2, <3>3, <3>4, Zenon DEF GatherFirst, Sending
  <2> QED BY <2>1, <2>2
<1> QED BY <1>5, <1>6, <1>7 DEF Certificates

\* The task in flight is not one that waits for the manager.
LEMMA GatheringAlone ==
    ASSUME CertifierShape, QueueCurrent, Gathering
    PROVE  \A i \in 1..Len(managerQ) : managerQ[i].header # store.last
BY SignersAssumption, Zenon DEF CertifierShape, QueueCurrent, Gathering

\* A proposal that is given up keeps Certificates.
LEMMA CertificatesGiveUp ==
    ASSUME Shape, Certificates, GiveUp
    PROVE  Certificates'
<1>1. /\ snaps' = snaps /\ known' = known /\ lost' = lost /\ sent' = sent /\ managerQ' = managerQ
      /\ inflight' = NoProposal /\ Gathering
  BY Zenon DEF GiveUp, Gathering
<1>2. store' = store
  BY <1>1, StoreSame, Zenon
<1>3. \A g : (CertificateLost(g) => CertificateLost(g)') /\ (IsCertified(g) => IsCertified(g)')
  BY <1>1, <1>2, LostGrows, Zenon DEF IsCertified
<1>4. Numbered' /\ KnownStored' /\ OneCertificate' /\ QueueApart' /\ QueueFirst'
  BY <1>1, <1>3, Zenon DEF Certificates, Numbered, KnownStored, OneCertificate, QueueApart, QueueFirst
<1>5. QueueCurrent'
  BY <1>1, <1>2, GatheringAlone, Zenon DEF Certificates, QueueCurrent, Shape
<1>6. GatherFirst'
  BY <1>1, Zenon DEF GatherFirst, Gathering
<1> QED BY <1>4, <1>5, <1>6 DEF Certificates

\* A quorum voted.
LEMMA CertificatesCertify ==
    ASSUME Shape, Certificates, NEW s \in Signers, Certify(s)
    PROVE  Certificates'
<1> DEFINE c == Certificate(inflight.header, s)
<1>1. c.header = inflight.header /\ c.signers = s /\ s # {}
  BY SignersAssumption DEF Certificate
<1>2. /\ snaps' = snaps /\ lost' = lost /\ sent' = sent /\ Gathering
      /\ IsCertified(c.header) => inflight' = NoProposal /\ known' = known \cup {c} /\ managerQ' = managerQ
      /\ ~IsCertified(c.header) => inflight' = c /\ managerQ' = Append(managerQ, c) /\ known' = known
  BY Zenon DEF Certify, Gathering
<1> HIDE DEF c
<1>3. store' = store /\ known \subseteq known'
  BY <1>2, StoreSame, Zenon
<1>4. \A g : (CertificateLost(g) => CertificateLost(g)') /\ (IsCertified(g) => IsCertified(g)')
  BY <1>2, <1>3, LostGrows, Zenon DEF IsCertified
<1>5. ~Sending(c.header) /\ \A b \in known : b.header = c.header => CertificateLost(b.header)
  BY <1>1, <1>2, Zenon DEF Certificates, GatherFirst
<1>6. \A i \in 1..Len(managerQ) : managerQ[i].header # store.last
  BY <1>2, GatheringAlone, Zenon DEF Certificates, Shape
<1>7. Numbered'
  BY <1>2, Zenon DEF Certificates, Numbered
<1>8. ~Gathering'
  BY <1>1, <1>2, Zenon DEF Gathering
<1>9. CASE IsCertified(c.header)
  <2>1. known' = known \cup {c} /\ managerQ' = managerQ
    BY <1>2, <1>9
  <2>2. KnownStored'
    BY <1>4, <1>9, <2>1, Zenon DEF Certificates, KnownStored
  <2>3. OneCertificate'
    BY <1>4, <1>5, <2>1, Zenon DEF Certificates, OneCertificate
  <2>4. QueueApart' /\ QueueCurrent'
    BY <1>3, <1>6, <2>1, Zenon DEF Certificates, QueueApart, QueueCurrent
  <2>5. QueueFirst'
    BY <1>4, <1>5, <2>1, Zenon DEF Certificates, QueueFirst, Sending
  <2> QED BY <1>7, <1>8, <2>2, <2>3, <2>4, <2>5 DEF Certificates, GatherFirst
<1>10. CASE ~IsCertified(c.header)
  <2>1. known' = known /\ managerQ' = Append(managerQ, c) /\ inflight' = c
    BY <1>2, <1>10
  <2>2. /\ Len(managerQ) \in Nat /\ Len(managerQ') = Len(managerQ) + 1
        /\ \A i \in 1..Len(managerQ) : managerQ'[i] = managerQ[i]
        /\ managerQ'[Len(managerQ) + 1] = c
    BY <2>1, Appended, Zenon DEF Shape, CertifierShape
  <2>3. \A i \in 1..Len(managerQ') : i \in 1..Len(managerQ) \/ i = Len(managerQ) + 1
    BY <2>2
  <2>4. KnownStored' /\ OneCertificate'
    BY <1>4, <2>1, Zenon DEF Certificates, KnownStored, OneCertificate
  <2>5. QueueApart'
    BY <1>5, <2>2, <2>3, Zenon DEF Certificates, QueueApart, Sending
  <2>6. QueueCurrent'
    BY <1>3, <1>6, <2>1, <2>2, <2>3, Zenon DEF QueueCurrent
  <2>7. QueueFirst'
    BY <1>4, <1>5, <2>1, <2>2, <2>3, Zenon DEF Certificates, QueueFirst
  <2> QED BY <1>7, <1>8, <2>4, <2>5, <2>6, <2>7 DEF Certificates, GatherFirst
<1> QED BY <1>9, <1>10

\* The manager stores the first certificate of its queue and answers.
LEMMA CertificatesManager ==
    ASSUME Shape, Certificates, ProcessOwnCertificate
    PROVE  Certificates'
<1>1. StoreShape /\ CertifierShape
  BY DEF Shape
<1>0. PICK c : c = Head(managerQ)
  OBVIOUS
<1>2. /\ managerQ # <<>> /\ managerQ' = Tail(managerQ) /\ sent' = sent /\ lost' = lost
      /\ inflight' = IF inflight = c THEN NoProposal ELSE inflight
      /\ IsCertified(c.header) => snaps' = snaps /\ (known' = known \/ known' = known \cup {c})
      /\ ~IsCertified(c.header) => Write([store EXCEPT !.certs = @ \cup {c}]) /\ known' = known \cup {c}
  BY <1>0, Zenon DEF ProcessOwnCertificate
<1>3. /\ c = managerQ[1] /\ 1 \in 1..Len(managerQ)
      /\ \A i \in 1..Len(managerQ') :
            i + 1 \in 1..Len(managerQ) /\ managerQ'[i] = managerQ[i + 1] /\ i + 1 # 1
  <2>1. ASequence(managerQ)
    BY <1>1 DEF CertifierShape
  <2>2. Len(managerQ) \in Nat /\ Len(managerQ) >= 1 /\ Len(Tail(managerQ)) = Len(managerQ) - 1
    BY <1>2, <2>1, Received, Zenon
  <2>3. 1 \in 1..Len(managerQ) /\ \A i \in 1..Len(Tail(managerQ)) : i + 1 # 1
    BY <2>2
  <2> QED BY <1>0, <1>2, <2>1, <2>3, Received, Zenon
<1>4. \A i \in 1..Len(managerQ') : managerQ'[i].header # c.header
  BY <1>3, Zenon DEF Certificates, QueueApart
<1>5. store'.last = store.last /\ store.certs \subseteq store'.certs /\ IsCertified(c.header)'
  <2>1. CASE IsCertified(c.header)
    BY <1>2, <2>1, StoreSame, Zenon DEF IsCertified
  <2>2. CASE ~IsCertified(c.header)
    <3>1. store'.last = store.last /\ store'.certs = store.certs \cup {c}
      BY <1>1, <1>2, <2>2, CertStore, Zenon
    <3> QED BY <3>1, Zenon DEF IsCertified
  <2> QED BY <2>1, <2>2
<1>6. known \subseteq known' /\ known' \subseteq known \cup {c}
  BY <1>2, Zenon
<1>7. \A g : (CertificateLost(g) => CertificateLost(g)') /\ (IsCertified(g) => IsCertified(g)')
  BY <1>2, <1>5, <1>6, LostGrows, Zenon DEF IsCertified
<1>8. Numbered'
  BY <1>2, Zenon DEF Certificates, Numbered
<1>9. KnownStored'
  BY <1>5, <1>6, <1>7, Zenon DEF Certificates, KnownStored
<1>10. OneCertificate'
  <2>1. \A b \in known : b.header = c.header => CertificateLost(b.header)
    BY <1>3, Zenon DEF Certificates, QueueFirst
  <2> QED BY <1>6, <1>7, <2>1, Zenon DEF Certificates, OneCertificate
<1>11. QueueApart'
  <2>1. ASSUME NEW i \in 1..Len(managerQ'), NEW j \in 1..Len(managerQ'), managerQ'[i].header = managerQ'[j].header
        PROVE  i = j
    <3>1. i + 1 \in 1..Len(managerQ) /\ j + 1 \in 1..Len(managerQ)
          /\ managerQ[i + 1].header = managerQ[j + 1].header
      BY <1>3, <2>1, Zenon
    <3>2. i + 1 = j + 1
      BY <3>1 DEF Certificates, QueueApart
    <3>3. i \in Int /\ j \in Int
      OBVIOUS
    <3> QED BY <3>2, <3>3
  <2> QED BY <2>1 DEF QueueApart
<1>12. QueueCurrent'
  <2>1. ASSUME NEW i \in 1..Len(managerQ'), managerQ'[i].header = store.last
        PROVE  inflight' = managerQ'[i]
    <3>1. inflight = managerQ'[i]
      BY <1>3, <2>1, Zenon DEF Certificates, QueueCurrent
    <3>2. inflight # c
      BY <1>4, <3>1, Zenon
    <3> QED BY <1>2, <3>1, <3>2, Zenon
  <2> QED BY <1>5, <2>1, Zenon DEF QueueCurrent
<1>13. QueueFirst'
  BY <1>3, <1>4, <1>6, <1>7, Zenon DEF Certificates, QueueFirst
<1>14. GatherFirst'
  <2> SUFFICES ASSUME Gathering' PROVE GatherFirst'
    BY DEF GatherFirst
  <2>1. inflight' = inflight /\ Gathering
    BY <1>2, Zenon DEF Gathering
  <2>2. ~Sending(inflight.header) /\ \A b \in known : b.header = inflight.header => CertificateLost(b.header)
    BY <2>1, Zenon DEF Certificates, GatherFirst
  <2>3. c.header # inflight.header /\ \A i \in 1..Len(managerQ') : managerQ'[i].header # inflight.header
    BY <1>3, <2>2, Zenon DEF Sending
  <2> QED BY <1>6, <1>7, <2>1, <2>2, <2>3, Zenon DEF GatherFirst, Sending
<1> QED BY <1>8, <1>9, <1>10, <1>11, <1>12, <1>13, <1>14 DEF Certificates

\* A start: a known certificate that is not stored any more is lost.
LEMMA CertificatesBegin ==
    ASSUME Shape, Certificates, NEW k \in 1..Len(snaps), Begin(k)
    PROVE  Certificates'
<1>1. Start(snaps[k]) /\ Stopped(snaps[k]) /\ store' = snaps[k] /\ lost \subseteq lost'
      /\ \A c \in store.certs : c \in snaps[k].certs \/ c \in lost'
  BY DEF Begin
<1>2. sent' = sent /\ known' = known /\ managerQ' = <<>> /\ inflight' = NoProposal
  BY <1>1, Zenon DEF Start, Stopped
<1>3. \A i \in 1..Len(managerQ') : FALSE
  <2>1. \A i \in 1..Len(<<>>) : FALSE
    OBVIOUS
  <2> QED BY <1>2, <2>1, Zenon
<1>4. \A g : CertificateLost(g) => CertificateLost(g)'
  BY <1>1, <1>2, LostGrows, Zenon
<1>5. store.certs \subseteq known
  BY StoreIsSnap, Zenon DEF Shape, SnapShape
<1>6. \A g : IsCertified(g) => IsCertified(g)' \/ CertificateLost(g)'
  BY <1>1, <1>2, <1>5, Zenon DEF IsCertified, CertificateLost
<1>7. Numbered' /\ KnownStored' /\ OneCertificate'
  BY <1>2, <1>4, <1>6, Zenon DEF Certificates, Numbered, KnownStored, OneCertificate
<1>8. QueueApart' /\ QueueCurrent' /\ QueueFirst'
  BY <1>3, Zenon DEF QueueApart, QueueCurrent, QueueFirst
<1>9. GatherFirst'
  BY <1>2, Zenon DEF GatherFirst, Gathering
<1> QED BY <1>7, <1>8, <1>9 DEF Certificates

\* Every step keeps Certificates.
LEMMA CertificatesStep ==
    ASSUME Shape, Certificates, [Next]_vars
    PROVE  Certificates'
<1>1. StoreShape
  BY DEF Shape
<1>2. ASSUME \/ process_parents \/ process_committed_headers \/ handle_proposal_result
             \/ UNCHANGED vars \/ \E d \in Digest : push_digest(d)
      PROVE  Certificates'
  <2>1. /\ snaps' = snaps /\ known' = known /\ lost' = lost /\ sent' = sent
        /\ managerQ' = managerQ /\ inflight' = inflight
    BY <1>2, Zenon DEF process_parents, process_committed_headers, handle_proposal_result, push_digest,
       vars, certifierVars
  <2> QED BY <2>1, StoreSame, CertificatesSame, Zenon
<1>3. ASSUME \/ Quorum \/ \E c \in known : PeerCertificate(c)
             \/ \E r \in 1..MaxRound : \E own \in SUBSET Orderable(r) : Commit(r, own)
      PROVE  Certificates'
  <2>1. /\ known' = known /\ lost' = lost /\ sent' = sent
        /\ managerQ' = managerQ /\ inflight' = inflight
    BY <1>3, Zenon DEF PeerCertificate, Quorum, Commit, certifierVars
  <2>2. ASSUME NEW c, PeerCertificate(c) PROVE store'.last = store.last /\ store.certs \subseteq store'.certs
    <3>1. Write([store EXCEPT !.certs = @ \cup {c}])
      BY <2>2, Zenon DEF PeerCertificate
    <3> QED BY <1>1, <3>1, CertStore, Zenon
  <2>3. store'.last = store.last /\ store.certs \subseteq store'.certs
    BY <1>1, <1>3, <2>2, QuorumStore, CommitStore, Zenon
  <2> QED BY <2>1, <2>3, CertificatesSame, Zenon
<1>4. ASSUME Again PROVE Certificates'
  <2>1. store_and_send_header(store.last) /\ store.last # NoHeader
    BY <1>4 DEF Again
  <2>2. store.last \in sent
    BY <1>1, <2>1, StoreIsSnap, Zenon DEF SnapShape
  <2>3. sent' = sent
    BY <2>1, <2>2, Zenon DEF store_and_send_header
  <2>4. Numbered'
    BY <2>3, Zenon DEF Certificates, Numbered
  <2> QED BY <2>1, <2>4, CertificatesSend, Zenon
<1>5. ASSUME NEW h, Anew(h) PROVE Certificates'
  <2>1. h \notin sent /\ Numbered' /\ store_and_send_header(h)
    BY <1>5, AnewNumber, Zenon DEF Certificates, Anew
  <2> QED BY <2>1, CertificatesSend, Zenon
<1>6. Step \/ UNCHANGED vars
  BY Steps, Zenon
<1>7. ASSUME \/ GiveUp \/ ProcessOwnCertificate \/ \E s \in Signers : Certify(s)
             \/ \E k \in 1..Len(snaps) : Begin(k)
      PROVE  Certificates'
  BY <1>7, CertificatesGiveUp, CertificatesCertify, CertificatesManager, CertificatesBegin, Zenon
<1> QED BY <1>2, <1>3, <1>4, <1>5, <1>6, <1>7, Zenon DEF Step

\* Certificates holds at the start.
LEMMA CertificatesInit ==
    ASSUME Init
    PROVE  Certificates
<1>1. known = {} /\ sent = {} /\ managerQ = <<>> /\ inflight = NoProposal
  BY Zenon DEF Init
<1>2. \A i \in 1..Len(managerQ) : FALSE
  <2>1. \A i \in 1..Len(<<>>) : FALSE
    OBVIOUS
  <2> QED BY <1>1, <2>1, Zenon
<1> QED BY <1>1, <1>2, Zenon DEF Certificates, Numbered, KnownStored, OneCertificate, QueueApart,
           QueueCurrent, QueueFirst, GatherFirst, Gathering

\* For every number of rounds, restarts and crashes: the proposer sends one
\* header per round and a header gets one certificate unless a write died with
\* the process (store_and_send_header, the certifier's run and the manager).
THEOREM OnceUnlessLostTheorem == Spec => []OnceUnlessLost
<1>1. Init => Headers /\ Certificates
  BY HeadersInit, CertificatesInit
<1>2. Headers /\ Certificates /\ [Next]_vars => Headers' /\ Certificates'
  BY HeadersStep, CertificatesStep DEF Headers
<1>3. Headers /\ Certificates => OnceUnlessLost
  <2> SUFFICES ASSUME Headers, Certificates PROVE OnceUnlessLost
    OBVIOUS
  <2>1. \A g, h \in sent : Twins(g, h) => rewound \/ g \in lost \/ h \in lost
    BY Zenon DEF Headers, HeadersInStore
  <2>2. \A b, c \in known : b.header = c.header /\ b # c =>
           \E d \in known \cap lost : d.header = b.header
    BY Zenon DEF Certificates, OneCertificate, CertificateLost
  <2> QED BY <2>1, <2>2 DEF OnceUnlessLost
<1> QED BY <1>1, <1>2, <1>3, PTL DEF Spec

-----------------------------------------------------------------------------
(***************************************************************************)
(* What is requeued for good does not commit.                              *)
(***************************************************************************)
\* Steps without a commit and without a requeue.
LEMMA RequeuedSame ==
    ASSUME StoreShape, Requeued, outputs' = outputs, commitQ' = commitQ, retired' = retired,
           sent \subseteq sent',
           \/ snaps' = snaps
           \/ \E s : Write(s) /\ s.commit = store.commit /\ s.own = store.own
    PROVE  Requeued'
<1>1. OutputsApart'
  BY Zenon DEF Requeued, OutputsApart
<1>2. \A i \in 1..Len(snaps') : SnapCommitted(snaps'[i], outputs')
  <2>1. CASE snaps' = snaps
    BY <2>1, Zenon DEF Requeued
  <2>2. ASSUME NEW s, Write(s), s.commit = store.commit, s.own = store.own
        PROVE  \A i \in 1..Len(snaps') : SnapCommitted(snaps'[i], outputs')
    <3>1. SnapCommitted(store, outputs)
      BY StoreIsSnap, Zenon DEF Requeued
    <3>2. SnapCommitted(s, outputs)
      BY <2>2, <3>1, Zenon DEF SnapCommitted
    <3>3. ASequence(snaps) /\ Len(snaps) >= 1
      BY DEF StoreShape
    <3>4. \A j \in 1..Len(snaps') : snaps'[j] = s \/ \E i \in 1..Len(snaps) : snaps'[j] = snaps[i]
      BY <2>2, <3>3, OldOrNew, Zenon
    <3> QED BY <3>2, <3>4, Zenon DEF Requeued
  <2> QED BY <2>1, <2>2, Zenon
<1>3. \A i \in 1..Len(commitQ') : \E o \in outputs' : commitQ'[i].own = {g.round : g \in o.own}
  BY Zenon DEF Requeued
<1>4. \A h \in retired' : Passed(h)'
  BY Zenon DEF Requeued, Passed
<1> QED BY <1>1, <1>2, <1>3, <1>4 DEF Requeued

\* The rounds of an output.
LEMMA OutputRounds ==
    ASSUME StoreShape, OutputsApart, NEW o \in outputs
    PROVE  /\ o.round \in Nat /\ GcDepth \in Nat /\ MaxRound \in Nat
           /\ \A g \in o.own : g.round \in Nat
           /\ {g.round : g \in o.own} \subseteq 0..MaxRound
<1>1. MaxRound \in Nat /\ GcDepth \in Nat
  BY BoundAssumption
<1>2. o.round \in Nat /\ \A g \in o.own : g.round \in 1..MaxRound
  BY Zenon DEF OutputsApart, StoreShape
<1>3. \A x \in 1..MaxRound : x \in Nat /\ x \in 0..MaxRound
  BY <1>1
<1> QED BY <1>1, <1>2, <1>3, Zenon

\* process_committed_headers requeues for good below an own commit.
LEMMA RequeuedCommitted ==
    ASSUME Shape, Requeued, process_committed_headers
    PROVE  Requeued'
<1>1. StoreShape /\ ProposerShape /\ OutputsApart
  BY DEF Shape, Requeued
<1> DEFINE own == Head(commitQ).own
<1>2. /\ commitQ # <<>> /\ commitQ' = Tail(commitQ) /\ outputs' = outputs /\ snaps' = snaps /\ sent' = sent
      /\ \A h \in retired' : h \in retired \/ (own # {} /\ h \in proposed /\ h.round < Max(own))
  BY Zenon DEF process_committed_headers
<1>3. /\ Head(commitQ) = commitQ[1] /\ 1 \in 1..Len(commitQ)
      /\ \A i \in 1..Len(commitQ') : i + 1 \in 1..Len(commitQ) /\ commitQ'[i] = commitQ[i + 1]
  <2>1. ASequence(commitQ)
    BY <1>1 DEF ProposerShape
  <2>2. Len(commitQ) \in Nat /\ Len(commitQ) >= 1
    BY <1>2, <2>1, Received, Zenon
  <2>3. 1 \in 1..Len(commitQ)
    BY <2>2
  <2> QED BY <1>2, <2>1, <2>3, Received, Zenon
<1>4. PICK o \in outputs : own = {g.round : g \in o.own}
  BY <1>3, Zenon DEF Requeued
<1> HIDE DEF own
<1>5. ASSUME NEW h \in retired' PROVE Passed(h)'
  <2>1. CASE h \in retired
    BY <1>2, <2>1, Zenon DEF Requeued, Passed
  <2>2. CASE own # {} /\ h.round < Max(own)
    <3>1. own \subseteq 0..MaxRound /\ MaxRound \in Nat
      BY <1>1, <1>4, OutputRounds, Zenon
    <3>2. Max(own) \in own
      BY <2>2, <3>1, MaxRounds, Zenon
    <3>3. PICK g \in o.own : g.round = Max(own)
      BY <1>4, <3>2, Zenon
    <3>4. h.round < g.round
      BY <2>2, <3>3
    <3> QED BY <1>2, <3>4, Zenon DEF Passed
  <2> QED BY <1>2, <2>1, <2>2, Zenon
<1>6. OutputsApart'
  BY <1>1, <1>2, Zenon DEF OutputsApart
<1>7. ASSUME NEW i \in 1..Len(commitQ')
      PROVE  \E p \in outputs' : commitQ'[i].own = {g.round : g \in p.own}
  <2>1. i + 1 \in 1..Len(commitQ) /\ commitQ'[i] = commitQ[i + 1]
    BY <1>3, Zenon
  <2>2. PICK p \in outputs : commitQ[i + 1].own = {g.round : g \in p.own}
    BY <2>1, Zenon DEF Requeued
  <2> QED BY <1>2, <2>1, <2>2
<1>8. \A i \in 1..Len(snaps') : SnapCommitted(snaps'[i], outputs')
  BY <1>2, Zenon DEF Requeued
<1> QED BY <1>5, <1>6, <1>7, <1>8 DEF Requeued

\* evict_old_proposed_headers requeues for good below the gc horizon.
LEMMA RequeuedEvicted ==
    ASSUME Shape, Requeued, handle_proposal_result
    PROVE  Requeued'
<1>1. StoreShape /\ ProposerShape /\ OutputsApart
  BY DEF Shape, Requeued
<1>2. /\ commitQ' = commitQ /\ outputs' = outputs /\ snaps' = snaps /\ sent' = sent /\ pending # NoHeader
      /\ \A h \in retired' : h \in retired
            \/ (h \in proposed \cup {pending} /\ h.round <= store.commit - GcDepth)
  BY Zenon DEF handle_proposal_result, Evicted, committed_round
<1>3. ASSUME NEW h \in proposed \cup {pending}, h.round <= store.commit - GcDepth PROVE Passed(h)
  <2>1. h \in sent
    BY <1>1, <1>2, Zenon DEF ProposerShape
  <2>2. h.round \in 1..MaxRound /\ MaxRound \in Nat /\ GcDepth \in Nat
    BY <1>1, <2>1, BoundAssumption DEF StoreShape
  <2>3. store.commit # 0
    BY <1>3, <2>2
  <2>4. SnapCommitted(store, outputs)
    BY <1>1, StoreIsSnap, Zenon DEF Requeued
  <2>5. PICK o \in outputs : o.round = store.commit
    BY <2>3, <2>4, Zenon DEF SnapCommitted
  <2> QED BY <1>3, <2>5, Zenon DEF Passed
<1>4. \A h \in retired' : Passed(h)'
  BY <1>2, <1>3, Zenon DEF Requeued, Passed
<1>5. OutputsApart'
  BY <1>1, <1>2, Zenon DEF OutputsApart
<1>6. /\ \A i \in 1..Len(commitQ') : \E p \in outputs' : commitQ'[i].own = {g.round : g \in p.own}
      /\ \A i \in 1..Len(snaps') : SnapCommitted(snaps'[i], outputs')
  BY <1>2, Zenon DEF Requeued
<1> QED BY <1>4, <1>5, <1>6 DEF Requeued

\* A commit: either the network has made it before, or it is above all others.
LEMMA CommitAgrees ==
    ASSUME Shape, Requeued, NEW r \in 1..MaxRound, NEW own \in SUBSET Orderable(r), Commit(r, own)
    PROVE  LET o == [round |-> r, own |-> own] IN
           /\ o.round = r /\ o.own = own /\ outputs' = outputs \cup {o} /\ store.commit < r
           /\ store.commit \in Nat
           /\ o \in outputs => \A p \in outputs : p.round > store.commit => r <= p.round
           /\ o \notin outputs => \A p \in outputs : p.round <= store.commit
<1> DEFINE o == [round |-> r, own |-> own]
<1> DEFINE later == {p \in outputs : p.round > store.commit}
<1>1. o.round = r /\ o.own = own
  OBVIOUS
<1>2. outputs' = outputs \cup {o} /\ store.commit < r /\ Agreed(o)
  BY Zenon DEF Commit
<1> HIDE DEF o
<1>3. later # {} => o \in later /\ \A p \in later : o.round <= p.round
  BY <1>2, Zenon DEF Agreed
<1>4. store.commit \in Nat
  BY StoreIsSnap, SnapRounds, Zenon DEF Shape
<1>5. ASSUME o \in outputs, NEW p \in outputs, p.round > store.commit PROVE r <= p.round
  BY <1>1, <1>3, <1>5, Zenon
<1>6. ASSUME o \notin outputs, NEW p \in outputs PROVE p.round <= store.commit
  <2>1. ~(p.round > store.commit)
    BY <1>3, <1>6, Zenon
  <2>2. p.round \in Nat
    BY DEF Requeued, OutputsApart
  <2> QED BY <1>4, <2>1, <2>2
<1> QED BY <1>1, <1>2, <1>4, <1>5, <1>6, Zenon DEF o

\* A commit keeps Requeued: it lies above all earlier outputs, or is one.
LEMMA RequeuedCommit ==
    ASSUME Shape, Requeued, NEW r \in 1..MaxRound, NEW own \in SUBSET Orderable(r), Commit(r, own)
    PROVE  Requeued'
<1>1. StoreShape /\ ProposerShape /\ OutputsApart
  BY DEF Shape, Requeued
<1>2. PICK o : o = [round |-> r, own |-> own]
  OBVIOUS
<1>3. /\ o.round = r /\ o.own = own /\ outputs' = outputs \cup {o} /\ store.commit < r
      /\ store.commit \in Nat
      /\ o \in outputs => \A p \in outputs : p.round > store.commit => r <= p.round
      /\ o \notin outputs => \A p \in outputs : p.round <= store.commit
  BY <1>2, CommitAgrees, Zenon
<1> DEFINE last == Max({store.own} \cup {h.round : h \in own})
<1>4. own \subseteq sent /\ r \in Nat /\ last \in Nat /\ store.own <= last /\ \A h \in own : h.round <= last
  BY <1>1, CommitOwn, Zenon
<1>5. sent' = sent /\ retired' = retired
      /\ commitQ' = Append(commitQ, [round |-> r, own |-> {h.round : h \in own}])
  BY Zenon DEF Commit
<1>6. PICK s : Write(s) /\ s.commit = r /\ s.own = last
  <2> DEFINE t == Snap(store.last, store.certs, store.top, r, last)
  <2>1. Write(t)
    BY <1>1, CommitStore, Zenon
  <2> HIDE DEF last
  <2>2. t.commit = r /\ t.own = last
    BY SnapFields
  <2> HIDE DEF t
  <2> QED BY <2>1, <2>2, Zenon
<1> HIDE DEF last
<1>7. \A p \in outputs : p.round \in Nat
  BY <1>1 DEF OutputsApart
<1>8. OutputsApart'
  <2>1. \A p \in outputs' : p.round \in Nat /\ p.own \subseteq sent'
    BY <1>1, <1>3, <1>4, <1>5, Zenon DEF OutputsApart
  <2>2. ASSUME o \notin outputs, NEW p \in outputs PROVE p.round # o.round
    <3>1. p.round <= store.commit
      BY <1>3, <2>2, Zenon
    <3> QED BY <1>3, <1>4, <1>7, <3>1
  <2>3. \A p, q \in outputs' : p.round = q.round => p = q
    BY <1>1, <1>3, <2>2, Zenon DEF OutputsApart
  <2> QED BY <2>1, <2>3 DEF OutputsApart
<1>9. SnapCommitted(store, outputs) /\ store.own \in Nat
  BY <1>1, StoreIsSnap, SnapRounds, Zenon DEF Requeued
<1>10. SnapCommitted(s, outputs')
  <2>1. \E p \in outputs' : p.round = s.commit
    BY <1>3, <1>6, Zenon
  <2>2. ASSUME NEW p \in outputs', p.round <= r, NEW g \in p.own PROVE g.round <= last
    <3>1. CASE p = o
      BY <1>3, <1>4, <2>2, <3>1, Zenon
    <3>2. CASE p \in outputs /\ p.round <= store.commit
      <4>1. g.round <= store.own
        BY <1>9, <2>2, <3>2, Zenon DEF SnapCommitted
      <4>2. g.round \in Nat
        BY <1>1, <2>2, <3>2, OutputRounds, Zenon
      <4> QED BY <1>4, <1>9, <4>1, <4>2
    <3>3. CASE p \in outputs /\ ~(p.round <= store.commit)
      <4>1. p.round \in Nat /\ p.round > store.commit
        BY <1>3, <1>7, <3>3
      <4>2. o \in outputs
        BY <1>3, <3>3, Zenon
      <4>3. r <= p.round
        BY <1>3, <3>3, <4>1, <4>2, Zenon
      <4>4. p.round = o.round
        BY <1>3, <1>4, <2>2, <4>1, <4>3
      <4>5. p = o
        BY <1>1, <3>3, <4>2, <4>4, Zenon DEF OutputsApart
      <4> QED BY <3>1, <4>5
    <3> QED BY <1>3, <3>1, <3>2, <3>3, Zenon
  <2> QED BY <1>6, <2>1, <2>2, Zenon DEF SnapCommitted
<1>11. ASSUME NEW i \in 1..Len(snaps) PROVE SnapCommitted(snaps[i], outputs')
  <2>1. SnapCommitted(snaps[i], outputs)
    BY DEF Requeued
  <2>2. CASE o \in outputs
    <3>1. outputs' = outputs
      BY <1>3, <2>2, Zenon
    <3> QED BY <2>1, <3>1, Zenon
  <2>3. CASE o \notin outputs
    <3>1. snaps[i].commit \in Nat
      BY <1>1, SnapRounds, Zenon DEF StoreShape
    <3>2. snaps[i].commit = 0 \/ snaps[i].commit <= store.commit
      BY <1>3, <2>1, <2>3, Zenon DEF SnapCommitted
    <3>3. ~(o.round <= snaps[i].commit)
      BY <1>3, <1>4, <3>1, <3>2
    <3> QED BY <1>3, <2>1, <3>3, Zenon DEF SnapCommitted
  <2> QED BY <2>2, <2>3
<1>12. \A i \in 1..Len(snaps') : SnapCommitted(snaps'[i], outputs')
  <2>1. ASequence(snaps) /\ Len(snaps) >= 1
    BY <1>1 DEF StoreShape
  <2>2. \A j \in 1..Len(snaps') : snaps'[j] = s \/ \E i \in 1..Len(snaps) : snaps'[j] = snaps[i]
    BY <1>6, <2>1, OldOrNew, Zenon
  <2> QED BY <1>10, <1>11, <2>2, Zenon
<1>13. ASSUME NEW i \in 1..Len(commitQ')
       PROVE  \E p \in outputs' : commitQ'[i].own = {g.round : g \in p.own}
  <2> DEFINE e == [round |-> r, own |-> {h.round : h \in own}]
  <2>1. e.own = {h.round : h \in own}
    OBVIOUS
  <2> HIDE DEF e
  <2>2. /\ Len(commitQ) \in Nat /\ Len(commitQ') = Len(commitQ) + 1
        /\ \A j \in 1..Len(commitQ) : commitQ'[j] = commitQ[j]
        /\ commitQ'[Len(commitQ) + 1] = e
    BY <1>1, <1>5, Appended, Zenon DEF ProposerShape, e
  <2>3. CASE i \in 1..Len(commitQ)
    <3>1. PICK p \in outputs : commitQ[i].own = {g.round : g \in p.own}
      BY <2>3, Zenon DEF Requeued
    <3> QED BY <1>3, <2>2, <2>3, <3>1
  <2>4. CASE i = Len(commitQ) + 1
    BY <1>3, <2>1, <2>2, <2>4
  <2>5. i \in 1..Len(commitQ) \/ i = Len(commitQ) + 1
    BY <2>2
  <2> QED BY <2>3, <2>4, <2>5
<1>14. \A h \in retired' : Passed(h)'
  BY <1>3, <1>5, Zenon DEF Requeued, Passed
<1> QED BY <1>8, <1>12, <1>13, <1>14 DEF Requeued

\* A restart or a crash keeps Requeued.
LEMMA RequeuedBegin ==
    ASSUME Shape, Requeued, NEW k \in 1..Len(snaps), Begin(k)
    PROVE  Requeued'
<1>1. /\ Start(snaps[k]) /\ Stopped(snaps[k]) /\ Len(snaps') = k /\ \A i \in 1..k : snaps'[i] = snaps[i]
  BY DEF Begin
<1>2. sent' = sent /\ outputs' = outputs /\ retired' = retired /\ commitQ' = <<>>
  BY <1>1, Zenon DEF Start, Stopped
<1>3. \A i \in 1..Len(commitQ') : FALSE
  <2>1. \A i \in 1..Len(<<>>) : FALSE
    OBVIOUS
  <2> QED BY <1>2, <2>1, Zenon
<1>4. Len(snaps) \in Nat
  BY StoreIsSnap, Zenon DEF Shape
<1>5. \A i \in 1..k : i \in 1..Len(snaps)
  BY <1>4
<1>6. \A i \in 1..Len(snaps') : SnapCommitted(snaps'[i], outputs')
  BY <1>1, <1>2, <1>5, Zenon DEF Requeued
<1>7. OutputsApart' /\ \A h \in retired' : Passed(h)'
  BY <1>2, Zenon DEF Requeued, OutputsApart, Passed
<1> QED BY <1>3, <1>6, <1>7, Zenon DEF Requeued

\* Every step keeps Requeued.
LEMMA RequeuedStep ==
    ASSUME Shape, Requeued, [Next]_vars
    PROVE  Requeued'
<1>1. StoreShape
  BY DEF Shape
<1>2. ASSUME \/ process_parents \/ UNCHANGED vars \/ GiveUp
             \/ \E d \in Digest : push_digest(d)
             \/ \E s \in Signers : Certify(s)
      PROVE  Requeued'
  <2>1. snaps' = snaps /\ outputs' = outputs /\ commitQ' = commitQ /\ retired' = retired /\ sent' = sent
    BY <1>2, Zenon DEF process_parents, push_digest, GiveUp, Certify, vars
  <2> QED BY <1>1, <2>1, RequeuedSame, Zenon
<1>3. ASSUME NEW h, store_and_send_header(h) PROVE Requeued'
  <2>1. outputs' = outputs /\ commitQ' = commitQ /\ retired' = retired /\ sent \subseteq sent'
    BY <1>3, Zenon DEF store_and_send_header
  <2> DEFINE s == Snap(h, store.certs, store.top, store.commit, store.own)
  <2>2. Write(s)
    BY <1>1, <1>3, SendStore, Zenon
  <2>3. s.commit = store.commit /\ s.own = store.own
    BY SnapFields
  <2> HIDE DEF s
  <2> QED BY <1>1, <2>1, <2>2, <2>3, RequeuedSame, Zenon
<1>4. ASSUME NEW c, snaps' = snaps \/ Write([store EXCEPT !.certs = @ \cup {c}]),
             outputs' = outputs, commitQ' = commitQ, retired' = retired, sent' = sent
      PROVE  Requeued'
  <2>1. CASE snaps' = snaps
    BY <1>1, <1>4, <2>1, RequeuedSame, Zenon
  <2>2. CASE Write([store EXCEPT !.certs = @ \cup {c}])
    <3> DEFINE s == Snap(store.last, store.certs \cup {c}, store.top, store.commit, store.own)
    <3>1. Write(s)
      BY <1>1, <2>2, CertStore, Zenon
    <3>2. s.commit = store.commit /\ s.own = store.own
      BY SnapFields
    <3> HIDE DEF s
    <3> QED BY <1>1, <1>4, <3>1, <3>2, RequeuedSame, Zenon
  <2> QED BY <1>4, <2>1, <2>2
<1>5. ASSUME ProcessOwnCertificate PROVE Requeued'
  <2>1. /\ snaps' = snaps \/ Write([store EXCEPT !.certs = @ \cup {Head(managerQ)}])
        /\ outputs' = outputs /\ commitQ' = commitQ /\ retired' = retired /\ sent' = sent
    BY <1>5, Zenon DEF ProcessOwnCertificate
  <2> QED BY <1>4, <2>1, Zenon
<1>6. ASSUME NEW c \in known, PeerCertificate(c) PROVE Requeued'
  <2>1. /\ Write([store EXCEPT !.certs = @ \cup {c}])
        /\ outputs' = outputs /\ commitQ' = commitQ /\ retired' = retired /\ sent' = sent
    BY <1>6, Zenon DEF PeerCertificate
  <2> QED BY <1>4, <2>1, Zenon
<1>7. ASSUME Quorum PROVE Requeued'
  <2>1. outputs' = outputs /\ commitQ' = commitQ /\ retired' = retired /\ sent' = sent
    BY <1>7, Zenon DEF Quorum
  <2> DEFINE s == Snap(store.last, store.certs, store.top + 1, store.commit, store.own)
  <2>2. Write(s)
    BY <1>1, <1>7, QuorumStore, Zenon
  <2>3. s.commit = store.commit /\ s.own = store.own
    BY SnapFields
  <2> HIDE DEF s
  <2> QED BY <1>1, <2>1, <2>2, <2>3, RequeuedSame, Zenon
<1>8. ASSUME Again \/ \E h : Anew(h) PROVE Requeued'
  BY <1>3, <1>8, Zenon DEF Again, Anew
<1>9. Step \/ UNCHANGED vars
  BY Steps, Zenon
<1> QED BY <1>2, <1>5, <1>6, <1>7, <1>8, <1>9, RequeuedCommitted, RequeuedEvicted, RequeuedCommit,
           RequeuedBegin, Zenon DEF Step

\* Requeued holds at the start.
LEMMA RequeuedInit ==
    ASSUME Init
    PROVE  Requeued
<1>1. snaps = <<Fresh>> /\ outputs = {} /\ commitQ = <<>> /\ retired = {}
  BY Zenon DEF Init
<1>2. \A i \in 1..Len(snaps) : snaps[i].commit = 0
  BY <1>1 DEF Fresh
<1>3. \A i \in 1..Len(commitQ) : FALSE
  <2>1. \A i \in 1..Len(<<>>) : FALSE
    OBVIOUS
  <2> QED BY <1>1, <2>1, Zenon
<1> QED BY <1>1, <1>2, <1>3, Zenon DEF Requeued, OutputsApart, SnapCommitted

\* A new output has none of the headers requeued for good.
LEMMA CommitSkips ==
    ASSUME Shape, Requeued, NEW r \in 1..MaxRound, NEW own \in SUBSET Orderable(r), Commit(r, own),
           NEW h \in own, h \in retired
    PROVE  h \in delivered
<1>1. StoreShape /\ OutputsApart
  BY DEF Shape, Requeued
<1>2. PICK o : o = [round |-> r, own |-> own]
  OBVIOUS
<1>3. /\ o.own = own /\ store.commit \in Nat
      /\ o \notin outputs => \A p \in outputs : p.round <= store.commit
  BY <1>2, CommitAgrees, Zenon
<1>4. CASE o \in outputs
  BY <1>3, <1>4, Zenon DEF delivered
<1>5. CASE o \notin outputs
  <2>1. PICK c \in store.certs :
          /\ h = c.header /\ c.header.round > store.own
          /\ \E q \in store.commit + 1 .. r : q % 2 = 0 /\ q - GcDepth < c.header.round /\ c.header.round <= q
    BY Zenon DEF Orderable
  <2>2. PICK q \in store.commit + 1 .. r : q - GcDepth < h.round
    BY <2>1, Zenon
  <2>3. h.round > store.own
    BY <2>1, Zenon
  <2>4. /\ h.round \in 1..MaxRound /\ store.own \in Nat
    BY <1>1, CommitOwn, StoreIsSnap, SnapRounds, Zenon DEF StoreShape
  <2>5. r \in Nat /\ MaxRound \in Nat /\ GcDepth \in Nat
    BY BoundAssumption
  <2>6. PICK p \in outputs : (\E g \in p.own : h.round < g.round) \/ h.round <= p.round - GcDepth
    BY Zenon DEF Requeued, Passed
  <2>7. p.round \in Nat /\ p.round <= store.commit /\ \A g \in p.own : g.round \in Nat
    BY <1>1, <1>3, <1>5, OutputRounds, Zenon
  <2>8. SnapCommitted(store, outputs)
    BY <1>1, StoreIsSnap, Zenon DEF Requeued
  <2>9. \A g \in p.own : g.round <= store.own
    BY <2>7, <2>8, Zenon DEF SnapCommitted
  <2>10. CASE h.round <= p.round - GcDepth
    BY <1>3, <2>2, <2>4, <2>5, <2>7, <2>10
  <2>11. ASSUME NEW g \in p.own, h.round < g.round PROVE FALSE
    <3>1. g.round \in Nat /\ g.round <= store.own
      BY <2>7, <2>9
    <3> QED BY <2>3, <2>4, <2>5, <2>11, <3>1
  <2> QED BY <2>6, <2>10, <2>11
<1> QED BY <1>4, <1>5

\* For every number of rounds, restarts and crashes: a header whose digests were
\* requeued below an own commit or the gc horizon is in no later commit
\* (process_committed_headers, evict_old_proposed_headers).
THEOREM RequeuedForGoodTheorem == Spec => RequeuedForGood
<1> DEFINE Skips == (UNION {o.own : o \in outputs'}) \cap retired \subseteq delivered
<1>1. Init => Shape /\ Requeued
  BY ShapeInit, RequeuedInit
<1>2. Shape /\ Requeued /\ [Next]_vars => Shape' /\ Requeued'
  BY ShapeStep, RequeuedStep
<1>3. Shape /\ Requeued /\ [Next]_vars => [Skips]_vars
  <2> SUFFICES ASSUME Shape, Requeued, Next PROVE Skips
    OBVIOUS
  <2>1. CASE outputs' = outputs
    BY <2>1, Zenon DEF delivered
  <2>2. ASSUME NEW r \in 1..MaxRound, NEW own \in SUBSET Orderable(r), Commit(r, own) PROVE Skips
    <3>1. PICK o : o = [round |-> r, own |-> own]
      OBVIOUS
    <3>2. o.own = own /\ outputs' = outputs \cup {o}
      BY <2>2, <3>1, CommitAgrees, Zenon
    <3>3. \A h \in own : h \in retired => h \in delivered
      BY <2>2, CommitSkips, Zenon
    <3> QED BY <3>2, <3>3, Zenon DEF delivered
  <2>3. \/ outputs' = outputs
        \/ \E r \in 1..MaxRound : \E own \in SUBSET Orderable(r) : Commit(r, own)
    <3>1. Step
      BY Steps, Zenon
    <3> QED BY <3>1, Zenon DEF Step, process_parents, process_committed_headers, handle_proposal_result,
               push_digest, Again, Anew, store_and_send_header, GiveUp, Certify, ProcessOwnCertificate,
               PeerCertificate, Quorum, Begin, Stopped
  <2> QED BY <2>1, <2>2, <2>3, Zenon
<1> QED BY <1>1, <1>2, <1>3, PTL DEF Spec, RequeuedForGood

(***************************************************************************)
(* No acknowledged digest is dropped while the proposer runs.              *)
(***************************************************************************)

\* f joins the payloads of the headers hs, round by round up to n.
Joined(hs, f, n) ==
    f[0] = <<>> /\ \A i \in 1..n : f[i] = f[i - 1] \o PayloadOf(hs, i)

\* There is such an f for every n, by the least n for which there is none.
LEMMA JoinedExists ==
    ASSUME NEW hs, NEW n \in Nat
    PROVE  \E f : Joined(hs, f, n)
<1> DEFINE T == {m \in Nat : ~\E f : Joined(hs, f, m)}
<1> SUFFICES ASSUME T # {} PROVE FALSE
  OBVIOUS
<1>1. PICK m \in T : \A y \in T : m <= y
  BY LeastNatural
<1>2. m \in Nat /\ ~\E f : Joined(hs, f, m)
  BY <1>1
<1>3. CASE m = 0
  <2> DEFINE f == [i \in Nat |-> <<>>]
  <2>1. f[0] = <<>> /\ 1..m = {}
    BY <1>3
  <2>2. Joined(hs, f, m)
    BY <2>1, Zenon DEF Joined
  <2> QED BY <1>2, <2>2, Zenon
<1>4. CASE m # 0
  <2>1. m - 1 \in Nat /\ m - 1 \notin T
    BY <1>1, <1>2, <1>4
  <2>2. PICK f : Joined(hs, f, m - 1)
    BY <2>1, Zenon
  <2> DEFINE g == [i \in Nat |-> IF i = m THEN f[m - 1] \o PayloadOf(hs, m) ELSE f[i]]
  <2>3. g[0] = f[0] /\ g[m] = f[m - 1] \o PayloadOf(hs, m)
    BY <1>2, <1>4
  <2>4. \A i \in 1..m : i - 1 \in Nat /\ i \in Nat /\ i - 1 # m
    BY <1>2
  <2>5. \A i \in 1..m : g[i - 1] = f[i - 1]
    BY <2>4, Zenon
  <2>6. \A i \in 1..m : i # m => i \in 1..(m - 1) /\ g[i] = f[i]
    BY <1>2
  <2> HIDE DEF g
  <2>7. ASSUME NEW i \in 1..m PROVE g[i] = g[i - 1] \o PayloadOf(hs, i)
    <3>1. CASE i = m
      BY <2>3, <2>5, <3>1, Zenon
    <3>2. CASE i # m
      BY <2>2, <2>5, <2>6, <3>2, Zenon DEF Joined
    <3> QED BY <3>1, <3>2
  <2>8. Joined(hs, g, m)
    BY <2>2, <2>3, <2>7, Zenon DEF Joined
  <2> QED BY <1>2, <2>8, Zenon
<1> QED BY <1>3, <1>4

\* Two of them agree.
LEMMA JoinedAgree ==
    ASSUME NEW hs, NEW f, NEW g, NEW n \in Nat, Joined(hs, f, n), Joined(hs, g, n)
    PROVE  f[n] = g[n]
<1> DEFINE T == {i \in 0..n : f[i] # g[i]}
<1> SUFFICES ASSUME T # {} PROVE FALSE
  OBVIOUS
<1>0. T \subseteq Nat
  OBVIOUS
<1>1. PICK i \in T : \A y \in T : i <= y
  BY <1>0, LeastNatural
<1>2. i \in 0..n /\ f[i] # g[i]
  BY <1>1
<1>3. i # 0
  BY <1>2, Zenon DEF Joined
<1>4. i \in 1..n /\ i - 1 \in 0..n /\ i - 1 \notin T
  BY <1>1, <1>2, <1>3
<1>5. f[i - 1] = g[i - 1]
  BY <1>4, Zenon
<1> QED BY <1>2, <1>4, <1>5, Zenon DEF Joined

\* The function that requeue_front joins the payloads with.
LEMMA JoinedChosen ==
    ASSUME NEW hs, NEW F, NEW n \in Nat,
           F = CHOOSE f : f = [r \in Nat |-> IF r = 0 THEN <<>> ELSE f[r - 1] \o PayloadOf(hs, r)]
    PROVE  Joined(hs, F, n)
<1> DEFINE G(m) == CHOOSE f : Joined(hs, f, m)
           H == [m \in Nat |-> G(m)[m]]
<1>1. ASSUME NEW m \in Nat PROVE Joined(hs, G(m), m)
  BY JoinedExists, Zenon
<1>2. ASSUME NEW m \in Nat, m # 0 PROVE H[m] = H[m - 1] \o PayloadOf(hs, m)
  <2>1. m - 1 \in Nat /\ m \in 1..m /\ \A i \in 1..(m - 1) : i \in 1..m
    BY <1>2
  <2>2. Joined(hs, G(m), m - 1) /\ Joined(hs, G(m - 1), m - 1)
    BY <1>1, <2>1, Zenon DEF Joined
  <2> HIDE DEF G
  <2>3. G(m)[m - 1] = G(m - 1)[m - 1]
    BY <2>1, <2>2, JoinedAgree
  <2>4. G(m)[m] = G(m)[m - 1] \o PayloadOf(hs, m)
    BY <1>1, <1>2, <2>1, Zenon DEF Joined
  <2> QED BY <1>2, <2>1, <2>3, <2>4, Zenon
<1>3. H[0] = <<>>
  BY <1>1, Zenon DEF Joined
<1> HIDE DEF G
<1>4. H = [m \in Nat |-> IF m = 0 THEN <<>> ELSE H[m - 1] \o PayloadOf(hs, m)]
  <2>1. \A m \in Nat : G(m)[m] = IF m = 0 THEN <<>> ELSE H[m - 1] \o PayloadOf(hs, m)
    BY <1>2, <1>3, Zenon
  <2> QED BY <2>1, Zenon
<1> HIDE DEF H
<1>5. F = [m \in Nat |-> IF m = 0 THEN <<>> ELSE F[m - 1] \o PayloadOf(hs, m)]
  BY <1>4, Zenon
<1>6. \A m \in Nat : F[m] = IF m = 0 THEN <<>> ELSE F[m - 1] \o PayloadOf(hs, m)
  BY <1>5, Zenon
<1>7. F[0] = <<>>
  BY <1>6, Zenon
<1>8. \A i \in 1..n : i \in Nat /\ i # 0
  OBVIOUS
<1> QED BY <1>6, <1>7, <1>8, Zenon DEF Joined

\* Proposed headers: one for a round, each with a payload.
Apart(hs) ==
    /\ \A h \in hs : h.round \in 1..MaxRound /\ h.payload \in Seq(Digest)
    /\ \A g, h \in hs : g.round = h.round => g = h

\* A concatenation has the elements of both sequences.
LEMMA Concatenated ==
    ASSUME NEW s \in Seq(Digest), NEW t \in Seq(Digest)
    PROVE  s \o t \in Seq(Digest) /\ Range(s) \subseteq Range(s \o t) /\ Range(t) \subseteq Range(s \o t)
<1>1. Range(s \o t) = Range(s) \cup Range(t)
  BY RangeConcatenation, Zenon
<1>2. s \o t \in Seq(Digest)
  OBVIOUS
<1> QED BY <1>1, <1>2, Zenon

\* The joined payloads have every digest of every header up to round n.
LEMMA JoinedKeeps ==
    ASSUME NEW hs, Apart(hs), NEW f, NEW n \in Nat, Joined(hs, f, n)
    PROVE  f[n] \in Seq(Digest) /\ \A h \in hs : h.round <= n => Range(h.payload) \subseteq Range(f[n])
<1> DEFINE Good(m) == /\ f[m] \in Seq(Digest)
                      /\ \A h \in hs : h.round <= m => Range(h.payload) \subseteq Range(f[m])
           T == {m \in 0..n : ~Good(m)}
<1> SUFFICES ASSUME T # {} PROVE FALSE
  OBVIOUS
<1>0. T \subseteq Nat
  OBVIOUS
<1>1. PICK m \in T : \A y \in T : m <= y
  BY <1>0, LeastNatural
<1>2. m \in 0..n /\ ~Good(m)
  BY <1>1, Zenon
<1>3. \A h \in hs : h.round \in Nat /\ h.round >= 1
  BY DEF Apart
<1>4. m # 0
  <2>1. ASSUME m = 0 PROVE Good(m)
    <3>1. f[m] = <<>>
      BY <2>1, Zenon DEF Joined
    <3>2. \A h \in hs : ~(h.round <= m)
      BY <1>3, <2>1
    <3>3. <<>> \in Seq(Digest)
      OBVIOUS
    <3> QED BY <3>1, <3>2, <3>3, Zenon
  <2> QED BY <1>2, <2>1, Zenon
<1>5. m \in 1..n /\ m - 1 \in 0..n /\ m - 1 \notin T
  <2>1. m \in 1..n /\ m - 1 \in 0..n
    BY <1>2, <1>4
  <2>2. ~(m <= m - 1)
    BY <2>1
  <2> QED BY <1>1, <2>1, <2>2, Zenon
<1>6. Good(m - 1)
  BY <1>5, Zenon
<1>7. f[m] = f[m - 1] \o PayloadOf(hs, m)
  BY <1>5, Zenon DEF Joined
<1>8. PayloadOf(hs, m) \in Seq(Digest) /\ \A h \in hs : h.round = m => PayloadOf(hs, m) = h.payload
  <2>1. ASSUME NEW h \in hs, h.round = m PROVE PayloadOf(hs, m) = h.payload /\ h.payload \in Seq(Digest)
    <3> DEFINE g == CHOOSE g \in hs : g.round = m
    <3>1. g \in hs /\ g.round = m
      BY <2>1, Zenon
    <3>2. g = h
      BY <2>1, <3>1, Zenon DEF Apart
    <3>3. PayloadOf(hs, m) = g.payload
      BY <2>1, Zenon DEF PayloadOf
    <3> QED BY <3>2, <3>3, Zenon DEF Apart
  <2>2. (~\E h \in hs : h.round = m) => PayloadOf(hs, m) = <<>>
    BY Zenon DEF PayloadOf
  <2>3. <<>> \in Seq(Digest)
    OBVIOUS
  <2> QED BY <2>1, <2>2, <2>3, Zenon
<1>9. /\ f[m] \in Seq(Digest) /\ Range(f[m - 1]) \subseteq Range(f[m])
      /\ Range(PayloadOf(hs, m)) \subseteq Range(f[m])
  BY <1>6, <1>7, <1>8, Concatenated, Zenon
<1>10. ASSUME NEW h \in hs, h.round <= m PROVE Range(h.payload) \subseteq Range(f[m])
  <2>1. h.round = m \/ h.round <= m - 1
    BY <1>3, <1>5, <1>10
  <2>2. CASE h.round = m
    BY <1>8, <1>9, <2>2, Zenon
  <2>3. CASE h.round <= m - 1
    BY <1>6, <1>9, <2>3, Zenon
  <2> QED BY <2>1, <2>2, <2>3
<1>11. Good(m)
  BY <1>9, <1>10, Zenon
<1> QED BY <1>2, <1>11, Zenon

\* requeue_front drops no digest.
LEMMA RequeueKeeps ==
    ASSUME NEW hs, Apart(hs), digests \in Seq(Digest)
    PROVE  /\ requeue_front(hs) \in Seq(Digest)
           /\ Range(digests) \subseteq Range(requeue_front(hs))
           /\ \A h \in hs : Range(h.payload) \subseteq Range(requeue_front(hs))
<1> DEFINE F == CHOOSE f : f = [r \in Nat |-> IF r = 0 THEN <<>> ELSE f[r - 1] \o PayloadOf(hs, r)]
<1>1. MaxRound \in Nat
  BY BoundAssumption
<1>2. Joined(hs, F, MaxRound)
  BY <1>1, JoinedChosen, Zenon
<1>3. requeue_front(hs) = F[MaxRound] \o digests
  BY Zenon DEF requeue_front
<1> HIDE DEF F
<1>4. F[MaxRound] \in Seq(Digest) /\ \A h \in hs : h.round <= MaxRound => Range(h.payload) \subseteq Range(F[MaxRound])
  BY <1>1, <1>2, JoinedKeeps, Zenon
<1>5. \A h \in hs : h.round <= MaxRound
  BY <1>1 DEF Apart
<1> QED BY <1>3, <1>4, <1>5, Concatenated, Zenon

\* What is acknowledged belongs to this life of the proposer or an earlier one.
AckedLives ==
    stops \in Nat /\ \A d, life : <<d, life>> \in acked => life \in Nat /\ life <= stops

\* Where the digest d may be.
DigestKept(d) ==
    \/ d \in Range(digests)
    \/ \E h \in proposed \cup {pending} \cup delivered : d \in Range(h.payload)
    \/ \E g, h \in sent : Twins(g, h) /\ d \in Range(h.payload)

Kept ==
    /\ AckedLives
    /\ digests \in Seq(Digest)
    /\ \A h \in sent : h.payload \in Seq(Digest)
    /\ \A g, h \in proposed : g.round = h.round => g = h
    /\ \A d \in Digest : <<d, stops>> \in acked => DigestKept(d)

\* Steps that leave the proposer alone.
LEMMA KeptSame ==
    ASSUME Kept, UNCHANGED <<digests, proposed, pending, sent, acked, stops>>, outputs \subseteq outputs'
    PROVE  Kept'
<1>1. AckedLives'
  BY Zenon DEF Kept, AckedLives
<1>2. delivered \subseteq delivered'
  BY Zenon DEF delivered
<1>3. \A d : DigestKept(d) => DigestKept(d)'
  BY <1>2, Zenon DEF DigestKept, Twins
<1>4. digests' \in Seq(Digest) /\ \A h \in sent' : h.payload \in Seq(Digest)
  BY Zenon DEF Kept
<1>5. \A g, h \in proposed' : g.round = h.round => g = h
  BY Zenon DEF Kept
<1>6. \A d \in Digest : <<d, stops'>> \in acked' => DigestKept(d)'
  BY <1>3, Zenon DEF Kept
<1> QED BY <1>1, <1>4, <1>5, <1>6, Zenon DEF Kept

\* The payload of no header is empty.
LEMMA NoPayload == \A d : d \notin Range(NoHeader.payload)
<1>1. NoHeader.payload = <<>>
  BY DEF NoHeader, Header
<1>2. Range(<<>>) = {}
  BY DEF Range
<1> QED BY <1>1, <1>2, Zenon

\* A batch digest arrives.
LEMMA KeptPush ==
    ASSUME Kept, NEW e \in Digest, push_digest(e)
    PROVE  Kept'
<1>1. /\ acked' = acked \cup {<<e, stops>>} /\ digests' = Append(digests, e)
      /\ proposed' = proposed /\ pending' = pending /\ sent' = sent /\ stops' = stops /\ outputs' = outputs
  BY Zenon DEF push_digest
<1>2. digests \in Seq(Digest) /\ stops \in Nat /\ stops <= stops
  BY DEF Kept, AckedLives
<1>3. digests' \in Seq(Digest) /\ Range(digests) \subseteq Range(digests') /\ e \in Range(digests')
  <2>1. <<e>> \in Seq(Digest) /\ digests' = digests \o <<e>> /\ e \in Range(<<e>>)
    BY <1>1, <1>2, AppendIsConcat DEF Range
  <2> QED BY <1>2, <2>1, Concatenated, Zenon
<1>4. AckedLives'
  <2>1. ASSUME NEW d, NEW life, <<d, life>> \in acked' PROVE life \in Nat /\ life <= stops
    <3>1. <<d, life>> \in acked \/ <<d, life>> = <<e, stops>>
      BY <1>1, <2>1, Zenon
    <3>2. CASE <<d, life>> \in acked
      BY <3>2, Zenon DEF Kept, AckedLives
    <3>3. CASE <<d, life>> = <<e, stops>>
      BY <1>2, <3>3
    <3> QED BY <3>1, <3>2, <3>3
  <2> QED BY <1>1, <1>2, <2>1, Zenon DEF AckedLives
<1>5. ASSUME NEW d \in Digest, <<d, stops>> \in acked' PROVE DigestKept(d)'
  <2>1. <<d, stops>> \in acked \/ d = e
    <3>1. <<d, stops>> \in acked \/ <<d, stops>> = <<e, stops>>
      BY <1>1, <1>5, Zenon
    <3> QED BY <3>1
  <2>2. CASE d = e
    BY <1>3, <2>2, Zenon DEF DigestKept
  <2>3. CASE <<d, stops>> \in acked
    <3>1. DigestKept(d)
      BY <2>3, Zenon DEF Kept
    <3>2. delivered' = delivered
      BY <1>1, Zenon DEF delivered
    <3> QED BY <1>1, <1>3, <3>1, <3>2, Zenon DEF DigestKept, Twins
  <2> QED BY <2>1, <2>2, <2>3
<1>6. \A g, h \in proposed' : g.round = h.round => g = h
  BY <1>1, Zenon DEF Kept
<1>7. \A h \in sent' : h.payload \in Seq(Digest)
  BY <1>1, Zenon DEF Kept
<1> QED BY <1>1, <1>3, <1>4, <1>5, <1>6, <1>7, Zenon DEF Kept

\* A header is built with the digests in front, or sent once more.
LEMMA KeptSend ==
    ASSUME Kept, ProposerShape, NEW h, store_and_send_header(h), pending = NoHeader,
           h.payload \in Seq(Digest), digests' \in Seq(Digest),
           \A d \in Range(digests) : d \in Range(digests') \/ d \in Range(h.payload)
    PROVE  Kept'
<1>1. /\ pending' = h /\ sent' = sent \cup {h} /\ proposed' = proposed /\ stops' = stops /\ acked' = acked
      /\ outputs' = outputs
  BY Zenon DEF store_and_send_header
<1>2. delivered' = delivered
  BY <1>1, Zenon DEF delivered
<1>3. ASSUME NEW d, DigestKept(d) PROVE DigestKept(d)'
  <2>1. CASE d \in Range(digests)
    BY <1>1, <2>1, Zenon DEF DigestKept
  <2>2. ASSUME NEW g \in proposed \cup {pending} \cup delivered, d \in Range(g.payload) PROVE DigestKept(d)'
    <3>1. g # NoHeader
      BY <2>2, NoPayload, Zenon
    <3> QED BY <1>1, <1>2, <2>2, <3>1, Zenon DEF DigestKept
  <2>3. CASE \E g, f \in sent : Twins(g, f) /\ d \in Range(f.payload)
    BY <1>1, <2>3, Zenon DEF DigestKept, Twins
  <2> QED BY <1>3, <2>1, <2>2, <2>3, Zenon DEF DigestKept
<1>4. \A d \in Digest : <<d, stops'>> \in acked' => DigestKept(d)'
  BY <1>1, <1>3, Zenon DEF Kept
<1>5. AckedLives' /\ (\A f \in sent' : f.payload \in Seq(Digest)) /\ \A g, f \in proposed' : g.round = f.round => g = f
  BY <1>1, Zenon DEF Kept, AckedLives
<1> QED BY <1>4, <1>5, Zenon DEF Kept

\* The lesser of two numbers, as propose_next_header takes it.
LEMMA MinOfTwo ==
    ASSUME NEW a \in Nat, NEW b \in Nat
    PROVE  Min({a, b}) \in Nat /\ Min({a, b}) <= a
<1>1. \E x \in {a, b} : \A y \in {a, b} : x <= y
  <2>1. CASE a <= b
    BY <2>1
  <2>2. CASE ~(a <= b)
    BY <2>2
  <2> QED BY <2>1, <2>2
<1>2. Min({a, b}) \in {a, b} /\ \A y \in {a, b} : Min({a, b}) <= y
  BY <1>1, Zenon DEF Min
<1> QED BY <1>2, Zenon

\* propose_next_header moves the first digests into the pending header.
LEMMA KeptPropose ==
    ASSUME Shape, Kept, propose_next_header \/ repropose_header
    PROVE  Kept'
<1>1. /\ ProposerShape /\ digests \in Seq(Digest) /\ pending = NoHeader
      /\ store.last \in sent \cup {NoHeader} /\ MaxBatches \in Nat
  <2>1. pending = NoHeader
    BY Zenon DEF propose_next_header, repropose_header
  <2>2. store.last \in sent \cup {NoHeader}
    BY StoreIsSnap, Zenon DEF Shape, SnapShape
  <2> QED BY <2>1, <2>2, BoundAssumption DEF Shape, Kept
<1>2. store.last.payload \in Seq(Digest)
  <2>1. NoHeader.payload = <<>> /\ <<>> \in Seq(Digest)
    BY DEF NoHeader, Header
  <2> QED BY <1>1, <2>1, Zenon DEF Kept
<1>3. ASSUME store_and_send_header(store.last), digests' = digests PROVE Kept'
  BY <1>1, <1>2, <1>3, KeptSend, Zenon
<1>4. CASE repropose_header
  BY <1>3, <1>4, Zenon DEF repropose_header
<1>5. CASE propose_next_header
  <2> DEFINE k == Min({Len(digests), MaxBatches})
             n == 1 + Cardinality({h \in sent : h.round = round + 1})
             h == Header(round + 1, SubSeq(digests, 1, k), n)
  <2>1. CASE store.last.round = round + 1
    BY <1>3, <1>5, <2>1, Zenon DEF propose_next_header
  <2>2. CASE store.last.round # round + 1
    <3>1. store_and_send_header(h) /\ digests' = SubSeq(digests, k + 1, Len(digests))
      BY <1>5, <2>2, Zenon DEF propose_next_header
    <3>2. h.payload = SubSeq(digests, 1, k)
      BY DEF Header
    <3>3. Len(digests) \in Nat
      BY <1>1
    <3>4. k \in Nat /\ k <= Len(digests)
      BY <1>1, <3>3, MinOfTwo, Zenon
    <3> HIDE DEF h, k
    <3>5. SubSeq(digests, 1, k) \in Seq(Digest) /\ digests' \in Seq(Digest)
      BY <1>1, <3>1, <3>3, <3>4
    <3>6. ASSUME NEW d \in Range(digests) PROVE d \in Range(digests') \/ d \in Range(h.payload)
      <4>1. PICK i \in 1..Len(digests) : d = digests[i]
        BY <1>1, <3>6, RangeEquality
      <4>2. CASE i <= k
        <5>1. i \in 1..Len(SubSeq(digests, 1, k)) /\ SubSeq(digests, 1, k)[i] = d
          BY <1>1, <3>3, <3>4, <4>1, <4>2
        <5> QED BY <3>2, <3>5, <5>1, RangeEquality
      <4>3. CASE ~(i <= k)
        <5>1. i - k \in 1..Len(digests') /\ digests'[i - k] = d
          BY <1>1, <3>1, <3>3, <3>4, <4>1, <4>3
        <5> QED BY <3>5, <5>1, RangeEquality
      <4> QED BY <4>2, <4>3
    <3>7. h.payload \in Seq(Digest)
      BY <3>2, <3>5
    <3> QED BY <1>1, <3>1, <3>5, <3>6, <3>7, KeptSend, Zenon
  <2> QED BY <2>1, <2>2
<1> QED BY <1>4, <1>5

\* Headers leave proposed_headers only as committed, as the twin of another
\* header of their round, or to be requeued.
LEMMA KeptRequeue ==
    ASSUME Shape, Kept, NEW hs, NEW resend, resend \subseteq hs, Apart(hs), proposed' = hs \ resend,
           digests' = requeue_front(resend), pending' \in {pending, NoHeader},
           UNCHANGED <<sent, acked, stops, outputs>>,
           \A h \in proposed \cup {pending} :
             \/ h \in hs
             \/ h = pending'
             \/ h \in delivered
             \/ h = NoHeader
             \/ \E g \in sent : h \in sent /\ Twins(g, h)
    PROVE  Kept'
<1>1. delivered' = delivered /\ digests \in Seq(Digest)
  BY Zenon DEF delivered, Kept
<1>2. Apart(resend)
  BY Zenon DEF Apart
<1>3. /\ digests' \in Seq(Digest) /\ Range(digests) \subseteq Range(digests')
      /\ \A h \in resend : Range(h.payload) \subseteq Range(digests')
  BY <1>1, <1>2, RequeueKeeps, Zenon
<1>4. ASSUME NEW d, DigestKept(d) PROVE DigestKept(d)'
  <2>1. CASE d \in Range(digests)
    BY <1>3, <2>1, Zenon DEF DigestKept
  <2>2. CASE \E g, f \in sent : Twins(g, f) /\ d \in Range(f.payload)
    BY <2>2, Zenon DEF DigestKept, Twins
  <2>3. ASSUME NEW h \in delivered, d \in Range(h.payload) PROVE DigestKept(d)'
    BY <1>1, <2>3, Zenon DEF DigestKept
  <2>4. ASSUME NEW h \in proposed \cup {pending}, d \in Range(h.payload) PROVE DigestKept(d)'
    <3>1. h # NoHeader
      BY <2>4, NoPayload, Zenon
    <3>2. CASE h \in resend
      BY <1>3, <2>4, <3>2, Zenon DEF DigestKept
    <3>3. CASE h \in proposed' \cup {pending'}
      BY <2>4, <3>3, Zenon DEF DigestKept
    <3>4. CASE \E g \in sent : h \in sent /\ Twins(g, h)
      BY <2>2, <2>4, <3>4, Zenon
    <3>5. CASE h \in delivered
      BY <2>3, <2>4, <3>5, Zenon
    <3> QED BY <3>1, <3>2, <3>3, <3>4, <3>5, Zenon
  <2> QED BY <1>4, <2>1, <2>2, <2>3, <2>4, Zenon DEF DigestKept
<1>5. \A d \in Digest : <<d, stops'>> \in acked' => DigestKept(d)'
  BY <1>4, Zenon DEF Kept
<1>6. AckedLives' /\ (\A f \in sent' : f.payload \in Seq(Digest))
  BY Zenon DEF Kept, AckedLives
<1>7. \A g, f \in proposed' : g.round = f.round => g = f
  BY Zenon DEF Apart
<1> QED BY <1>3, <1>5, <1>6, <1>7, Zenon DEF Kept

\* The headers that may be proposed are apart.
LEMMA ProposedApart ==
    ASSUME Shape, Kept
    PROVE  Apart(proposed) /\ (pending # NoHeader => Apart({h \in proposed : h.round # pending.round} \cup {pending}))
<1>1. /\ \A h \in sent : h.round \in 1..MaxRound /\ h.payload \in Seq(Digest)
      /\ proposed \subseteq sent /\ pending \in sent \cup {NoHeader}
      /\ \A g, h \in proposed : g.round = h.round => g = h
  BY Zenon DEF Shape, StoreShape, ProposerShape, Kept
<1>2. Apart(proposed)
  BY <1>1, Zenon DEF Apart
<1>3. ASSUME pending # NoHeader PROVE Apart({h \in proposed : h.round # pending.round} \cup {pending})
  <2>1. pending \in sent
    BY <1>1, <1>3, Zenon
  <2> QED BY <1>1, <2>1, Zenon DEF Apart
<1> QED BY <1>2, <1>3

\* process_committed_headers keeps Kept: what it drops is committed or a twin.
LEMMA KeptCommitted ==
    ASSUME Shape, Requeued, Kept, process_committed_headers
    PROVE  Kept'
<1> DEFINE own == Head(commitQ).own
           left == {h \in proposed : h.round \notin own}
<1>1. /\ commitQ # <<>> /\ pending' = pending /\ UNCHANGED <<sent, acked, stops, outputs>>
      /\ \E resend \in SUBSET left : proposed' = left \ resend /\ digests' = requeue_front(resend)
  BY Zenon DEF process_committed_headers
<1>2. PICK o \in outputs : own = {g.round : g \in o.own}
  <2>1. ASequence(commitQ)
    BY DEF Shape, ProposerShape
  <2>2. Len(commitQ) \in Nat /\ Len(commitQ) >= 1 /\ Head(commitQ) = commitQ[1]
    BY <1>1, <2>1, Received, Zenon
  <2>3. 1 \in 1..Len(commitQ)
    BY <2>2
  <2> QED BY <2>2, <2>3, Zenon DEF Requeued
<1>3. o.own \subseteq sent /\ o.own \subseteq delivered
  BY Zenon DEF Requeued, OutputsApart, delivered
<1>4. proposed \subseteq sent
  BY DEF Shape, ProposerShape
<1>5. ASSUME NEW h \in proposed \cup {pending}
      PROVE  \/ h \in left \/ h = pending' \/ h \in delivered \/ h = NoHeader
             \/ \E g \in sent : h \in sent /\ Twins(g, h)
  <2>1. CASE h = pending
    BY <1>1, <2>1, Zenon
  <2>2. CASE h \in proposed /\ h.round \notin own
    BY <2>2, Zenon
  <2>3. CASE h \in proposed /\ h.round \in own
    <3>1. PICK g \in o.own : h.round = g.round
      BY <1>2, <2>3, Zenon
    <3> QED BY <1>3, <1>4, <2>3, <3>1, Zenon DEF Twins
  <2> QED BY <2>1, <2>2, <2>3, Zenon
<1>6. Apart(left)
  <2>1. Apart(proposed)
    BY ProposedApart, Zenon
  <2> QED BY <2>1, Zenon DEF Apart
<1> HIDE DEF left
<1>7. PICK resend \in SUBSET left : proposed' = left \ resend /\ digests' = requeue_front(resend)
  BY <1>1, Zenon
<1> QED BY <1>1, <1>5, <1>6, <1>7, KeptRequeue, Zenon

\* handle_proposal_result keeps Kept: what it replaces is a twin.
LEMMA KeptResult ==
    ASSUME Shape, Kept, handle_proposal_result
    PROVE  Kept'
<1> DEFINE hs == {h \in proposed : h.round # pending.round} \cup {pending}
<1>1. /\ pending # NoHeader /\ pending' = NoHeader /\ UNCHANGED <<sent, acked, stops, outputs>>
      /\ proposed' = hs \ Evicted(hs) /\ digests' = requeue_front(Evicted(hs))
  BY Zenon DEF handle_proposal_result
<1>2. Evicted(hs) \subseteq hs
  BY Zenon DEF Evicted
<1>3. Apart(hs)
  BY <1>1, ProposedApart, Zenon
<1>4. proposed \subseteq sent /\ pending \in sent
  BY <1>1, Zenon DEF Shape, ProposerShape
<1>5. ASSUME NEW h \in proposed \cup {pending}
      PROVE  \/ h \in hs \/ h = pending' \/ h \in delivered \/ h = NoHeader
             \/ \E g \in sent : h \in sent /\ Twins(g, h)
  <2>1. CASE h = pending \/ h.round # pending.round
    BY <2>1, Zenon
  <2>2. CASE h # pending /\ h.round = pending.round
    BY <1>4, <2>2, Zenon DEF Twins
  <2> QED BY <2>1, <2>2, Zenon
<1> HIDE DEF hs
<1> QED BY <1>1, <1>2, <1>3, <1>5, KeptRequeue, Zenon

\* Every step keeps Kept.
LEMMA KeptStep ==
    ASSUME Shape, Requeued, Kept, [Next]_vars
    PROVE  Kept'
<1>1. ASSUME NEW k \in 1..Len(snaps), Begin(k) PROVE Kept'
  <2>1. /\ digests' = <<>> /\ proposed' = {} /\ stops' = stops + 1 /\ acked' = acked /\ sent' = sent
    BY <1>1, Zenon DEF Begin, Start, Stopped
  <2>2. stops' \in Nat /\ \A life \in Nat : life <= stops => life <= stops' /\ life # stops'
    BY <2>1 DEF Kept, AckedLives
  <2>3. AckedLives' /\ \A d : <<d, stops'>> \notin acked'
    BY <2>1, <2>2, Zenon DEF Kept, AckedLives
  <2>4. digests' \in Seq(Digest)
    BY <2>1
  <2> QED BY <2>1, <2>3, <2>4, Zenon DEF Kept
<1>2. ASSUME \/ process_parents \/ UNCHANGED vars \/ GiveUp \/ ProcessOwnCertificate \/ Quorum
             \/ \E s \in Signers : Certify(s)
      PROVE  Kept'
  <2>1. UNCHANGED <<digests, proposed, pending, sent, acked, stops, outputs>>
    BY <1>2, Zenon DEF process_parents, GiveUp, ProcessOwnCertificate, Quorum, Certify, vars, proposerVars
  <2> QED BY <2>1, KeptSame, Zenon
<1>3. ASSUME NEW c \in known, PeerCertificate(c) PROVE Kept'
  BY <1>3, KeptSame, Zenon DEF PeerCertificate, proposerVars
<1>4. ASSUME NEW r \in 1..MaxRound, NEW own \in SUBSET Orderable(r), Commit(r, own) PROVE Kept'
  <2>1. UNCHANGED <<digests, proposed, pending, sent, acked, stops>> /\ outputs \subseteq outputs'
    BY <1>4, Zenon DEF Commit, proposerVars
  <2> QED BY <2>1, KeptSame, Zenon
<1>5. CASE Proposer
  BY <1>2, <1>5, KeptPush, KeptPropose, KeptCommitted, KeptResult, Zenon DEF Proposer
<1>6. CASE Certifier
  BY <1>2, <1>6, Zenon DEF Certifier
<1>7. CASE Node
  <2>1. ASequence(snaps) /\ Len(snaps) >= 1
    BY DEF Shape, StoreShape
  <2>2. ASSUME Restart \/ \E k \in 1 .. Len(snaps) - 1 : Crash(k) PROVE Kept'
    BY <1>1, <2>1, <2>2, Begun, Zenon
  <2> QED BY <1>2, <1>3, <1>4, <1>7, <2>2, Zenon DEF Node
<1> QED BY <1>2, <1>5, <1>6, <1>7, Zenon DEF Next

\* A digest that push_digest took is waiting, in a header that may still commit
\* or committed, for as long as the proposer runs: no commit, eviction or jump
\* ahead drops it, for any number of digests, rounds, restarts and crashes
\* (process_committed_headers, handle_proposal_result, requeue_front).
THEOREM DigestsKeptTheorem == Spec => []DigestsKept
<1>1. Init => Shape /\ Requeued /\ Kept
  <2> SUFFICES ASSUME Init PROVE Kept
    BY ShapeInit, RequeuedInit
  <2>1. digests = <<>> /\ proposed = {} /\ stops = 0 /\ acked = {} /\ sent = {}
    BY Zenon DEF Init
  <2>2. digests \in Seq(Digest) /\ stops \in Nat
    BY <2>1
  <2> QED BY <2>1, <2>2, Zenon DEF Kept, AckedLives
<1>2. Shape /\ Requeued /\ Kept /\ [Next]_vars => Shape' /\ Requeued' /\ Kept'
  BY ShapeStep, RequeuedStep, KeptStep
<1>3. Kept => DigestsKept
  BY Zenon DEF Kept, DigestKept, DigestsKept
<1> QED BY <1>1, <1>2, <1>3, PTL DEF Spec
=============================================================================
