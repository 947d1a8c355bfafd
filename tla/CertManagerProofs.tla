-------------------------- MODULE CertManagerProofs --------------------------
(***************************************************************************)
(* For every DAG, committee, gc depth and number of faults: the two maps   *)
(* of suspended certificates mirror each other, the store is causally      *)
(* complete above the rounds that were given up, and no wake-up is lost.   *)
(*                                                                         *)
(* None of the three is inductive alone.  PendingSound says what a         *)
(* suspended certificate no longer waits for: parents that are stored or   *)
(* given up.  The manager's gc round is a round given up (FloorSound),     *)
(* except between its wake-up and process_gc_round.  The cascade of        *)
(* update_pending is a least fixed point: ReadyClosed and ReadyJustified   *)
(* are all the proof needs of it.                                          *)
(*                                                                         *)
(* On top of that: consensus gets parents before their children, and the   *)
(* proposer gets every quorum of the last two stored rounds.  The          *)
(* recursive functions of ByRound and AppendAll are followed step by step; *)
(* that they exist, and what they compute, is shown by the least step that *)
(* fails.                                                                  *)
(***************************************************************************)
EXTENDS CertManager, FiniteSetTheorems, SequenceTheorems, TLAPS

Typed ==
    /\ stored \subseteq Cert
    /\ DOMAIN pending \subseteq Cert /\ \A c \in DOMAIN pending : pending[c] \subseteq Par[c]
    /\ gc \in Nat /\ floor \in Nat
    /\ rounds \in [own : Nat, published : Nat]

\* What a suspended certificate does not wait for is there or given up.
PendingSound ==
    \A c \in DOMAIN pending : \A p \in Par[c] : p \in pending[c] \/ p \in stored \/ p.round <= floor

FloorSound == phase = "idle" => gc <= floor

IInv == Typed /\ Mirrored /\ CausalStore /\ NoLostWakeup /\ PendingSound /\ FloorSound

-----------------------------------------------------------------------------
\* Facts about single rounds and certificates.
LEMMA RoundFacts ==
    /\ \A c \in Cert : c.round \in Nat /\ Par[c] \subseteq Cert
    /\ \A c \in Cert : \A p \in Par[c] : p.round \in Nat /\ p.round + 1 = c.round
    /\ \A r \in Nat : gc_round(r) \in Nat
BY DagAssumption, BoundAssumption DEF gc_round

\* Larger is the maximum.
LEMMA LargerFacts ==
    \A i, j \in Nat : Larger(i, j) \in Nat /\ i <= Larger(i, j) /\ j <= Larger(i, j)
BY DEF Larger

\* Under Mirrored, W is closed when it has every suspended certificate that
\* misses only parents in W or gone.
LEMMA UnlocksSimple ==
    ASSUME Mirrored, NEW gone, NEW W
    PROVE  Unlocks(gone, W) <=> \A c \in DOMAIN pending : pending[c] \subseteq gone \cup W => c \in W
<1>1. ASSUME Unlocks(gone, W), NEW c \in DOMAIN pending, pending[c] \subseteq gone \cup W
      PROVE  c \in W
  <2>1. \A x \in pending[c] : x \in Keys \cap (gone \cup W) /\ c \in waiting[x]
    BY <1>1 DEF Mirrored
  <2>2. PICK x \in pending[c] : TRUE
    BY DEF Mirrored
  <2>. QED BY <1>1, <2>1, <2>2 DEF Unlocks
<1>2. ASSUME \A c \in DOMAIN pending : pending[c] \subseteq gone \cup W => c \in W
      PROVE  Unlocks(gone, W)
  BY <1>2 DEF Unlocks
<1>. QED BY <1>1, <1>2

\* The cascade stops nowhere too early: a certificate that misses only gone or
\* ready parents is ready.
LEMMA ReadyClosed ==
    ASSUME Mirrored, NEW gone, NEW c \in DOMAIN pending, pending[c] \subseteq gone \cup Ready(gone)
    PROVE  c \in Ready(gone)
<1>1. SUFFICES ASSUME NEW W \in SUBSET DOMAIN pending, Unlocks(gone, W)
               PROVE  c \in W
  BY DEF Ready
<1>2. Ready(gone) \subseteq W
  BY <1>1 DEF Ready
<1>3. pending[c] \subseteq gone \cup W
  BY <1>2
<1>. QED BY <1>1, <1>3, UnlocksSimple

\* The cascade goes nowhere too far: a ready certificate misses only gone or
\* ready parents.
LEMMA ReadyJustified ==
    ASSUME Mirrored, NEW gone, NEW c \in Ready(gone)
    PROVE  c \in DOMAIN pending /\ pending[c] \subseteq gone \cup Ready(gone)
<1> DEFINE W == {d \in Ready(gone) : pending[d] \subseteq gone \cup Ready(gone)}
<1>1. W \in SUBSET DOMAIN pending
  BY DEF Ready
<1>2. ASSUME NEW d \in DOMAIN pending, pending[d] \subseteq gone \cup W
      PROVE  d \in W
  <2>1. pending[d] \subseteq gone \cup Ready(gone)
    BY <1>2
  <2>2. d \in Ready(gone)
    BY <2>1, ReadyClosed
  <2>. QED BY <2>1, <2>2
<1>3. Unlocks(gone, W)
  <2> HIDE DEF W
  <2>. QED BY <1>2, UnlocksSimple
<1>4. c \in W
  BY <1>1, <1>3 DEF Ready
<1>. QED BY <1>1, <1>4

-----------------------------------------------------------------------------
\* What RemovePending leaves of a suspended certificate, under Mirrored.
LEMMA RemovePendingFacts ==
    ASSUME Mirrored, NEW gone, RemovePending(gone, Ready(gone))
    PROVE  /\ DOMAIN pending' = DOMAIN pending \ Ready(gone)
           /\ \A c \in DOMAIN pending' : pending'[c] = pending[c] \ (gone \cup Ready(gone))
           /\ DOMAIN waiting' = Keys \ (gone \cup Ready(gone))
           /\ \A x \in DOMAIN waiting' : waiting'[x] = waiting[x]
BY DEF RemovePending, Mirrored, Keys

\* update_pending keeps the two maps mirrored.
LEMMA RemovePendingMirrored ==
    ASSUME Mirrored, NEW gone, RemovePending(gone, Ready(gone))
    PROVE  Mirrored'
<1> DEFINE U == Ready(gone)
<1>1. /\ DOMAIN pending' = DOMAIN pending \ U
      /\ \A c \in DOMAIN pending' : pending'[c] = pending[c] \ (gone \cup U)
      /\ DOMAIN waiting' = DOMAIN waiting \ (gone \cup U)
      /\ \A x \in DOMAIN waiting' : waiting'[x] = waiting[x]
  BY ZenonT(30), RemovePendingFacts DEF Keys
<1>2. \A c \in DOMAIN pending : pending[c] \subseteq gone \cup U => c \in U
  BY ReadyClosed
<1>3. \A c \in U : c \in DOMAIN pending /\ pending[c] \subseteq gone \cup U
  BY ReadyJustified
<1>4. /\ \A c \in DOMAIN pending : pending[c] # {} /\ \A x \in pending[c] : x \in DOMAIN waiting /\ c \in waiting[x]
      /\ \A x \in DOMAIN waiting : waiting[x] # {} /\ \A c \in waiting[x] : c \in DOMAIN pending /\ x \in pending[c]
  BY DEF Mirrored, Keys
<1> HIDE DEF U
<1>5. ASSUME NEW c \in DOMAIN pending'
      PROVE  pending'[c] # {} /\ \A x \in pending'[c] : x \in DOMAIN waiting' /\ c \in waiting'[x]
  <2>1. c \in DOMAIN pending /\ c \notin U /\ pending'[c] = pending[c] \ (gone \cup U)
    BY <1>1, <1>5
  <2>2. pending'[c] # {}
    BY <2>1, <1>2
  <2>3. \A x \in pending'[c] : x \in DOMAIN waiting' /\ c \in waiting'[x]
    BY <2>1, <1>1, <1>4
  <2>. QED BY <2>2, <2>3
<1>6. ASSUME NEW x \in DOMAIN waiting'
      PROVE  waiting'[x] # {} /\ \A c \in waiting'[x] : c \in DOMAIN pending' /\ x \in pending'[c]
  <2>1. x \in DOMAIN waiting /\ x \notin gone \cup U /\ waiting'[x] = waiting[x]
    BY <1>1, <1>6
  <2>2. ASSUME NEW c \in waiting[x]
        PROVE  c \in DOMAIN pending' /\ x \in pending'[c]
    <3>1. c \in DOMAIN pending /\ x \in pending[c]
      BY <1>4, <2>1
    <3>2. c \notin U
      BY <1>3, <2>1, <3>1
    <3>. QED BY <1>1, <2>1, <3>1, <3>2
  <2>. QED BY <2>1, <2>2, <1>4
<1>. QED BY <1>5, <1>6 DEF Mirrored, Keys

\* insert_pending keeps the two maps mirrored.
LEMMA InsertPendingMirrored ==
    ASSUME Mirrored, NEW c, c \notin DOMAIN pending, NEW missing, missing # {},
           InsertPending(c, missing)
    PROVE  Mirrored'
BY DEF Mirrored, InsertPending, Keys

-----------------------------------------------------------------------------
\* Releasing the certificates that wait for gone and storing S, which holds
\* them, keeps the invariant, when every stored or gone certificate is sound
\* and the parents of S are there or given up.
LEMMA ReleaseKeeps ==
    ASSUME IInv, NEW gone, NEW S, S \subseteq Cert,
           RemovePending(gone, Ready(gone)),
           stored' = stored \cup S,
           Ready(gone) \subseteq S, S \subseteq gone \cup Ready(gone),
           \A x \in gone : x \in S \/ x.round <= floor',
           \A c \in S \ Ready(gone) : \A p \in Par[c] : p \in stored \/ p.round <= floor',
           floor' \in Nat, floor <= floor',
           rounds' = rounds, mode' = mode, gc' = gc
    PROVE  Typed' /\ Mirrored' /\ CausalStore' /\ NoLostWakeup' /\ PendingSound'
<1> DEFINE U == Ready(gone)
<1>0. Mirrored /\ Typed /\ CausalStore /\ NoLostWakeup /\ PendingSound
  BY DEF IInv
<1>1. /\ DOMAIN pending' = DOMAIN pending \ U
      /\ \A c \in DOMAIN pending' : pending'[c] = pending[c] \ (gone \cup U)
  BY ZenonT(30), <1>0, RemovePendingFacts
<1>2. \A c \in U : c \in DOMAIN pending /\ pending[c] \subseteq gone \cup U
  BY <1>0, ReadyJustified
<1>3. Mirrored'
  BY <1>0, RemovePendingMirrored
<1>4. U \subseteq S /\ S \subseteq gone \cup U /\ \A c \in S \ U : \A p \in Par[c] : p \in stored \/ p.round <= floor'
  OBVIOUS
<1> HIDE DEF U
<1>5. Typed'
  BY <1>0, <1>1 DEF Typed
<1>6. \A c \in Cert : \A p \in Par[c] : p.round <= floor => p.round <= floor'
  <2>1. floor \in Nat
    BY <1>0 DEF Typed
  <2>. QED BY <2>1, RoundFacts
<1>7. CausalStore'
  <2>1. SUFFICES ASSUME NEW c \in stored', NEW p \in Par[c]
                 PROVE  p \in stored' \/ p.round <= floor'
    BY DEF CausalStore
  <2>2. CASE c \in stored
    BY <2>2, <1>0, <1>6 DEF CausalStore, Typed
  <2>3. CASE c \in S \ U
    BY <2>3, <1>4
  <2>4. CASE c \in U
    <3>1. c \in DOMAIN pending /\ c \in Cert /\ pending[c] \subseteq gone \cup U
      BY <2>4, <1>2, <1>0 DEF Typed
    <3>2. CASE p \in pending[c]
      BY <3>1, <3>2, <1>4
    <3>3. CASE p \notin pending[c]
      BY <3>1, <3>3, <1>0, <1>6 DEF PendingSound
    <3>. QED BY <3>2, <3>3
  <2>. QED BY <2>2, <2>3, <2>4
<1>8. NoLostWakeup'
  <2>1. SUFFICES ASSUME NEW c \in DOMAIN pending', NEW p \in pending'[c], p \in stored'
                 PROVE  mode = "inactive" /\ p.round <= rounds.own
    BY DEF NoLostWakeup
  <2>2. c \in DOMAIN pending /\ p \in pending[c] /\ p \notin gone \cup U
    BY <1>1
  <2>3. p \in stored
    BY <2>1, <2>2, <1>4
  <2>. QED BY <2>2, <2>3, <1>0 DEF NoLostWakeup
<1>9. PendingSound'
  <2>1. SUFFICES ASSUME NEW c \in DOMAIN pending', NEW p \in Par[c]
                 PROVE  p \in pending'[c] \/ p \in stored' \/ p.round <= floor'
    BY DEF PendingSound
  <2>2. c \in DOMAIN pending /\ c \in Cert /\ pending'[c] = pending[c] \ (gone \cup U)
    BY <1>1, <1>0 DEF Typed
  <2>3. CASE p \in pending[c]
    BY <2>2, <2>3, <1>4
  <2>4. CASE p \notin pending[c]
    BY <2>2, <2>4, <1>0, <1>6 DEF PendingSound
  <2>. QED BY <2>3, <2>4
<1>. QED BY <1>3, <1>5, <1>7, <1>8, <1>9

\* A start of the tasks keeps the invariant when its store is causally complete
\* above what is given up.
LEMMA StartKeeps ==
    ASSUME IInv, NEW m, NEW S, NEW r \in Nat, NEW given \in Nat, S \subseteq Cert,
           StartTasks(m, S, r, given),
           \A c \in S : \A p \in Par[c] : p \in S \/ p.round <= floor \/ p.round <= given
    PROVE  IInv'
<1> DEFINE f == Larger(Larger(floor, given), gc_round(r))
<1>1. /\ floor' = f /\ stored' = S /\ DOMAIN pending' = {} /\ DOMAIN waiting' = {}
      /\ gc' = gc_round(r) /\ rounds' = [own |-> r, published |-> r]
  BY DEF StartTasks
<1>2. floor \in Nat /\ gc_round(r) \in Nat
  BY RoundFacts DEF IInv, Typed
<1>3. f \in Nat /\ floor <= f /\ given <= f /\ gc_round(r) <= f
  <2>1. Larger(floor, given) \in Nat /\ floor <= Larger(floor, given) /\ given <= Larger(floor, given)
    BY ZenonT(30), <1>2, LargerFacts
  <2>2. f \in Nat /\ Larger(floor, given) <= f /\ gc_round(r) <= f
    BY <1>2, <2>1, LargerFacts
  <2>. QED BY <2>1, <2>2, <1>2
<1> HIDE DEF f
<1>4. CausalStore'
  <2>1. SUFFICES ASSUME NEW c \in S, NEW p \in Par[c]
                 PROVE  p \in S \/ p.round <= f
    BY <1>1 DEF CausalStore
  <2>2. p.round \in Nat
    BY RoundFacts
  <2>3. p \in S \/ p.round <= floor \/ p.round <= given
    OBVIOUS
  <2>. QED BY <2>2, <2>3, <1>2, <1>3
<1>5. Typed'
  BY <1>1, <1>2, <1>3 DEF Typed
<1>6. Mirrored' /\ NoLostWakeup' /\ PendingSound'
  BY <1>1 DEF Mirrored, NoLostWakeup, PendingSound, Keys
<1>7. FloorSound'
  BY <1>1, <1>3 DEF FloorSound
<1>. QED BY <1>4, <1>5, <1>6, <1>7 DEF IInv

\* Draining before a stop: what it stores has its parents or gives them up.
LEMMA DrainCausal ==
    ASSUME IInv, NEW c \in stored \cup DrainPending, NEW p \in Par[c]
    PROVE  /\ c \in Cert
           /\ p \in stored \cup DrainPending \/ p.round <= floor \/ p.round <= Larger(gc, rounds.published)
<1> DEFINE g == Larger(gc, rounds.published)
<1>0. Mirrored /\ Typed /\ CausalStore /\ PendingSound
  BY DEF IInv
<1>1. CASE c \in stored
  BY <1>1, <1>0 DEF CausalStore, Typed
<1>2. CASE c \in Ready(Expired(g))
  <2>1. c \in DOMAIN pending /\ pending[c] \subseteq Expired(g) \cup Ready(Expired(g))
    BY <1>2, <1>0, ReadyJustified
  <2>2. c \in Cert
    BY <2>1, <1>0 DEF Typed
  <2>3. CASE p \in pending[c]
    BY <2>1, <2>2, <2>3 DEF DrainPending, Expired
  <2>4. CASE p \notin pending[c]
    BY <2>1, <2>2, <2>4, <1>0 DEF PendingSound
  <2>. QED BY <2>2, <2>3, <2>4
<1>. QED BY <1>1, <1>2 DEF DrainPending

\* A delivered certificate: suspended with its missing parents, or stored with
\* everything that waited for it alone.
LEMMA ProcessVerifiedKeeps ==
    ASSUME IInv, NEW c \in Cert, ProcessVerified(c)
    PROVE  IInv'
<1>0. Mirrored /\ Typed /\ CausalStore /\ NoLostWakeup /\ PendingSound /\ gc <= floor
  BY DEF IInv, FloorSound, ProcessVerified
<1>1. /\ gc' = gc /\ phase' = phase /\ phase = "idle" /\ mode' = mode
      /\ rounds' = rounds /\ floor' = floor
  BY DEF ProcessVerified
<1>2. gc \in Nat /\ floor \in Nat
  BY <1>0 DEF Typed
<1>3. CASE UNCHANGED <<stored, pending, waiting>>
  BY <1>0, <1>1, <1>3 DEF IInv, Typed, Mirrored, CausalStore, NoLostWakeup, PendingSound, FloorSound, Keys
<1>4. CASE /\ c \notin DOMAIN pending /\ ~(Par[c] \subseteq stored)
           /\ InsertPending(c, Par[c] \ stored)
           /\ stored' = stored
  <2> DEFINE missing == Par[c] \ stored
  <2>1. Mirrored'
    BY <1>0, <1>4, InsertPendingMirrored
  <2>2. /\ DOMAIN pending' = DOMAIN pending \cup {c} /\ pending'[c] = missing
        /\ \A x \in DOMAIN pending : pending'[x] = pending[x]
    BY <1>4 DEF InsertPending
  <2>3. Typed'
    BY <1>0, <1>1, <1>4, <2>2 DEF Typed
  <2>4. NoLostWakeup' /\ PendingSound'
    BY <1>0, <1>1, <1>4, <2>2 DEF NoLostWakeup, PendingSound
  <2>5. CausalStore' /\ FloorSound'
    BY <1>0, <1>1, <1>4 DEF CausalStore, FloorSound
  <2>. QED BY <2>1, <2>3, <2>4, <2>5 DEF IInv
<1>5. CASE /\ c \notin DOMAIN pending
           /\ c.round <= gc + 1 \/ Par[c] \subseteq stored
           /\ RemovePending({c}, Ready({c}))
           /\ stored' = stored \cup ({c} \cup Ready({c}))
  <2> DEFINE S == {c} \cup Ready({c})
  <2>1. S \subseteq Cert
    BY <1>0 DEF Ready, Typed
  <2>2. \A p \in Par[c] : p \in stored \/ p.round <= floor
    BY <1>0, <1>2, <1>5, RoundFacts
  <2>3. \A d \in S \ Ready({c}) : \A p \in Par[d] : p \in stored \/ p.round <= floor'
    BY <2>2, <1>1
  <2>4. \A x \in {c} : x \in S \/ x.round <= floor'
    OBVIOUS
  <2>5. Ready({c}) \subseteq S /\ S \subseteq {c} \cup Ready({c}) /\ stored' = stored \cup S
    BY <1>5
  <2>6. floor' \in Nat /\ floor <= floor'
    BY <1>1, <1>2
  <2> HIDE DEF S
  <2>7. Typed' /\ Mirrored' /\ CausalStore' /\ NoLostWakeup' /\ PendingSound'
    BY ZenonT(30), <2>1, <2>3, <2>4, <2>5, <2>6, <1>1, <1>5, ReleaseKeeps
  <2>. QED BY <2>7, <1>0, <1>1 DEF IInv, FloorSound
<1>. QED BY ZenonT(30), <1>3, <1>4, <1>5 DEF ProcessVerified, Accept

\* process_gc_round: what waited for expired parents only is stored.
LEMMA ProcessGcRoundKeeps ==
    ASSUME IInv, ProcessGcRound
    PROVE  IInv'
<1> DEFINE gone == Expired(EffectiveGc)
<1>0. Mirrored /\ Typed
  BY DEF IInv
<1>1. /\ gc' = gc /\ mode' = mode /\ rounds' = rounds
      /\ floor' = Larger(floor, EffectiveGc)
      /\ RemovePending(gone, Ready(gone)) /\ stored' = stored \cup Ready(gone)
  BY DEF ProcessGcRound, Accept
<1>2. EffectiveGc \in Nat /\ gc <= EffectiveGc
  <2>1. gc \in Nat /\ rounds.published \in Nat
    BY <1>0 DEF Typed
  <2>2. Larger(gc, rounds.published) \in Nat /\ gc <= Larger(gc, rounds.published)
    BY ZenonT(30), <2>1, LargerFacts
  <2>. QED BY <2>1, <2>2 DEF EffectiveGc
<1>3. floor' \in Nat /\ floor <= floor' /\ EffectiveGc <= floor'
  BY <1>0, <1>1, <1>2, LargerFacts DEF Typed
<1>4. gone \subseteq Cert /\ Ready(gone) \subseteq Cert
  BY <1>0, DagAssumption DEF Expired, Ready, Typed, Mirrored
<1>5. \A x \in gone : x.round <= floor'
  <2>1. SUFFICES ASSUME NEW x \in gone PROVE x.round <= floor'
    OBVIOUS
  <2>2. x.round <= EffectiveGc /\ x.round \in Nat
    BY <1>4, RoundFacts DEF Expired
  <2>. QED BY <2>2, <1>2, <1>3
<1> HIDE DEF gone
<1>6. Typed' /\ Mirrored' /\ CausalStore' /\ NoLostWakeup' /\ PendingSound'
  BY <1>1, <1>3, <1>4, <1>5, ReleaseKeeps
<1>7. FloorSound'
  BY <1>0, <1>1, <1>2, <1>3 DEF FloorSound, Typed
<1>. QED BY <1>6, <1>7 DEF IInv

\* The other steps: garbage collection's wake-up, the tasks beside the manager
\* and restarts.
LEMMA OtherKeeps ==
    ASSUME IInv,
           \/ GcReady \/ TakeCertificate \/ Demote \/ Publish \/ Rejoin
           \/ \E c \in Cert : Follow(c)
           \/ \E m \in {"active", "inactive"}, lost \in Losses, r \in CommitRound \cup {0} : Crash(m, lost, r)
    PROVE  IInv'
<1>0. Mirrored /\ Typed /\ CausalStore /\ NoLostWakeup /\ PendingSound /\ FloorSound
  BY DEF IInv
<1>1. CASE GcReady
  <2>1. gc' \in Nat
    BY <1>0, <1>1, RoundFacts DEF GcReady, Typed
  <2>. QED BY <1>0, <1>1, <2>1 DEF GcReady, IInv, Typed, Mirrored, CausalStore, NoLostWakeup, PendingSound, FloorSound, Keys
<1>2. CASE Publish
  BY <1>0, <1>2 DEF Publish, managerVars, IInv, Typed, Mirrored, CausalStore, NoLostWakeup, PendingSound, FloorSound, Keys
<1>3. CASE TakeCertificate
  <2>1. UNCHANGED <<stored, pending, waiting, gc, phase, mode, floor>> /\ mode = "active"
    BY <1>3 DEF TakeCertificate, managerVars
  <2>2. rounds' \in [own : Nat, published : Nat]
    BY <1>0, <1>3, BoundAssumption DEF TakeCertificate, Commit, Typed
  <2>. QED BY <1>0, <2>1, <2>2 DEF IInv, Typed, Mirrored, CausalStore, NoLostWakeup, PendingSound, FloorSound, Keys
<1>4. ASSUME NEW m, StopAndStart(m)
      PROVE  IInv'
  <2>1. Larger(gc, rounds.published) \in Nat /\ rounds.own \in Nat
    BY <1>0, LargerFacts DEF Typed
  <2>2. stored \cup DrainPending \subseteq Cert
    BY <1>0 DEF Typed, DrainPending, Ready
  <2>. QED BY <1>4, <2>1, <2>2, DrainCausal, StartKeeps DEF StopAndStart
<1>5. ASSUME NEW l \in Cert, Follow(l)
      PROVE  IInv'
  <2> DEFINE new == {c \in Cert : c.round < l.round} \cup {l}
  <2>1. /\ UNCHANGED <<pending, waiting, gc, phase, mode>> /\ mode = "inactive"
        /\ stored' = stored \cup new /\ floor' = Larger(floor, l.round)
        /\ rounds' = [rounds EXCEPT !.own = l.round] /\ rounds.own < l.round
    BY <1>5 DEF Follow, Commit
  <2>2. l.round \in Nat /\ floor \in Nat /\ rounds.own \in Nat /\ gc \in Nat
    BY <1>0, RoundFacts DEF Typed
  <2>3. floor' \in Nat /\ floor <= floor' /\ l.round <= floor'
    BY <2>1, <2>2, LargerFacts
  <2>4. Typed' /\ rounds'.own = l.round
    BY <1>0, <2>1, <2>2, <2>3 DEF Typed
  <2>5. \A c \in Cert : \A p \in Par[c] : p.round <= floor => p.round <= floor'
    BY <2>2, <2>3, RoundFacts
  <2>6. CausalStore'
    <3>1. SUFFICES ASSUME NEW c \in stored', NEW p \in Par[c]
                   PROVE  p \in stored' \/ p.round <= floor'
      BY DEF CausalStore
    <3>2. CASE c \in stored
      BY <3>2, <1>0, <2>1, <2>5 DEF CausalStore, Typed
    <3>3. CASE c \in new
      BY <3>3, <2>1, <2>2, RoundFacts
    <3>. QED BY <3>2, <3>3, <2>1
  <2>7. PendingSound'
    BY <1>0, <2>1, <2>5 DEF PendingSound, Typed
  <2>8. NoLostWakeup'
    <3>1. SUFFICES ASSUME NEW c \in DOMAIN pending, NEW p \in pending[c], p \in stored'
                   PROVE  p.round <= l.round
      BY <2>1, <2>4 DEF NoLostWakeup
    <3>2. p.round \in Nat
      BY <1>0, RoundFacts DEF Typed
    <3>3. CASE p \in stored
      BY <3>2, <3>3, <1>0, <2>1, <2>2 DEF NoLostWakeup
    <3>4. CASE p \in new
      BY <3>2, <3>4, <2>2
    <3>. QED BY <3>1, <3>3, <3>4, <2>1
  <2>9. Mirrored' /\ FloorSound'
    BY <1>0, <2>1, <2>2, <2>3 DEF Mirrored, FloorSound, Keys
  <2>. QED BY <2>4, <2>6, <2>7, <2>8, <2>9 DEF IInv
<1>6. ASSUME NEW m, NEW lost \in Losses, NEW r \in CommitRound \cup {0}, Crash(m, lost, r)
      PROVE  IInv'
  <2>1. r \in Nat
    BY BoundAssumption
  <2>2. stored \ lost \subseteq Cert /\ StartTasks(m, stored \ lost, r, 0)
    BY <1>0, <1>6 DEF Typed, Crash
  <2>3. \A c \in stored \ lost : \A p \in Par[c] : p \in stored \ lost \/ p.round <= floor
    BY <1>0, <1>6 DEF Crash, CausalStore
  <2>. QED BY <2>1, <2>2, <2>3, StartKeeps
<1>. QED BY <1>1, <1>2, <1>3, <1>4, <1>5, <1>6 DEF Demote, Rejoin

\* The invariant holds in every reachable state.
LEMMA IInvInvariant == Spec => []IInv
<1>1. Init => IInv
  BY DEF Init, IInv, Typed, Mirrored, CausalStore, NoLostWakeup, PendingSound, FloorSound, Keys
<1>2. IInv /\ [Next]_vars => IInv'
  <2>1. ASSUME IInv, Next
        PROVE  IInv'
    BY <2>1, ProcessVerifiedKeeps, ProcessGcRoundKeeps, OtherKeeps DEF Next
  <2>2. ASSUME IInv, UNCHANGED vars
        PROVE  IInv'
    BY <2>2 DEF vars, IInv, Typed, Mirrored, CausalStore, NoLostWakeup, PendingSound, FloorSound, Keys
  <2>. QED BY <2>1, <2>2
<1>. QED BY <1>1, <1>2, PTL DEF Spec

\* For every DAG, committee, gc depth and any number of crashes and duplicates:
\* the maps of suspended certificates mirror each other (update_pending and
\* next_for_gc_round walk both), and the store is causally complete above what
\* was given up (accept_verified_certificates).
THEOREM CertManagerSafety == Spec => [](Mirrored /\ CausalStore)
<1>1. IInv => Mirrored /\ CausalStore
  BY DEF IInv
<1>. QED BY <1>1, IInvInvariant, PTL

\* A suspended certificate waits for a stored parent only on an inactive node,
\* when the subscriber stored it at or below the commit round, whatever order
\* certificates, garbage collection and restarts come in: the cascade of
\* update_pending and the sweep of next_for_gc_round miss none.
THEOREM NoLostWakeupTheorem == Spec => []NoLostWakeup
<1>1. IInv => NoLostWakeup
  BY DEF IInv
<1>. QED BY <1>1, IInvInvariant, PTL


-----------------------------------------------------------------------------
(* The order in which accepted certificates are forwarded.                  *)

\* A nonempty set of natural numbers has a least element.
LEMMA LeastNatural ==
    ASSUME NEW T, T \subseteq Nat, T # {}
    PROVE  \E x \in T : \A y \in T : x <= y
<1> DEFINE R == OpToRel(<, Nat)
<1>1. IsWellFoundedOn(R, Nat)
  BY NatLessThanWellFounded
<1>2. \E x \in T : \A y \in T : ~(<<y, x>> \in R)
  <2> HIDE DEF R
  <2> QED BY <1>1, WFMin
<1>3. \A x, y \in Nat : x < y => <<x, y>> \in R
  BY DEF OpToRel
<1> HIDE DEF R
<1>4. PICK x \in T : \A y \in T : ~(<<y, x>> \in R)
  BY <1>2
<1>5. \A y \in T : y \in Nat /\ x \in Nat /\ ~(y < x)
  BY <1>3, <1>4
<1>6. \A y \in T : x <= y
  BY <1>5
<1> QED BY <1>6

\* A finite set of certificates that is not empty has one of the highest round,
\* by the least size of a set that has none.
LEMMA HighestRound ==
    ASSUME NEW S, S \subseteq Cert, IsFiniteSet(S), S # {}
    PROVE  \E t \in S : \A c \in S : c.round <= t.round
<1> DEFINE Bad(U) == /\ U \subseteq Cert /\ IsFiniteSet(U) /\ U # {}
                     /\ ~\E t \in U : \A c \in U : c.round <= t.round
           Sizes == {n \in Nat : \E U : Bad(U) /\ Cardinality(U) = n}
<1> SUFFICES ASSUME Bad(S) PROVE FALSE
  OBVIOUS
<1>1. Cardinality(S) \in Sizes
  BY FS_CardinalityType
<1>2. PICK n \in Sizes : \A m \in Sizes : n <= m
  BY <1>1, LeastNatural, Zenon
<1>3. PICK U : Bad(U) /\ Cardinality(U) = n
  BY <1>2
<1>4. PICK x \in U : TRUE
  BY <1>3
<1> DEFINE V == U \ {x}
<1>5. IsFiniteSet(V) /\ Cardinality(V) = n - 1 /\ n \in Nat /\ n - 1 < n
  BY <1>2, <1>3, FS_RemoveElement
<1>6. Cardinality(V) \in Nat
  BY <1>5, FS_CardinalityType
<1>7. \A c \in U : c.round \in Nat
  BY <1>3, RoundFacts
<1>8. CASE V = {}
  <2>1. \A c \in U : c = x
    BY <1>8
  <2>2. \A c \in U : c.round <= x.round
    BY <1>4, <1>7, <2>1
  <2> QED BY <1>3, <1>4, <2>2
<1>9. CASE V # {}
  <2>1. ~Bad(V)
    <3>1. SUFFICES ASSUME Bad(V) PROVE FALSE
      OBVIOUS
    <3>2. Cardinality(V) \in Sizes
      BY <1>6, <3>1
    <3>3. n <= Cardinality(V)
      BY <1>2, <3>2, Zenon
    <3> QED BY <1>5, <3>3
  <2>2. PICK t \in V : \A c \in V : c.round <= t.round
    BY <1>3, <1>5, <1>9, <2>1
  <2>3. CASE x.round <= t.round
    <3>1. \A c \in U : c.round <= t.round
      BY <2>2, <2>3
    <3> QED BY <1>3, <2>2, <3>1
  <2>4. CASE ~(x.round <= t.round)
    <3>1. \A c \in U : c.round <= x.round
      BY <1>4, <1>7, <2>2, <2>4
    <3> QED BY <1>3, <1>4, <3>1
  <2> QED BY <2>3, <2>4
<1> QED BY <1>8, <1>9

\* TopRound is the highest round.
LEMMA TopRoundFacts ==
    ASSUME NEW S, S \subseteq Cert, IsFiniteSet(S)
    PROVE  /\ TopRound(S) \in Nat /\ \A c \in S : c.round <= TopRound(S)
           /\ TopRound(S) = 0 \/ \E c \in S : c.round = TopRound(S)
<1> DEFINE R == {0} \cup {c.round : c \in S}
<1>1. \A c \in S : c.round \in Nat
  BY RoundFacts
<1>2. R \subseteq Nat
  BY <1>1
<1>3. \E x \in R : \A y \in R : x >= y
  <2>1. CASE S = {}
    <3>1. R = {0}
      BY <2>1
    <3> QED BY <3>1
  <2>2. CASE S # {}
    <3>1. PICK t \in S : \A c \in S : c.round <= t.round
      BY <2>2, HighestRound, Zenon
    <3>2. t.round \in R /\ \A y \in R : y = 0 \/ y <= t.round
      BY <3>1
    <3>3. \A y \in R : t.round >= y
      BY <1>1, <1>2, <3>1, <3>2
    <3> QED BY <3>2, <3>3
  <2> QED BY <2>1, <2>2
<1>4. Max(R) \in R /\ \A y \in R : Max(R) >= y
  <2> HIDE DEF R
  <2> QED BY <1>3, Zenon DEF Max
<1>5. \A c \in S : c.round \in R
  OBVIOUS
<1>6. TopRound(S) = Max(R)
  BY DEF TopRound
<1> HIDE DEF R
<1>7. Max(R) \in Nat /\ \A c \in S : c.round <= Max(R)
  BY <1>1, <1>2, <1>4, <1>5
<1>8. Max(R) = 0 \/ \E c \in S : c.round = Max(R)
  BY <1>4, Zenon DEF R
<1> QED BY <1>6, <1>7, <1>8, Zenon

\* Listing lists a finite set.
LEMMA Listed ==
    ASSUME NEW S, IsFiniteSet(S)
    PROVE  /\ Listing(S) \in Seq(S)
           /\ \A c \in S : \E i \in 1..Len(Listing(S)) : Listing(S)[i] = c
<1> DEFINE n == Cardinality(S)
<1>1. n \in Nat /\ ExistsBijection(1..n, S)
  BY FS_CardinalityType
<1> HIDE DEF n
<1>2. \E f \in [1..n -> S] : IsInjective(f)
  BY <1>1, Zenon DEF ExistsBijection, Bijection, Injection
<1>3. Listing(S) \in [1..n -> S] /\ IsInjective(Listing(S))
  BY <1>2, Zenon DEF Listing, n
<1>4. Listing(S) \in Injection(1..n, S)
  BY <1>3, Zenon DEF Injection
<1>5. Cardinality(1..n) = Cardinality(S)
  <2>1. 1 \in Int /\ n \in Int /\ (IF 1 > n THEN 0 ELSE n - 1 + 1) = n
    BY <1>1
  <2> QED BY <2>1, FS_Interval DEF n
<1>6. Listing(S) \in Surjection(1..n, S)
  BY <1>4, <1>5, FS_Injection
<1> DEFINE s == Listing(S)
<1> HIDE DEF s
<1>7. s \in [1..n -> S]
  BY <1>3, Zenon DEF s
<1>8. s \in Seq(S) /\ Len(s) = n
  BY <1>1, <1>7
<1>9. \A c \in S : \E i \in 1..n : s[i] = c
  BY <1>6, Zenon DEF Surjection, s
<1> QED BY <1>8, <1>9, Zenon DEF s
OfRound(S, r) == Listing(AtRound(S, r))

\* f lists the certificates of S, round by round up to n.
Ranked(S, f, n) ==
    f[0] = <<>> /\ \A i \in 1..n : f[i] = f[i - 1] \o OfRound(S, i)

\* There is such an f for every n, by the least n for which there is none.
LEMMA RankedExists ==
    ASSUME NEW S, NEW n \in Nat
    PROVE  \E f : Ranked(S, f, n)
<1> DEFINE T == {m \in Nat : ~\E f : Ranked(S, f, m)}
<1> SUFFICES ASSUME T # {} PROVE FALSE
  OBVIOUS
<1>1. PICK m \in T : \A y \in T : m <= y
  BY LeastNatural
<1>2. m \in Nat /\ ~\E f : Ranked(S, f, m)
  BY <1>1
<1>3. CASE m = 0
  <2> DEFINE f == [i \in Nat |-> <<>>]
  <2>1. f[0] = <<>> /\ 1..m = {}
    BY <1>3
  <2>2. Ranked(S, f, m)
    BY <2>1, Zenon DEF Ranked
  <2> QED BY <1>2, <2>2, Zenon
<1>4. CASE m # 0
  <2>1. m - 1 \in Nat /\ m - 1 \notin T
    BY <1>1, <1>2, <1>4
  <2>2. PICK f : Ranked(S, f, m - 1)
    BY <2>1, Zenon
  <2> DEFINE g == [i \in Nat |-> IF i = m THEN f[m - 1] \o OfRound(S, m) ELSE f[i]]
  <2>3. g[0] = f[0] /\ g[m] = f[m - 1] \o OfRound(S, m)
    BY <1>2, <1>4
  <2>4. \A i \in 1..m : i - 1 \in Nat /\ i \in Nat /\ i - 1 # m
    BY <1>2
  <2>5. \A i \in 1..m : g[i - 1] = f[i - 1]
    BY <2>4, Zenon
  <2>6. \A i \in 1..m : i # m => i \in 1..(m - 1) /\ g[i] = f[i]
    BY <1>2
  <2> HIDE DEF g
  <2>7. ASSUME NEW i \in 1..m PROVE g[i] = g[i - 1] \o OfRound(S, i)
    <3>1. CASE i = m
      BY <2>3, <2>5, <3>1, Zenon
    <3>2. CASE i # m
      BY <2>2, <2>5, <2>6, <3>2, Zenon DEF Ranked
    <3> QED BY <3>1, <3>2
  <2>8. Ranked(S, g, m)
    BY <2>2, <2>3, <2>7, Zenon DEF Ranked
  <2> QED BY <1>2, <2>8, Zenon
<1> QED BY <1>3, <1>4

\* Two of them agree.
LEMMA RankedAgree ==
    ASSUME NEW S, NEW f, NEW g, NEW n \in Nat, Ranked(S, f, n), Ranked(S, g, n)
    PROVE  f[n] = g[n]
<1> DEFINE T == {i \in 0..n : f[i] # g[i]}
<1> SUFFICES ASSUME T # {} PROVE FALSE
  OBVIOUS
<1>0. T \subseteq Nat
  OBVIOUS
<1>1. PICK i \in T : \A y \in T : i <= y
  BY <1>0, LeastNatural
<1>2. i \in 0..n /\ f[i] # g[i]
  BY <1>1
<1>3. i # 0
  BY <1>2, Zenon DEF Ranked
<1>4. i \in 1..n /\ i - 1 \in 0..n /\ i - 1 \notin T
  BY <1>1, <1>2, <1>3
<1>5. f[i - 1] = g[i - 1]
  BY <1>4, Zenon
<1> QED BY <1>2, <1>4, <1>5, Zenon DEF Ranked

\* The function that ByRound lists them with.
LEMMA RankedChosen ==
    ASSUME NEW S, NEW F, NEW n \in Nat,
           F = CHOOSE f : f = [r \in Nat |-> IF r = 0 THEN <<>> ELSE f[r - 1] \o OfRound(S, r)]
    PROVE  Ranked(S, F, n)
<1> DEFINE G(m) == CHOOSE f : Ranked(S, f, m)
           H == [m \in Nat |-> G(m)[m]]
<1>1. ASSUME NEW m \in Nat PROVE Ranked(S, G(m), m)
  BY RankedExists, Zenon
<1>2. ASSUME NEW m \in Nat, m # 0 PROVE H[m] = H[m - 1] \o OfRound(S, m)
  <2>1. m - 1 \in Nat /\ m \in 1..m /\ \A i \in 1..(m - 1) : i \in 1..m
    BY <1>2
  <2>2. Ranked(S, G(m), m - 1) /\ Ranked(S, G(m - 1), m - 1)
    BY <1>1, <2>1, Zenon DEF Ranked
  <2> HIDE DEF G
  <2>3. G(m)[m - 1] = G(m - 1)[m - 1]
    BY <2>1, <2>2, RankedAgree
  <2>4. G(m)[m] = G(m)[m - 1] \o OfRound(S, m)
    BY <1>1, <1>2, <2>1, Zenon DEF Ranked
  <2> QED BY <1>2, <2>1, <2>3, <2>4, Zenon
<1>3. H[0] = <<>>
  BY <1>1, Zenon DEF Ranked
<1> HIDE DEF G
<1>4. H = [m \in Nat |-> IF m = 0 THEN <<>> ELSE H[m - 1] \o OfRound(S, m)]
  <2>1. \A m \in Nat : G(m)[m] = IF m = 0 THEN <<>> ELSE H[m - 1] \o OfRound(S, m)
    BY <1>2, <1>3, Zenon
  <2> QED BY <2>1, Zenon
<1> HIDE DEF H
<1>5. F = [m \in Nat |-> IF m = 0 THEN <<>> ELSE F[m - 1] \o OfRound(S, m)]
  BY <1>4, Zenon
<1>6. \A m \in Nat : F[m] = IF m = 0 THEN <<>> ELSE F[m - 1] \o OfRound(S, m)
  BY <1>5, Zenon
<1>7. F[0] = <<>>
  BY <1>6, Zenon
<1>8. \A i \in 1..n : i \in Nat /\ i # 0
  OBVIOUS
<1> QED BY <1>6, <1>7, <1>8, Zenon DEF Ranked

\* s lists the certificates of S up to round m, in the order of their rounds.
Arranged(S, s, m) ==
    /\ s \in Seq(Cert)
    /\ \A i \in 1..Len(s) : s[i] \in S /\ s[i].round <= m
    /\ \A c \in S : c.round <= m => \E i \in 1..Len(s) : s[i] = c
    /\ \A i, j \in 1..Len(s) : i <= j => s[i].round <= s[j].round

\* The places of s and t in their concatenation u.
Places(s, t, u) ==
    /\ u \in Seq(Cert) /\ Len(u) \in Nat /\ Len(s) \in Nat /\ Len(t) \in Nat
    /\ \A i \in 1..Len(s) : i \in 1..Len(u) /\ u[i] = s[i]
    /\ \A i \in 1..Len(t) : i + Len(s) \in 1..Len(u) /\ u[i + Len(s)] = t[i]
    /\ \A i \in 1..Len(u) : \/ i \in 1..Len(s)
                            \/ i - Len(s) \in 1..Len(t) /\ u[i] = t[i - Len(s)] /\ i > Len(s)

\* A concatenation has its parts in their places.
LEMMA Concatenated ==
    ASSUME NEW s \in Seq(Cert), NEW t \in Seq(Cert)
    PROVE  Places(s, t, s \o t)
<1> DEFINE u == s \o t
<1> DEFINE m == Len(s)
           n == Len(t)
<1>1. m \in Nat /\ n \in Nat
  OBVIOUS
<1>2. /\ u \in Seq(Cert) /\ Len(u) = m + n
      /\ \A i \in 1..(m + n) : u[i] = IF i <= m THEN s[i] ELSE t[i - m]
  BY ConcatProperties
<1> HIDE DEF m, n, u
<1>3. ASSUME NEW i \in 1..m PROVE i \in 1..(m + n) /\ u[i] = s[i]
  <2>1. i \in 1..(m + n) /\ i <= m
    BY <1>1
  <2> QED BY <1>2, <2>1, Zenon
<1>4. ASSUME NEW i \in 1..n PROVE i + m \in 1..(m + n) /\ u[i + m] = t[i]
  <2>1. i + m \in 1..(m + n) /\ ~(i + m <= m) /\ (i + m) - m = i
    BY <1>1
  <2> QED BY <1>2, <2>1, Zenon
<1>5. ASSUME NEW i \in 1..(m + n), i \notin 1..m PROVE i - m \in 1..n /\ u[i] = t[i - m] /\ i > m
  <2>1. i - m \in 1..n /\ ~(i <= m) /\ i > m
    BY <1>1, <1>5
  <2> QED BY <1>2, <2>1, Zenon
<1>6. Len(u) \in Nat
  BY <1>2
<1>7. /\ \A i \in 1..m : i \in 1..Len(u) /\ u[i] = s[i]
      /\ \A i \in 1..n : i + m \in 1..Len(u) /\ u[i + m] = t[i]
      /\ \A i \in 1..Len(u) : i \in 1..m \/ (i - m \in 1..n /\ u[i] = t[i - m] /\ i > m)
  BY <1>2, <1>3, <1>4, <1>5, Zenon
<1> QED BY <1>1, <1>2, <1>6, <1>7, Zenon DEF m, n, u, Places

\* One more round.
LEMMA ArrangedNext ==
    ASSUME NEW S, S \subseteq Cert, IsFiniteSet(S), NEW m \in Nat, m # 0, NEW s, Arranged(S, s, m - 1)
    PROVE  Arranged(S, s \o OfRound(S, m), m)
<1> DEFINE t == OfRound(S, m)
           u == s \o t
<1>1. /\ t \in Seq(Cert) /\ \A i \in 1..Len(t) : t[i] \in S /\ t[i].round = m
      /\ \A c \in S : c.round = m => \E i \in 1..Len(t) : t[i] = c
  <2>1. AtRound(S, m) \subseteq S /\ \A c : c \in AtRound(S, m) <=> c \in S /\ c.round = m
    BY DEF AtRound
  <2>2. IsFiniteSet(AtRound(S, m))
    BY <2>1, FS_Subset
  <2>3. t \in Seq(AtRound(S, m)) /\ \A c \in AtRound(S, m) : \E i \in 1..Len(t) : t[i] = c
    BY <2>2, Listed, Zenon DEF OfRound
  <2> HIDE DEF t
  <2>4. \A i \in 1..Len(t) : t[i] \in AtRound(S, m)
    BY <2>3
  <2>5. t \in Seq(Cert)
    BY <2>1, <2>3
  <2> QED BY <2>1, <2>3, <2>4, <2>5, Zenon
<1>2. /\ s \in Seq(Cert) /\ \A i \in 1..Len(s) : s[i] \in S /\ s[i].round <= m - 1
      /\ \A c \in S : c.round <= m - 1 => \E i \in 1..Len(s) : s[i] = c
      /\ \A i, j \in 1..Len(s) : i <= j => s[i].round <= s[j].round
  BY Zenon DEF Arranged
<1> HIDE DEF t
<1>0. Places(s, t, u)
  BY <1>1, <1>2, Concatenated, Zenon
<1> HIDE DEF u
<1>3. u \in Seq(Cert) /\ Len(s) \in Nat
  BY <1>0, Zenon DEF Places
<1>4. /\ \A i \in 1..Len(s) : i \in 1..Len(u) /\ u[i] = s[i]
      /\ \A i \in 1..Len(t) : i + Len(s) \in 1..Len(u) /\ u[i + Len(s)] = t[i]
      /\ \A i \in 1..Len(u) : \/ i \in 1..Len(s)
                              \/ i - Len(s) \in 1..Len(t) /\ u[i] = t[i - Len(s)] /\ i > Len(s)
  BY <1>0, Zenon DEF Places
<1>5. \A c \in S : c.round \in Nat /\ (c.round <= m => c.round = m \/ c.round <= m - 1)
  BY RoundFacts
<1>6. ASSUME NEW i \in 1..Len(u) PROVE u[i] \in S /\ u[i].round <= m
  <2>1. CASE i \in 1..Len(s)
    <3>1. u[i] \in S /\ u[i].round <= m - 1
      BY <1>2, <1>4, <2>1, Zenon
    <3> QED BY <1>5, <3>1
  <2>2. CASE i - Len(s) \in 1..Len(t) /\ u[i] = t[i - Len(s)]
    <3>1. u[i] \in S /\ u[i].round = m
      BY <1>1, <2>2, Zenon
    <3> QED BY <3>1
  <2> QED BY <1>4, <2>1, <2>2, Zenon
<1>7. ASSUME NEW c \in S, c.round <= m PROVE \E i \in 1..Len(u) : u[i] = c
  <2>1. CASE c.round = m
    <3>1. PICK i \in 1..Len(t) : t[i] = c
      BY <1>1, <2>1, Zenon
    <3> QED BY <1>4, <3>1, Zenon
  <2>2. CASE c.round <= m - 1
    <3>1. PICK i \in 1..Len(s) : s[i] = c
      BY <1>2, <2>2, Zenon
    <3> QED BY <1>4, <3>1, Zenon
  <2> QED BY <1>5, <1>7, <2>1, <2>2, Zenon
<1>8. ASSUME NEW i \in 1..Len(u), NEW j \in 1..Len(u), i <= j PROVE u[i].round <= u[j].round
  <2>1. CASE i \in 1..Len(s) /\ j \in 1..Len(s)
    BY <1>2, <1>4, <1>8, <2>1, Zenon
  <2>2. CASE j - Len(s) \in 1..Len(t) /\ u[j] = t[j - Len(s)] /\ j > Len(s)
    <3>1. u[j].round = m
      BY <1>1, <2>2, Zenon
    <3> QED BY <1>6, <3>1, Zenon
  <2>3. j \in 1..Len(s) => i \in 1..Len(s)
    BY <1>3, <1>8
  <2> QED BY <1>4, <2>1, <2>2, <2>3, Zenon
<1> QED BY <1>3, <1>6, <1>7, <1>8, Zenon DEF Arranged, u, t

\* ByRound lists a finite set in the order of the rounds.
LEMMA ByRoundFacts ==
    ASSUME NEW S, S \subseteq Cert, IsFiniteSet(S)
    PROVE  Arranged(S, ByRound(S), TopRound(S))
<1> DEFINE F == CHOOSE f : f = [r \in Nat |-> IF r = 0 THEN <<>> ELSE f[r - 1] \o OfRound(S, r)]
           n == TopRound(S)
<1>1. n \in Nat
  BY TopRoundFacts, Zenon
<1>2. ByRound(S) = F[n]
  BY Zenon DEF ByRound, OfRound
<1> HIDE DEF n
<1>3. Ranked(S, F, n)
  BY <1>1, RankedChosen, Zenon
<1> HIDE DEF F
<1> DEFINE T == {m \in 0..n : ~Arranged(S, F[m], m)}
<1>4. T = {}
  <2> SUFFICES ASSUME T # {} PROVE FALSE
    OBVIOUS
  <2>1. T \subseteq Nat
    BY <1>1
  <2>2. PICK m \in T : \A y \in T : m <= y
    BY <2>1, LeastNatural, Zenon
  <2>3. m \in 0..n /\ ~Arranged(S, F[m], m) /\ m \in Nat
    BY <2>1, <2>2
  <2>4. CASE m = 0
    <3>1. F[m] = <<>>
      BY <1>3, <2>4, Zenon DEF Ranked
    <3>2. \A c \in S : ~(c.round <= 0)
      BY DagAssumption
    <3>3. <<>> \in Seq(Cert) /\ Len(<<>>) = 0 /\ 1..0 = {}
      OBVIOUS
    <3> QED BY <2>3, <2>4, <3>1, <3>2, <3>3, Zenon DEF Arranged
  <2>5. CASE m # 0
    <3>1. m \in 1..n /\ m - 1 \in 0..n /\ m - 1 < m
      BY <1>1, <2>3, <2>5
    <3>2. m - 1 \notin T
      BY <2>2, <2>3, <3>1
    <3>3. Arranged(S, F[m - 1], m - 1)
      BY <3>1, <3>2, Zenon
    <3>4. F[m] = F[m - 1] \o OfRound(S, m)
      BY <1>3, <3>1, Zenon DEF Ranked
    <3> QED BY <2>3, <2>5, <3>3, <3>4, ArrangedNext, Zenon
  <2> QED BY <2>4, <2>5
<1>5. n \in 0..n
  BY <1>1
<1> QED BY <1>2, <1>4, <1>5, Zenon DEF n

-----------------------------------------------------------------------------
(* Consensus gets parents before their children.                            *)

ChanTyped == chan \in Seq(Cert) /\ IsFiniteSet(DOMAIN pending)

\* p is in the DAG or among the first n certificates on their way to it.
Before(p, n) == p \in dag \/ \E j \in 1..n : chan[j] = p

\* Unless recovery left certificates out, what an active node has stored above
\* the gc round was forwarded to consensus.
Forwarded ==
    mode = "active" /\ orphans = {} =>
        \A c \in stored : c.round > gc_round(rounds.own) => Before(c, Len(chan))

\* Parents that were not given up are forwarded before their children.
ParentsFirst ==
    mode = "active" /\ orphans = {} =>
        \A i \in 1..Len(chan) : \A p \in Par[chan[i]] :
            p.round > gc_round(rounds.own) /\ p.round > floor => Before(p, i - 1)

Consensus == ChanTyped /\ Forwarded /\ ParentsFirst

\* s lists the certificates released by gone, parents first.
Releases(gone, s) ==
    /\ s \in Seq(Cert) /\ \A i \in 1..Len(s) : s[i] \in Ready(gone)
    /\ \A c \in Ready(gone) : \E i \in 1..Len(s) : s[i] = c
    /\ \A i \in 1..Len(s) : \A p \in Par[s[i]] :
         p \in gone \/ p \in stored \/ p.round <= floor \/ \E j \in 1..(i - 1) : s[j] = p

\* What update_pending releases, ByRound puts in order.
LEMMA ReadyOrdered ==
    ASSUME IInv, ChanTyped, NEW gone
    PROVE  Releases(gone, ByRound(Ready(gone)))
<1> DEFINE R == Ready(gone)
           s == ByRound(R)
<1>1. R \subseteq DOMAIN pending /\ R \subseteq Cert /\ IsFiniteSet(R)
  <2>1. R \subseteq DOMAIN pending /\ DOMAIN pending \subseteq Cert
    BY Zenon DEF Ready, IInv, Typed
  <2>2. IsFiniteSet(R)
    BY <2>1, FS_Subset DEF ChanTyped
  <2> QED BY <2>1, <2>2
<1>2. ASSUME NEW c \in R PROVE pending[c] \subseteq gone \cup R
  BY ReadyJustified, Zenon DEF IInv
<1>3. ASSUME NEW c \in R, NEW p \in Par[c] PROVE p \in gone \/ p \in R \/ p \in stored \/ p.round <= floor
  BY <1>1, <1>2, Zenon DEF IInv, PendingSound
<1> HIDE DEF R
<1>4. Arranged(R, s, TopRound(R))
  BY <1>1, ByRoundFacts, Zenon
<1> HIDE DEF s
<1>5. /\ s \in Seq(Cert) /\ \A i \in 1..Len(s) : s[i] \in R
      /\ \A c \in R : c.round <= TopRound(R) => \E i \in 1..Len(s) : s[i] = c
      /\ \A i, j \in 1..Len(s) : i <= j => s[i].round <= s[j].round
  BY <1>4, Zenon DEF Arranged
<1>6. ASSUME NEW c \in R PROVE \E i \in 1..Len(s) : s[i] = c
  <2>1. c.round <= TopRound(R)
    BY <1>1, TopRoundFacts, Zenon
  <2> QED BY <1>5, <2>1, Zenon
<1>7. ASSUME NEW i \in 1..Len(s), NEW p \in Par[s[i]], p \in R PROVE \E j \in 1..(i - 1) : s[j] = p
  <2>1. PICK j \in 1..Len(s) : s[j] = p
    BY <1>6, <1>7, Zenon
  <2>2. s[i] \in Cert
    BY <1>1, <1>5, Zenon
  <2>3. p.round \in Nat /\ s[i].round \in Nat /\ p.round + 1 = s[i].round
    BY <1>7, <2>2, RoundFacts, Zenon
  <2>4. ~(i <= j)
    <3>1. i <= j => s[i].round <= p.round
      BY <1>5, <2>1, Zenon
    <3> QED BY <2>3, <3>1
  <2>5. j \in 1..(i - 1)
    BY <1>5, <2>1, <2>4
  <2> QED BY <2>1, <2>5, Zenon
<1>8. \A i \in 1..Len(s) : \A p \in Par[s[i]] :
        p \in gone \/ p \in stored \/ p.round <= floor \/ \E j \in 1..(i - 1) : s[j] = p
  BY <1>3, <1>5, <1>7, Zenon
<1> QED BY <1>5, <1>6, <1>8, Zenon DEF R, s, Releases

\* Certificates that are stored and forwarded in order keep the invariant.
LEMMA AcceptOrdered ==
    ASSUME Typed, Consensus, NEW S, NEW s \in Seq(Cert), stored' = stored \cup S,
           chan' = IF mode = "active" THEN chan \o s ELSE chan,
           UNCHANGED <<mode, dag, rounds, orphans>>, floor' \in Nat, floor <= floor',
           IsFiniteSet(DOMAIN pending'),
           \A c \in S : \E i \in 1..Len(s) : s[i] = c,
           \A i \in 1..Len(s) : \A p \in Par[s[i]] :
              p \in stored \/ p.round <= floor' \/ \E j \in 1..(i - 1) : s[j] = p
    PROVE  Consensus'
<1>1. chan \in Seq(Cert) /\ floor \in Nat /\ chan' \in Seq(Cert)
  <2>1. chan \in Seq(Cert) /\ floor \in Nat
    BY DEF Consensus, ChanTyped, Typed
  <2>2. chan \o s \in Seq(Cert)
    BY <2>1
  <2> QED BY <2>1, <2>2, Zenon
<1>2. ChanTyped'
  BY <1>1, Zenon DEF ChanTyped
<1>3. CASE ~(mode = "active" /\ orphans = {})
  BY <1>2, <1>3, Zenon DEF Consensus, Forwarded, ParentsFirst
<1>4. CASE mode = "active" /\ orphans = {}
  <2> DEFINE m == Len(chan)
             g == gc_round(rounds.own)
  <2>1. /\ chan' = chan \o s /\ m \in Nat
        /\ \A i \in 1..m : i \in 1..Len(chan') /\ chan'[i] = chan[i]
        /\ \A i \in 1..Len(s) : i + m \in 1..Len(chan') /\ chan'[i + m] = s[i]
        /\ \A i \in 1..Len(chan') : \/ i \in 1..m
                                    \/ i - m \in 1..Len(s) /\ chan'[i] = s[i - m] /\ i > m
    <3>1. chan' = chan \o s
      BY <1>4, Zenon
    <3>2. Places(chan, s, chan')
      BY <1>1, <3>1, Concatenated, Zenon
    <3> QED BY <3>1, <3>2, Zenon DEF Places
  <2>2. /\ \A c \in stored : c.round > g => Before(c, m)
        /\ \A i \in 1..m : \A p \in Par[chan[i]] : p.round > g /\ p.round > floor => Before(p, i - 1)
    BY <1>4, Zenon DEF Consensus, Forwarded, ParentsFirst
  <2>3. rounds' = rounds /\ g' = g /\ dag' = dag
    BY Zenon
  <2> HIDE DEF m, g
  <2>4. ASSUME NEW p, NEW i, \A j \in 1..m : j \in 1..i, Before(p, m)
        PROVE  Before(p, i)'
    BY <2>1, <2>3, <2>4, Zenon DEF Before
  <2>5. ASSUME NEW c \in stored', c.round > g PROVE Before(c, Len(chan))'
    <3>1. CASE c \in stored
      BY <2>1, <2>2, <2>4, <2>5, <3>1, Zenon
    <3>2. CASE c \in S
      <4>1. PICK i \in 1..Len(s) : s[i] = c
        BY <3>2, Zenon
      <4> QED BY <2>1, <4>1, Zenon DEF Before
    <3> QED BY <3>1, <3>2, Zenon
  <2>6. ASSUME NEW i \in 1..Len(chan'), NEW p \in Par[chan'[i]], p.round > g, p.round > floor'
        PROVE  Before(p, i - 1)'
    <3>1. i \in Nat /\ m \in Nat
      BY <1>1, <2>1
    <3>2. CASE i \in 1..m
      <4>1. p \in Par[chan[i]] /\ chan[i] \in Cert
        BY <1>1, <2>1, <2>6, <3>2 DEF m
      <4>2. p.round > floor
        <5>1. p.round \in Nat
          BY <4>1, RoundFacts, Zenon
        <5> QED BY <1>1, <2>6, <5>1
      <4>3. Before(p, i - 1)
        BY <2>2, <2>6, <3>2, <4>1, <4>2, Zenon
      <4>4. \A j \in 1..(i - 1) : j \in 1..m
        BY <3>1, <3>2
      <4> QED BY <2>1, <2>3, <4>3, <4>4, Zenon DEF Before
    <3>3. CASE i - m \in 1..Len(s) /\ chan'[i] = s[i - m] /\ i > m
      <4> DEFINE k == i - m
      <4>1. \A j \in 1..m : j \in 1..(i - 1)
        BY <3>1, <3>3
      <4>2. \A j \in 1..(k - 1) : j + m \in 1..(i - 1) /\ j \in 1..Len(s)
        BY <3>1, <3>3, <1>1
      <4> HIDE DEF k
      <4>3. k \in 1..Len(s) /\ p \in Par[s[k]]
        BY <2>6, <3>3, Zenon DEF k
      <4>4. s[k] \in Cert
        BY <4>3
      <4>9. p.round \in Nat
        BY <4>3, <4>4, RoundFacts, Zenon
      <4>5. ~(p.round <= floor')
        BY <2>6, <4>9
      <4>6. CASE p \in stored
        BY <2>2, <2>4, <2>6, <4>1, <4>6, Zenon
      <4>7. CASE \E j \in 1..(k - 1) : s[j] = p
        <5>1. PICK j \in 1..(k - 1) : s[j] = p
          BY <4>7
        <5>2. j + m \in 1..(i - 1) /\ chan'[j + m] = p
          BY <2>1, <4>2, <5>1, Zenon
        <5> QED BY <5>2, Zenon DEF Before
      <4> QED BY <4>3, <4>5, <4>6, <4>7, Zenon
    <3> QED BY <2>1, <3>2, <3>3, Zenon
  <2> QED BY <1>2, <2>3, <2>5, <2>6, Zenon DEF Consensus, Forwarded, ParentsFirst, g
<1> QED BY <1>3, <1>4, Zenon

\* Steps that store and forward nothing keep the invariant.
LEMMA ConsensusSame ==
    ASSUME Consensus, IsFiniteSet(DOMAIN pending'), mode' = mode, orphans' = orphans, dag' = dag,
           rounds'.own = rounds.own, floor' = floor, stored' = stored, chan' = chan
    PROVE  Consensus'
<1>1. \A p, n : Before(p, n)' <=> Before(p, n)
  BY Zenon DEF Before
<1>2. Forwarded'
  <2> SUFFICES ASSUME mode = "active", orphans = {}, NEW c \in stored, c.round > gc_round(rounds.own)
               PROVE  Before(c, Len(chan))'
    BY Zenon DEF Forwarded
  <2> QED BY <1>1, Zenon DEF Consensus, Forwarded
<1>3. ParentsFirst'
  <2> SUFFICES ASSUME mode = "active", orphans = {}, NEW i \in 1..Len(chan), NEW p \in Par[chan[i]],
                      p.round > gc_round(rounds.own), p.round > floor
               PROVE  Before(p, i - 1)'
    BY Zenon DEF ParentsFirst
  <2> QED BY <1>1, Zenon DEF Consensus, ParentsFirst
<1> QED BY <1>2, <1>3, Zenon DEF Consensus, ChanTyped

\* A delivered certificate.
LEMMA VerifiedOrdered ==
    ASSUME IInv, Consensus, NEW c \in Cert, ProcessVerified(c)
    PROVE  Consensus'
<1>1. /\ gc' = gc /\ phase = "idle" /\ UNCHANGED <<mode, dag, rounds, floor, orphans>>
      /\ gc \in Nat /\ floor \in Nat /\ gc <= floor /\ Typed
  BY Zenon DEF ProcessVerified, IInv, FloorSound, Typed
<1>2. ChanTyped /\ chan \in Seq(Cert) /\ IsFiniteSet(DOMAIN pending)
  BY Zenon DEF Consensus, ChanTyped
<1>3. CASE UNCHANGED <<stored, chan>> /\ IsFiniteSet(DOMAIN pending')
  <2>1. /\ mode' = mode /\ orphans' = orphans /\ dag' = dag /\ rounds'.own = rounds.own
        /\ floor' = floor /\ stored' = stored /\ chan' = chan
    BY <1>1, <1>3, Zenon
  <2> QED BY <1>3, <2>1, ConsensusSame, Zenon
<1>4. CASE InsertPending(c, Par[c] \ stored) /\ UNCHANGED <<stored, chan>>
  <2>1. DOMAIN pending' = DOMAIN pending \cup {c}
    BY <1>4 DEF InsertPending
  <2>2. IsFiniteSet(DOMAIN pending')
    BY <1>2, <2>1, FS_AddElement
  <2> QED BY <1>3, <1>4, <2>2, Zenon
<1>5. CASE /\ c.round <= gc + 1 \/ Par[c] \subseteq stored
           /\ RemovePending({c}, Ready({c}))
           /\ Accept({c} \cup Ready({c}), AcceptedWith(c), [agg |-> agg, fed |-> fed])
  <2> DEFINE R == Ready({c})
             t == ByRound(R)
             one == <<c>>
             s == AcceptedWith(c)
  <2>1. stored' = stored \cup ({c} \cup R) /\ chan' = IF mode = "active" THEN chan \o s ELSE chan
    BY <1>5, Zenon DEF Accept
  <2>2. IsFiniteSet(DOMAIN pending')
    <3>1. DOMAIN pending' \subseteq DOMAIN pending
      BY <1>5 DEF RemovePending
    <3> QED BY <1>2, <3>1, FS_Subset
  <2>3. /\ t \in Seq(Cert) /\ \A d \in R : \E i \in 1..Len(t) : t[i] = d
        /\ \A i \in 1..Len(t) : \A p \in Par[t[i]] :
             p \in {c} \/ p \in stored \/ p.round <= floor \/ \E j \in 1..(i - 1) : t[j] = p
    <3>1. Releases({c}, t)
      BY <1>2, ReadyOrdered, Zenon
    <3> QED BY <3>1, Zenon DEF Releases
  <2>4. s = one \o t /\ one \in Seq(Cert) /\ Len(one) = 1 /\ one[1] = c /\ 1 \in 1..1
    BY DEF AcceptedWith
  <2> HIDE DEF R, t, one, s
  <2>5. /\ s \in Seq(Cert)
        /\ \A i \in 1..1 : i \in 1..Len(s) /\ s[i] = one[i]
        /\ \A i \in 1..Len(t) : i + 1 \in 1..Len(s) /\ s[i + 1] = t[i]
        /\ \A i \in 1..Len(s) : \/ i \in 1..1
                                \/ i - 1 \in 1..Len(t) /\ s[i] = t[i - 1] /\ i > 1
    <3>1. Places(one, t, s)
      BY <2>3, <2>4, Concatenated, Zenon
    <3> QED BY <2>4, <3>1, Zenon DEF Places
  <2>6. 1 \in 1..Len(s) /\ s[1] = c
    BY <2>4, <2>5, Zenon
  <2>7. \A d \in {c} \cup R : \E i \in 1..Len(s) : s[i] = d
    <3>1. ASSUME NEW d \in R PROVE \E i \in 1..Len(s) : s[i] = d
      <4>1. PICK i \in 1..Len(t) : t[i] = d
        BY <2>3, Zenon
      <4> QED BY <2>5, <4>1, Zenon
    <3> QED BY <2>6, <3>1, Zenon
  <2>8. ASSUME NEW p \in Par[c] PROVE p \in stored \/ p.round <= floor
    <3>1. p.round \in Nat /\ p.round + 1 = c.round
      BY RoundFacts, Zenon
    <3> QED BY <1>1, <1>5, <3>1
  <2>9. ASSUME NEW i \in 1..Len(s), NEW p \in Par[s[i]]
        PROVE  p \in stored \/ p.round <= floor' \/ \E j \in 1..(i - 1) : s[j] = p
    <3>1. CASE i \in 1..1
      <4>1. i = 1
        BY <3>1
      <4> QED BY <1>1, <2>6, <2>8, <4>1, Zenon
    <3>2. CASE i - 1 \in 1..Len(t) /\ s[i] = t[i - 1] /\ i > 1
      <4>1. i \in Nat /\ 1 \in 1..(i - 1) /\ \A j \in 1..((i - 1) - 1) : j + 1 \in 1..(i - 1) /\ j \in 1..Len(t)
        BY <2>3, <3>2
      <4>2. p = c \/ p \in stored \/ p.round <= floor \/ \E j \in 1..((i - 1) - 1) : t[j] = p
        BY <2>3, <3>2, Zenon
      <4>3. CASE \E j \in 1..((i - 1) - 1) : t[j] = p
        <5>1. PICK j \in 1..((i - 1) - 1) : t[j] = p
          BY <4>3
        <5>2. j + 1 \in 1..(i - 1) /\ s[j + 1] = p
          BY <2>5, <4>1, <5>1, Zenon
        <5> QED BY <5>2, Zenon
      <4> QED BY <1>1, <2>6, <4>1, <4>2, <4>3, Zenon
    <3> QED BY <2>5, <3>1, <3>2, Zenon
  <2>10. floor' \in Nat /\ floor <= floor' /\ UNCHANGED <<mode, dag, rounds, orphans>>
    BY <1>1
  <2> QED BY <1>1, <2>1, <2>2, <2>5, <2>7, <2>9, <2>10, AcceptOrdered
<1>6. CASE UNCHANGED <<stored, pending, chan>>
  BY <1>2, <1>3, <1>6, Zenon
<1> QED BY <1>4, <1>5, <1>6, Zenon DEF ProcessVerified

\* process_gc_round.
LEMMA GcOrdered ==
    ASSUME IInv, Consensus, ProcessGcRound
    PROVE  Consensus'
<1> DEFINE gone == Expired(EffectiveGc)
           R == Ready(gone)
           s == ByRound(R)
<1>1. /\ UNCHANGED <<mode, dag, rounds, orphans>> /\ floor' = Larger(floor, EffectiveGc)
      /\ RemovePending(gone, R) /\ stored' = stored \cup R
      /\ chan' = IF mode = "active" THEN chan \o s ELSE chan
  BY Zenon DEF ProcessGcRound, Accept
<1>2. /\ floor \in Nat /\ gc \in Nat /\ rounds.published \in Nat /\ Typed /\ ChanTyped
      /\ IsFiniteSet(DOMAIN pending)
  BY DEF IInv, Typed, Consensus, ChanTyped
<1>3. floor' \in Nat /\ floor <= floor' /\ EffectiveGc <= floor' /\ EffectiveGc \in Nat
  <2>1. EffectiveGc \in Nat
    BY <1>2 DEF EffectiveGc, Larger
  <2> QED BY <1>1, <1>2, <2>1, LargerFacts
<1>4. IsFiniteSet(DOMAIN pending')
  <2>1. DOMAIN pending' \subseteq DOMAIN pending
    BY <1>1 DEF RemovePending
  <2> QED BY <1>2, <2>1, FS_Subset
<1>5. \A x \in gone : x.round <= EffectiveGc
  BY Zenon DEF Expired
<1> HIDE DEF gone
<1>6. /\ s \in Seq(Cert) /\ \A d \in R : \E i \in 1..Len(s) : s[i] = d
      /\ \A i \in 1..Len(s) : \A p \in Par[s[i]] :
           p \in gone \/ p \in stored \/ p.round <= floor \/ \E j \in 1..(i - 1) : s[j] = p
  <2>1. Releases(gone, s)
    BY <1>2, ReadyOrdered, Zenon
  <2> QED BY <2>1, Zenon DEF Releases
<1> HIDE DEF R, s
<1>7. ASSUME NEW i \in 1..Len(s), NEW p \in Par[s[i]]
      PROVE  p \in stored \/ p.round <= floor' \/ \E j \in 1..(i - 1) : s[j] = p
  <2>1. s[i] \in Cert
    BY <1>6
  <2>2. p.round \in Nat
    BY <2>1, RoundFacts, Zenon
  <2>3. (p.round <= floor => p.round <= floor') /\ (p.round <= EffectiveGc => p.round <= floor')
    BY <1>2, <1>3, <2>2
  <2> QED BY <1>5, <1>6, <2>3, Zenon
<1> QED BY <1>1, <1>2, <1>3, <1>4, <1>6, <1>7, AcceptOrdered

\* A later commit does not lower the gc round.
LEMMA GcRises ==
    ASSUME NEW q \in Nat, NEW r \in Nat, q <= r
    PROVE  gc_round(q) \in Nat /\ gc_round(r) \in Nat /\ gc_round(q) <= gc_round(r)
BY BoundAssumption DEF gc_round

\* Consensus takes a certificate and perhaps commits: what leaves the channel is
\* in the DAG or below the gc round.
LEMMA TakeOrdered ==
    ASSUME Typed, Consensus, TakeCertificate
    PROVE  Consensus'
<1> DEFINE c == Head(chan)
           g == gc_round(rounds.own)
           h == gc_round(rounds'.own)
<1>1. /\ mode = "active" /\ chan # <<>> /\ chan' = Tail(chan)
      /\ UNCHANGED <<stored, pending, mode, orphans, floor>>
  BY Zenon DEF TakeCertificate, managerVars
<1>2. /\ chan \in Seq(Cert) /\ Len(chan) \in Nat /\ Len(chan) >= 1 /\ c = chan[1] /\ c \in Cert
      /\ chan' \in Seq(Cert) /\ Len(chan') = Len(chan) - 1
      /\ \A i \in 1..Len(chan') : i + 1 \in 1..Len(chan) /\ chan'[i] = chan[i + 1]
  <2>1. chan \in Seq(Cert) /\ chan # <<>>
    BY <1>1 DEF Consensus, ChanTyped
  <2>2. c = chan[1] /\ c \in Cert /\ Len(chan) \in Nat /\ Len(chan) >= 1
    BY <2>1
  <2>3. /\ Tail(chan) \in Seq(Cert) /\ Len(Tail(chan)) = Len(chan) - 1
        /\ \A i \in 1..Len(Tail(chan)) : Tail(chan)[i] = chan[i + 1]
    BY <2>1, HeadTailProperties
  <2>4. \A i \in 1..(Len(chan) - 1) : i + 1 \in 1..Len(chan)
    BY <2>2
  <2> QED BY <1>1, <2>1, <2>2, <2>3, <2>4, Zenon
<1>3. ChanTyped'
  BY <1>1, <1>2, Zenon DEF Consensus, ChanTyped
<1>4. /\ g \in Nat /\ h \in Nat /\ g <= h
      /\ \A x \in dag \cup {c} : x.round \in Nat /\ x.round > h => x \in dag'
  <2>1. rounds.own \in Nat /\ rounds = [own |-> rounds.own, published |-> rounds.published]
    BY DEF Typed
  <2> DEFINE d == IF c.round > g THEN dag \cup {c} ELSE dag
  <2>2. \/ dag' = d /\ rounds' = rounds
        \/ \E l \in d : /\ l.round \in CommitRound /\ rounds.own < l.round
                        /\ rounds' = [rounds EXCEPT !.own = l.round]
                        /\ dag' = {x \in d : x.round > gc_round(l.round)}
    BY Zenon DEF TakeCertificate, Commit
  <2>3. CASE dag' = d /\ rounds' = rounds
    <3>1. g \in Nat /\ h = g
      BY <2>1, <2>3, GcRises
    <3> QED BY <2>3, <3>1
  <2>4. ASSUME NEW l \in d, l.round \in CommitRound, rounds.own < l.round,
               rounds' = [rounds EXCEPT !.own = l.round], dag' = {x \in d : x.round > gc_round(l.round)}
        PROVE  /\ g \in Nat /\ h \in Nat /\ g <= h
               /\ \A x \in dag \cup {c} : x.round \in Nat /\ x.round > h => x \in dag'
    <3>1. rounds'.own = l.round /\ l.round \in Nat /\ rounds.own <= l.round
      BY <2>1, <2>4, BoundAssumption
    <3>2. g \in Nat /\ h \in Nat /\ g <= h
      BY <2>1, <3>1, GcRises
    <3>3. ASSUME NEW x \in dag \cup {c}, x.round \in Nat, x.round > h PROVE x \in dag'
      <4>1. x.round > g
        BY <3>2, <3>3
      <4>2. x \in d
        BY <3>3, <4>1, Zenon
      <4> QED BY <2>4, <3>1, <3>3, <4>2, Zenon
    <3> QED BY <3>2, <3>3
  <2> HIDE DEF d
  <2> QED BY <2>2, <2>3, <2>4, Zenon
<1> HIDE DEF c, h
<1>5. ASSUME NEW p, p.round \in Nat, p.round > h, NEW n \in 1..Len(chan), Before(p, n)
      PROVE  Before(p, n - 1)'
  <2>1. CASE p \in dag \cup {c}
    BY <1>4, <1>5, <2>1, Zenon DEF Before
  <2>2. ASSUME NEW j \in 1..n, chan[j] = p, p # c PROVE Before(p, n - 1)'
    <3>1. j # 1
      BY <1>2, <2>2, Zenon
    <3>2. j - 1 \in 1..Len(chan') /\ j - 1 \in 1..(n - 1) /\ (j - 1) + 1 = j
      BY <1>2, <2>2, <3>1
    <3>3. chan'[j - 1] = p
      BY <1>2, <2>2, <3>2, Zenon
    <3> QED BY <3>2, <3>3, Zenon DEF Before
  <2> QED BY <1>5, <2>1, <2>2, Zenon DEF Before
<1>6. Forwarded'
  <2> SUFFICES ASSUME orphans = {}, NEW x \in stored, x.round > h PROVE Before(x, Len(chan))'
    BY <1>1, Zenon DEF Forwarded, h
  <2>1. x.round \in Nat
    BY RoundFacts, Zenon DEF Typed
  <2>0. PICK n : n = Len(chan)
    OBVIOUS
  <2>2. x.round > g /\ n \in 1..Len(chan) /\ Len(chan') = n - 1
    BY <1>2, <1>4, <2>1, <2>0
  <2>3. Before(x, n)
    BY <1>1, <2>2, <2>0, Zenon DEF Consensus, Forwarded
  <2>4. Before(x, n - 1)'
    BY <1>5, <2>1, <2>2, <2>3, Zenon
  <2> QED BY <2>2, <2>4, Zenon DEF Before
<1>7. ParentsFirst'
  <2> SUFFICES ASSUME orphans = {}, NEW i \in 1..Len(chan'), NEW p \in Par[chan'[i]], p.round > h, p.round > floor
               PROVE  Before(p, i - 1)'
    BY <1>1, Zenon DEF ParentsFirst, h
  <2>1. i + 1 \in 1..Len(chan) /\ p \in Par[chan[i + 1]] /\ (i + 1) - 1 = i /\ i \in 1..Len(chan)
    BY <1>2
  <2>2. chan[i + 1] \in Cert
    BY <1>2, <2>1
  <2>3. p.round \in Nat
    BY <2>1, <2>2, RoundFacts, Zenon
  <2>4. p.round > g
    BY <1>4, <2>3
  <2>5. Before(p, (i + 1) - 1)
    BY <1>1, <2>1, <2>4, Zenon DEF Consensus, ParentsFirst
  <2>6. Before(p, i)
    BY <2>1, <2>5, Zenon
  <2> QED BY <1>5, <2>1, <2>3, <2>6, Zenon
<1> QED BY <1>3, <1>6, <1>7, Zenon DEF Consensus

\* A start of the tasks: the channel is empty, and what is stored is in the DAG
\* or left out.
LEMMA StartOrdered ==
    ASSUME NEW m, NEW S, NEW r, NEW given, StartTasks(m, S, r, given)
    PROVE  Consensus'
<1> DEFINE d == IF m = "active" THEN ConstructDag(S, gc_round(r)) ELSE {}
<1>1. /\ stored' = S /\ pending' = <<>> /\ mode' = m /\ chan' = <<>> /\ dag' = d
      /\ rounds' = [own |-> r, published |-> r]
      /\ orphans' = IF m = "active" THEN {c \in S \ d : c.round > gc_round(r)} ELSE {}
  BY Zenon DEF StartTasks
<1> HIDE DEF d
<1>2. rounds'.own = r /\ DOMAIN pending' = {} /\ chan' \in Seq(Cert) /\ 1..Len(chan') = {}
  BY <1>1
<1>3. ChanTyped'
  BY <1>2, FS_EmptySet DEF ChanTyped
<1>4. Forwarded'
  <2> SUFFICES ASSUME m = "active", orphans' = {}, NEW c \in S, c.round > gc_round(r) PROVE c \in d
    BY <1>1, <1>2, Zenon DEF Forwarded, Before
  <2> QED BY <1>1, Zenon
<1>5. ParentsFirst'
  BY <1>2, Zenon DEF ParentsFirst
<1> QED BY <1>3, <1>4, <1>5, Zenon DEF Consensus

\* Every step keeps the invariant.
LEMMA ConsensusKeeps ==
    ASSUME IInv, Consensus, [Next]_vars
    PROVE  Consensus'
<1>1. Typed /\ IsFiniteSet(DOMAIN pending)
  BY Zenon DEF IInv, Consensus, ChanTyped
<1>2. ASSUME GcReady \/ UNCHANGED vars PROVE Consensus'
  <2>1. /\ pending' = pending /\ mode' = mode /\ orphans' = orphans /\ dag' = dag
        /\ rounds' = rounds /\ floor' = floor /\ stored' = stored /\ chan' = chan
    BY <1>2, Zenon DEF GcReady, vars
  <2> QED BY <1>1, <2>1, ConsensusSame
<1>3. CASE Publish
  <2>1. /\ pending' = pending /\ mode' = mode /\ orphans' = orphans /\ dag' = dag
        /\ rounds' = [rounds EXCEPT !.published = rounds.own]
        /\ floor' = floor /\ stored' = stored /\ chan' = chan
    BY <1>3, Zenon DEF Publish, managerVars
  <2>2. rounds'.own = rounds.own
    BY <1>1, <2>1 DEF Typed
  <2> QED BY <1>1, <2>1, <2>2, ConsensusSame
<1>4. ASSUME NEW l \in Cert, Follow(l) PROVE Consensus'
  <2>1. mode' = "inactive" /\ chan' = chan /\ pending' = pending
    BY <1>4, Zenon DEF Follow
  <2>2. mode' # "active"
    BY <2>1
  <2> QED BY <2>1, <2>2, Zenon DEF Consensus, ChanTyped, Forwarded, ParentsFirst
<1>5. ASSUME Demote \/ Rejoin PROVE Consensus'
  BY <1>5, StartOrdered, Zenon DEF Demote, Rejoin, StopAndStart
<1>6. ASSUME NEW m, NEW lost, NEW r, Crash(m, lost, r) PROVE Consensus'
  BY <1>6, StartOrdered, Zenon DEF Crash
<1>7. CASE TakeCertificate
  BY <1>1, <1>7, TakeOrdered, Zenon
<1> QED BY <1>2, <1>3, <1>4, <1>5, <1>6, <1>7, VerifiedOrdered, GcOrdered, Zenon DEF Next

\* Initially nothing is stored or forwarded.
LEMMA ConsensusInit == Init => Consensus
<1> SUFFICES ASSUME Init PROVE Consensus
  OBVIOUS
<1>1. stored = {} /\ DOMAIN pending = {} /\ chan \in Seq(Cert) /\ 1..Len(chan) = {}
  BY DEF Init
<1>2. ChanTyped
  BY <1>1, FS_EmptySet DEF ChanTyped
<1> QED BY <1>1, <1>2, Zenon DEF Consensus, Forwarded, ParentsFirst

\* For every DAG, committee, gc depth and any number of crashes and duplicates:
\* consensus finds a parent missing, and the node is demoted, only if recovery
\* left stored certificates out of its DAG (construct_dag_from_cert_store) or the
\* manager gave up parents above the gc round (process_gc_round, drain_pending);
\* the manager itself forwards parents before their children.
THEOREM DemotedOnlyForHolesTheorem == Spec => []DemotedOnlyForHoles
<1>1. Init => Consensus
  BY ConsensusInit
<1>2. IInv /\ Consensus /\ [Next]_vars => Consensus'
  BY ConsensusKeeps
<1>3. IInv /\ Consensus => DemotedOnlyForHoles
  <2> SUFFICES ASSUME IInv, Consensus, mode = "active", chan # <<>>, MissingParent(Head(chan)),
                      orphans = {}, ~(floor > gc_round(rounds.own))
               PROVE  FALSE
    BY Zenon DEF DemotedOnlyForHoles
  <2> DEFINE c == Head(chan)
             g == gc_round(rounds.own)
  <2>1. chan \in Seq(Cert) /\ floor \in Nat /\ g \in Nat
    BY RoundFacts DEF Consensus, ChanTyped, IInv, Typed
  <2>2. c = chan[1] /\ c \in Cert /\ 1 \in 1..Len(chan) /\ 1..(1 - 1) = {}
    BY <2>1
  <2>3. c.round > g + 1 /\ ~(Par[c] \subseteq dag)
    BY Zenon DEF MissingParent
  <2> HIDE DEF c, g
  <2>4. PICK p \in Par[c] : p \notin dag
    BY <2>3, Zenon
  <2>5. p.round \in Nat /\ p.round + 1 = c.round
    BY <2>2, RoundFacts, Zenon
  <2>6. p.round > g /\ p.round > floor
    BY <2>1, <2>3, <2>5 DEF g
  <2>7. Before(p, 1 - 1)
    BY <2>2, <2>6, Zenon DEF Consensus, ParentsFirst, g
  <2> QED BY <2>2, <2>4, <2>7, Zenon DEF Before
<1> QED BY <1>1, <1>2, <1>3, IInvInvariant, PTL DEF Spec

-----------------------------------------------------------------------------
(* The aggregators feed the proposer.                                       *)

\* f[i] is a after the first i certificates of s, up to n.
Appends(a, s, f, n) ==
    f[0] = a /\ \A i \in 1..n : f[i] = AppendCertificate(f[i - 1], s[i])

\* There is such an f for every n, by the least n for which there is none.
LEMMA AppendsExists ==
    ASSUME NEW a, NEW s, NEW n \in Nat
    PROVE  \E f : Appends(a, s, f, n)
<1> DEFINE T == {m \in Nat : ~\E f : Appends(a, s, f, m)}
<1> SUFFICES ASSUME T # {} PROVE FALSE
  OBVIOUS
<1>1. PICK m \in T : \A y \in T : m <= y
  BY LeastNatural
<1>2. m \in Nat /\ ~\E f : Appends(a, s, f, m)
  BY <1>1
<1>3. CASE m = 0
  <2> DEFINE f == [i \in Nat |-> a]
  <2>1. f[0] = a /\ 1..m = {}
    BY <1>3
  <2>2. Appends(a, s, f, m)
    BY <2>1, Zenon DEF Appends
  <2> QED BY <1>2, <2>2, Zenon
<1>4. CASE m # 0
  <2>1. m - 1 \in Nat /\ m - 1 \notin T
    BY <1>1, <1>2, <1>4
  <2>2. PICK f : Appends(a, s, f, m - 1)
    BY <2>1, Zenon
  <2> DEFINE g == [i \in Nat |-> IF i = m THEN AppendCertificate(f[m - 1], s[m]) ELSE f[i]]
  <2>3. g[0] = f[0] /\ g[m] = AppendCertificate(f[m - 1], s[m])
    BY <1>2, <1>4
  <2>4. \A i \in 1..m : i - 1 \in Nat /\ i \in Nat /\ i - 1 # m
    BY <1>2
  <2>5. \A i \in 1..m : g[i - 1] = f[i - 1]
    BY <2>4, Zenon
  <2>6. \A i \in 1..m : i # m => i \in 1..(m - 1) /\ g[i] = f[i]
    BY <1>2
  <2> HIDE DEF g
  <2>7. ASSUME NEW i \in 1..m PROVE g[i] = AppendCertificate(g[i - 1], s[i])
    <3>1. CASE i = m
      BY <2>3, <2>5, <3>1, Zenon
    <3>2. CASE i # m
      BY <2>2, <2>5, <2>6, <3>2, Zenon DEF Appends
    <3> QED BY <3>1, <3>2
  <2>8. Appends(a, s, g, m)
    BY <2>2, <2>3, <2>7, Zenon DEF Appends
  <2> QED BY <1>2, <2>8, Zenon
<1> QED BY <1>3, <1>4

\* Two of them agree.
LEMMA AppendsAgree ==
    ASSUME NEW a, NEW s, NEW f, NEW g, NEW n \in Nat, Appends(a, s, f, n), Appends(a, s, g, n)
    PROVE  f[n] = g[n]
<1> DEFINE T == {i \in 0..n : f[i] # g[i]}
<1> SUFFICES ASSUME T # {} PROVE FALSE
  OBVIOUS
<1>0. T \subseteq Nat
  OBVIOUS
<1>1. PICK i \in T : \A y \in T : i <= y
  BY <1>0, LeastNatural
<1>2. i \in 0..n /\ f[i] # g[i]
  BY <1>1
<1>3. i # 0
  BY <1>2, Zenon DEF Appends
<1>4. i \in 1..n /\ i - 1 \in 0..n /\ i - 1 \notin T
  BY <1>1, <1>2, <1>3
<1>5. f[i - 1] = g[i - 1]
  BY <1>4, Zenon
<1> QED BY <1>2, <1>4, <1>5, Zenon DEF Appends

\* The function that AppendAll goes through s with.
LEMMA AppendsChosen ==
    ASSUME NEW a, NEW s, NEW F, NEW n \in Nat,
           F = CHOOSE f : f = [r \in Nat |-> IF r = 0 THEN a ELSE AppendCertificate(f[r - 1], s[r])]
    PROVE  Appends(a, s, F, n)
<1> DEFINE G(m) == CHOOSE f : Appends(a, s, f, m)
           H == [m \in Nat |-> G(m)[m]]
<1>1. ASSUME NEW m \in Nat PROVE Appends(a, s, G(m), m)
  BY AppendsExists, Zenon
<1>2. ASSUME NEW m \in Nat, m # 0 PROVE H[m] = AppendCertificate(H[m - 1], s[m])
  <2>1. m - 1 \in Nat /\ m \in 1..m /\ \A i \in 1..(m - 1) : i \in 1..m
    BY <1>2
  <2>2. Appends(a, s, G(m), m - 1) /\ Appends(a, s, G(m - 1), m - 1)
    BY <1>1, <2>1, Zenon DEF Appends
  <2> HIDE DEF G
  <2>3. G(m)[m - 1] = G(m - 1)[m - 1]
    BY <2>1, <2>2, AppendsAgree
  <2>4. G(m)[m] = AppendCertificate(G(m)[m - 1], s[m])
    BY <1>1, <1>2, <2>1, Zenon DEF Appends
  <2> QED BY <1>2, <2>1, <2>3, <2>4, Zenon
<1>3. H[0] = a
  BY <1>1, Zenon DEF Appends
<1> HIDE DEF G
<1>4. H = [m \in Nat |-> IF m = 0 THEN a ELSE AppendCertificate(H[m - 1], s[m])]
  <2>1. \A m \in Nat : G(m)[m] = IF m = 0 THEN a ELSE AppendCertificate(H[m - 1], s[m])
    BY <1>2, <1>3, Zenon
  <2> QED BY <2>1, Zenon
<1> HIDE DEF H
<1>5. F = [m \in Nat |-> IF m = 0 THEN a ELSE AppendCertificate(F[m - 1], s[m])]
  BY <1>4, Zenon
<1>6. \A m \in Nat : F[m] = IF m = 0 THEN a ELSE AppendCertificate(F[m - 1], s[m])
  BY <1>5, Zenon
<1>7. F[0] = a
  BY <1>6, Zenon
<1>8. \A i \in 1..n : i \in Nat /\ i # 0
  OBVIOUS
<1> QED BY <1>6, <1>7, <1>8, Zenon DEF Appends


\* From the quorum of a round on, all its certificates in a were sent.
AggOk(a) ==
    /\ a.agg \subseteq Cert
    /\ \A r \in Int : ReachedQuorum(Authors(AtRound(a.agg, r))) => AtRound(a.agg, r) \subseteq a.fed

\* b has all of a that is less than GcDepth rounds below top.
Keeps(a, b, top) == \A d \in a.agg : d.round > top - GcDepth => d \in b.agg

\* append_certificate adds c, and loses only rounds that are too old.
LEMMA AppendOne ==
    ASSUME NEW a, AggOk(a), NEW c \in Cert
    PROVE  /\ AggOk(AppendCertificate(a, c)) /\ c \in AppendCertificate(a, c).agg
           /\ Keeps(a, AppendCertificate(a, c), c.round)
<1> DEFINE b == AppendCertificate(a, c)
           kept == {d \in a.agg : d.round > c.round - GcDepth}
           next == IF c.author \in Authors(AtRound(kept, c.round)) THEN kept ELSE kept \cup {c}
<1>1. /\ b.agg = next
      /\ \/ b.fed = a.fed \cup AtRound(next, c.round)
         \/ b.fed = a.fed /\ (next = kept \/ ~ReachedQuorum(Authors(AtRound(next, c.round))))
  BY DEF AppendCertificate
<1>2. a.agg \subseteq Cert /\ kept \subseteq a.agg /\ kept \subseteq Cert
  BY DEF AggOk
<1>3. \A x \in Cert : x = [author |-> x.author, round |-> x.round] /\ x.round \in Nat
  BY DagAssumption
<1>4. \A r \in Int : AtRound(kept, r) = AtRound(a.agg, r) \/ AtRound(kept, r) = {}
  <2> SUFFICES ASSUME NEW r \in Int PROVE AtRound(kept, r) = AtRound(a.agg, r) \/ AtRound(kept, r) = {}
    OBVIOUS
  <2>1. CASE r > c.round - GcDepth
    <3>1. AtRound(kept, r) = AtRound(a.agg, r)
      BY <2>1 DEF AtRound
    <3> QED BY <3>1
  <2>2. CASE ~(r > c.round - GcDepth)
    <3>1. AtRound(kept, r) = {}
      BY <2>2 DEF AtRound
    <3> QED BY <3>1
  <2> QED BY <2>1, <2>2
<1>5. c \in next
  <2>1. CASE c.author \in Authors(AtRound(kept, c.round))
    <3>1. PICK d \in kept : d.round = c.round /\ d.author = c.author
      BY <2>1 DEF Authors, AtRound
    <3>2. d = c
      BY <1>2, <1>3, <3>1, Zenon
    <3>3. next = kept
      BY <2>1, Zenon
    <3> QED BY <3>1, <3>2, <3>3, Zenon
  <2>2. CASE c.author \notin Authors(AtRound(kept, c.round))
    BY <2>2, Zenon
  <2> QED BY <2>1, <2>2
<1>6. next = kept \/ next = kept \cup {c}
  BY Zenon
<1>7. Keeps(a, b, c.round)
  <2>1. \A d \in a.agg : d.round > c.round - GcDepth => d \in kept
    OBVIOUS
  <2> HIDE DEF kept, next, b
  <2> QED BY <1>1, <1>6, <2>1, Zenon DEF Keeps
<1> HIDE DEF kept, next, b
<1>8. ASSUME NEW r \in Int, ReachedQuorum(Authors(AtRound(next, r))) PROVE AtRound(next, r) \subseteq b.fed
  <2>1. a.fed \subseteq b.fed
    BY <1>1, Zenon
  <2>2. CASE AtRound(next, r) = AtRound(kept, r)
    BY <1>4, <1>8, <2>1, <2>2, Zenon DEF AggOk
  <2>3. CASE AtRound(next, r) # AtRound(kept, r)
    <3>1. next # kept /\ next = kept \cup {c}
      BY <1>6, <2>3, Zenon
    <3>2. c.round = r
      BY <2>3, <3>1, Zenon DEF AtRound
    <3> QED BY <1>1, <1>8, <3>1, <3>2, Zenon
  <2> QED BY <2>2, <2>3
<1>9. AggOk(b)
  <2>1. next \subseteq Cert
    BY <1>2, <1>6, Zenon
  <2> QED BY <1>1, <1>8, <2>1, Zenon DEF AggOk
<1> QED BY <1>1, <1>5, <1>7, <1>9, Zenon DEF b

\* AppendAll has what a and s have, less than GcDepth rounds below top.
Aggregates(a, s, b, top, n) ==
    /\ AggOk(b) /\ Keeps(a, b, top)
    /\ \A i \in 1..n : s[i].round > top - GcDepth => s[i] \in b.agg

\* No certificate of s is above top: each is added, and none pushes out another.
LEMMA AppendAllFacts ==
    ASSUME NEW a, AggOk(a), NEW s \in Seq(Cert), NEW top \in Nat, \A i \in 1..Len(s) : s[i].round <= top
    PROVE  Aggregates(a, s, AppendAll(a, s), top, Len(s))
<1> DEFINE F == CHOOSE f : f = [n \in Nat |-> IF n = 0 THEN a ELSE AppendCertificate(f[n - 1], s[n])]
<1>1. AppendAll(a, s) = F[Len(s)] /\ Len(s) \in Nat
  BY DEF AppendAll
<1>2. \A n \in Nat : Appends(a, s, F, n)
  BY AppendsChosen, Zenon
<1> HIDE DEF F
<1> DEFINE T == {n \in 0..Len(s) : ~Aggregates(a, s, F[n], top, n)}
<1> SUFFICES ASSUME T # {} PROVE FALSE
  <2>1. Len(s) \in 0..Len(s)
    BY <1>1
  <2> QED BY <1>1, <2>1, Zenon
<1>0. T \subseteq Nat
  BY <1>1
<1>3. PICK n \in T : \A y \in T : n <= y
  BY <1>0, LeastNatural, Zenon
<1>4. n \in 0..Len(s) /\ n \in Nat /\ ~Aggregates(a, s, F[n], top, n)
  BY <1>1, <1>3
<1>5. n # 0
  <2>0. 1..0 = {} /\ 0 \in Nat
    OBVIOUS
  <2>1. F[0] = a /\ 1..0 = {}
    BY <1>2, <2>0, Zenon DEF Appends
  <2>2. Aggregates(a, s, F[0], top, 0)
    BY <2>1, Zenon DEF Aggregates, Keeps
  <2> QED BY <1>4, <2>2, Zenon
<1>6. n \in 1..Len(s) /\ n \in 1..n /\ n - 1 \in 0..Len(s) /\ n - 1 \notin T /\ \A i \in 1..n : i = n \/ i \in 1..(n - 1)
  BY <1>1, <1>3, <1>4, <1>5
<1> DEFINE b == F[n - 1]
           c == s[n]
           d == F[n]
<1>7. Aggregates(a, s, b, top, n - 1)
  BY <1>6, Zenon
<1>8. d = AppendCertificate(b, c)
  BY <1>2, <1>4, <1>6, Zenon DEF Appends
<1>9. c \in Cert /\ c.round <= top
  BY <1>6
<1> HIDE DEF T, b, c, d
<1>10. AggOk(d) /\ c \in d.agg /\ Keeps(b, d, c.round)
  BY <1>7, <1>8, <1>9, AppendOne, Zenon DEF Aggregates
<1>11. Keeps(b, d, top)
  <2> SUFFICES ASSUME NEW x \in b.agg, x.round > top - GcDepth PROVE x \in d.agg
    BY Zenon DEF Keeps
  <2>1. x.round \in Nat /\ c.round \in Nat
    BY <1>7, <1>9, RoundFacts, Zenon DEF Aggregates, AggOk
  <2>2. x.round > c.round - GcDepth
    BY <1>9, <2>1, BoundAssumption
  <2> QED BY <1>10, <2>2, Zenon DEF Keeps
<1>12. Keeps(a, d, top)
  BY <1>7, <1>11, Zenon DEF Aggregates, Keeps
<1>13. ASSUME NEW i \in 1..n, s[i].round > top - GcDepth PROVE s[i] \in d.agg
  <2>1. CASE i = n
    BY <1>10, <2>1, Zenon DEF c
  <2>2. CASE i \in 1..(n - 1)
    BY <1>7, <1>11, <1>13, <2>2, Zenon DEF Aggregates, Keeps
  <2> QED BY <1>6, <2>1, <2>2, Zenon
<1> QED BY <1>4, <1>10, <1>12, <1>13, Zenon DEF Aggregates, d

\* A round has finitely many certificates, one for each authority.
LEMMA FinitelyMany ==
    ASSUME NEW n \in Nat
    PROVE  IsFiniteSet({c \in Cert : c.round < n})
<1> DEFINE S == {c \in Cert : c.round < n}
           T == Authority \X (0..n)
           f == [c \in S |-> <<c.author, c.round>>]
<1>1. IsFiniteSet(T)
  <2>1. IsFiniteSet(Authority) /\ IsFiniteSet(0..n)
    BY AuthorityAssumption, FS_Interval
  <2> HIDE DEF T
  <2> QED BY <2>1, FS_Product DEF T
<1>2. \A c \in Cert : /\ c = [author |-> c.author, round |-> c.round]
                      /\ c.round \in Nat /\ c.author \in Authority
  BY DagAssumption
<1>3. f \in [S -> T]
  BY <1>2
<1>4. ASSUME NEW x \in S, NEW y \in S, f[x] = f[y] PROVE x = y
  <2>1. x.author = y.author /\ x.round = y.round
    BY <1>4
  <2>2. x \in Cert /\ y \in Cert
    OBVIOUS
  <2> QED BY <1>2, <2>1, <2>2, Zenon
<1> HIDE DEF S, T, f
<1>5. f \in Injection(S, T)
  BY <1>3, <1>4, Zenon DEF Injection, IsInjective
<1>6. IsFiniteSet(S)
  BY <1>1, <1>5, FS_Injection
<1> QED BY <1>6 DEF S

\* The strengthening of ProposerFed.  An active node has what it stored in the
\* last two rounds in its aggregators; the garbage collection it follows is that
\* of a commit below the last stored round, since consensus commits a leader
\* only when it takes a later certificate, and takes only what is stored.
AggFull == \A c \in stored : c.round >= TopRound(stored) - 1 => c \in agg

CommitBelow ==
    /\ changed \/ phase = "gc" => rounds.own < TopRound(stored)
    /\ phase = "gc" => gc <= gc_round(rounds.own)

ChanStored == \A i \in 1..Len(chan) : chan[i] \in stored

Feeding ==
    /\ IsFiniteSet(stored) /\ AggOk([agg |-> agg, fed |-> fed])
    /\ mode = "active" => AggFull /\ CommitBelow /\ ChanStored

\* More certificates have a top round that is not lower.
LEMMA TopRises ==
    ASSUME NEW S, NEW U, U \subseteq Cert, IsFiniteSet(U), S \subseteq U
    PROVE  TopRound(S) \in Nat /\ TopRound(U) \in Nat /\ TopRound(S) <= TopRound(U)
<1>1. S \subseteq Cert /\ IsFiniteSet(S)
  BY FS_Subset
<1>2. /\ TopRound(S) \in Nat /\ TopRound(U) \in Nat /\ \A c \in U : c.round <= TopRound(U)
      /\ TopRound(S) = 0 \/ \E c \in S : c.round = TopRound(S)
  BY <1>1, TopRoundFacts, Zenon
<1> QED BY <1>2

\* accept_verified_certificates, from aggregators a that still have what the
\* last two rounds need.
LEMMA AcceptFed ==
    ASSUME GcDepth >= 2, Typed, Feeding, NEW S, S \subseteq Cert, IsFiniteSet(S), NEW s \in Seq(Cert),
           \A i \in 1..Len(s) : s[i] \in S, \A c \in S : \E i \in 1..Len(s) : s[i] = c,
           NEW a, AggOk(a), Accept(S, s, a),
           mode = "active" => \A c \in stored : c.round >= TopRound(stored) - 1 => c \in a.agg
    PROVE  /\ IsFiniteSet(stored') /\ AggOk([agg |-> agg, fed |-> fed])'
           /\ TopRound(stored) \in Nat /\ TopRound(stored') \in Nat /\ TopRound(stored) <= TopRound(stored')
           /\ mode = "active" => AggFull' /\ (ChanTyped => ChanStored')
<1> DEFINE top == TopRound(stored)
           new == TopRound(stored')
           b == AppendAll(a, s)
<1>1. /\ stored' = stored \cup S /\ agg' = b.agg /\ fed' = b.fed
      /\ chan' = IF mode = "active" THEN chan \o s ELSE chan
  BY Zenon DEF Accept
<1>2. stored' \subseteq Cert /\ IsFiniteSet(stored')
  <2>1. stored \subseteq Cert /\ IsFiniteSet(stored)
    BY DEF Typed, Feeding
  <2>2. IsFiniteSet(stored \cup S)
    BY <2>1, FS_Union
  <2> QED BY <1>1, <2>1, <2>2, Zenon
<1>3. top \in Nat /\ new \in Nat /\ top <= new /\ \A c \in stored' : c.round <= new
  <2>1. stored \subseteq stored'
    BY <1>1, Zenon
  <2>2. top \in Nat /\ new \in Nat /\ top <= new
    BY <1>2, <2>1, TopRises, Zenon
  <2> QED BY <1>2, <2>2, TopRoundFacts, Zenon
<1> HIDE DEF b, top, new
<1>4. Aggregates(a, s, b, new, Len(s))
  <2>1. \A i \in 1..Len(s) : s[i].round <= new
    BY <1>1, <1>3, Zenon
  <2> QED BY <1>3, <2>1, AppendAllFacts, Zenon DEF b
<1>5. AggOk([agg |-> agg, fed |-> fed])'
  BY <1>1, <1>4 DEF Aggregates, AggOk
<1>6. ASSUME mode = "active" PROVE AggFull'
  <2> SUFFICES ASSUME NEW c \in stored', c.round >= new - 1 PROVE c \in b.agg
    BY <1>1, Zenon DEF AggFull, new
  <2>1. c.round \in Nat
    BY <1>2, RoundFacts, Zenon
  <2>2. c.round > new - GcDepth /\ c.round >= top - 1
    BY <1>3, <2>1, BoundAssumption
  <2>3. CASE c \in stored
    <3>1. c \in a.agg
      BY <1>6, <2>2, <2>3, Zenon DEF top
    <3> QED BY <1>4, <2>2, <3>1, Zenon DEF Aggregates, Keeps
  <2>4. CASE c \in S
    BY <1>4, <2>2, <2>4, Zenon DEF Aggregates
  <2> QED BY <1>1, <2>3, <2>4, Zenon
<1>7. ASSUME mode = "active", ChanTyped PROVE ChanStored'
  <2>1. chan \in Seq(Cert) /\ chan' = chan \o s
    BY <1>1, <1>7, Zenon DEF ChanTyped
  <2>2. Places(chan, s, chan')
    BY <2>1, Concatenated, Zenon
  <2>3. \A i \in 1..Len(chan) : chan[i] \in stored
    BY <1>7, Zenon DEF Feeding, ChanStored
  <2> QED BY <1>1, <2>2, <2>3, Zenon DEF Places, ChanStored
<1> QED BY <1>2, <1>3, <1>5, <1>6, <1>7, Zenon DEF top, new

\* A delivered certificate.
LEMMA VerifiedFed ==
    ASSUME GcDepth >= 2, IInv, Consensus, Feeding, NEW c \in Cert, ProcessVerified(c)
    PROVE  Feeding'
<1>1. UNCHANGED <<phase, mode, rounds, changed, gc>> /\ phase = "idle"
  BY Zenon DEF ProcessVerified
<1>2. Typed /\ ChanTyped /\ IsFiniteSet(DOMAIN pending) /\ DOMAIN pending \subseteq Cert
  BY Zenon DEF IInv, Typed, Consensus, ChanTyped
<1>3. CASE UNCHANGED <<stored, chan, agg, fed>>
  BY <1>1, <1>3, Zenon DEF Feeding, AggFull, CommitBelow, ChanStored
<1>4. CASE Accept({c} \cup Ready({c}), AcceptedWith(c), [agg |-> agg, fed |-> fed])
  <2> DEFINE R == Ready({c})
             S == {c} \cup R
             t == ByRound(R)
             one == <<c>>
             s == AcceptedWith(c)
             a == [agg |-> agg, fed |-> fed]
  <2>1. R \subseteq DOMAIN pending
    BY Zenon DEF Ready
  <2>2. S \subseteq Cert /\ IsFiniteSet(S)
    <3>1. IsFiniteSet(R)
      BY <1>2, <2>1, FS_Subset
    <3> HIDE DEF R
    <3>2. IsFiniteSet({c} \cup R)
      BY <3>1, FS_Singleton, FS_Union
    <3> QED BY <1>2, <2>1, <3>2, Zenon
  <2>3. t \in Seq(Cert) /\ (\A i \in 1..Len(t) : t[i] \in R) /\ \A d \in R : \E i \in 1..Len(t) : t[i] = d
    <3>1. Releases({c}, t)
      BY <1>2, ReadyOrdered, Zenon
    <3> QED BY <3>1, Zenon DEF Releases
  <2>4. s = one \o t /\ one \in Seq(Cert) /\ Len(one) = 1 /\ one[1] = c /\ 1 \in 1..1 /\ \A i \in 1..1 : i = 1
    BY DEF AcceptedWith
  <2>5. a.agg = agg
    BY Zenon
  <2>6. Accept(S, s, a) /\ AggOk(a) /\ (mode = "active" => \A d \in stored : d.round >= TopRound(stored) - 1 => d \in a.agg)
    <3>1. mode = "active" => AggFull
      BY Zenon DEF Feeding
    <3>2. AggOk(a)
      BY Zenon DEF Feeding
    <3> QED BY <1>4, <2>5, <3>1, <3>2, Zenon DEF AggFull
  <2> HIDE DEF R, t, one, s, a
  <2>7. Places(one, t, s)
    BY <2>3, <2>4, Concatenated, Zenon
  <2>8. s \in Seq(Cert) /\ \A i \in 1..Len(s) : s[i] \in S
    BY <2>3, <2>4, <2>7, Zenon DEF Places
  <2>9. \A d \in S : \E i \in 1..Len(s) : s[i] = d
    <3>1. ASSUME NEW d \in R PROVE \E i \in 1..Len(s) : s[i] = d
      <4>1. PICK i \in 1..Len(t) : t[i] = d
        BY <2>3, Zenon
      <4> QED BY <2>7, <4>1, Zenon DEF Places
    <3>2. 1 \in 1..Len(s) /\ s[1] = c
      BY <2>4, <2>7, Zenon DEF Places
    <3> QED BY <3>1, <3>2, Zenon
  <2> HIDE DEF S
  <2>10. /\ IsFiniteSet(stored') /\ AggOk([agg |-> agg, fed |-> fed])'
         /\ TopRound(stored) \in Nat /\ TopRound(stored') \in Nat /\ TopRound(stored) <= TopRound(stored')
         /\ mode = "active" => AggFull' /\ (ChanTyped => ChanStored')
    BY <1>2, <2>2, <2>6, <2>8, <2>9, AcceptFed, Zenon
  <2>11. mode = "active" => CommitBelow'
    <3>1. rounds.own \in Nat /\ (mode = "active" => CommitBelow)
      BY <1>2 DEF Typed, Feeding
    <3>2. rounds.own < TopRound(stored) => rounds.own < TopRound(stored')
      BY <2>10, <3>1
    <3> QED BY <1>1, <3>1, <3>2, Zenon DEF CommitBelow
  <2> QED BY <1>1, <1>2, <2>10, <2>11, Zenon DEF Feeding
<1> QED BY <1>3, <1>4, Zenon DEF ProcessVerified

\* process_gc_round: the aggregators it clears are below the last two rounds.
LEMMA GcFed ==
    ASSUME GcDepth >= 2, IInv, Consensus, Feeding, ProcessGcRound
    PROVE  Feeding'
<1> DEFINE R == Ready(Expired(EffectiveGc))
           s == ByRound(R)
           top == TopRound(stored)
           a == [agg |-> {c \in agg : c.round > gc}, fed |-> fed]
<1>1. /\ phase = "gc" /\ phase' = "idle" /\ UNCHANGED <<mode, rounds, changed, gc>>
      /\ Accept(R, s, a)
  BY Zenon DEF ProcessGcRound
<1>2. /\ Typed /\ ChanTyped /\ IsFiniteSet(DOMAIN pending) /\ DOMAIN pending \subseteq Cert
      /\ stored \subseteq Cert /\ gc \in Nat /\ rounds.own \in Nat
  BY DEF IInv, Typed, Consensus, ChanTyped
<1>3. R \subseteq Cert /\ IsFiniteSet(R)
  <2>1. R \subseteq DOMAIN pending
    BY Zenon DEF Ready
  <2>2. IsFiniteSet(R)
    BY <1>2, <2>1, FS_Subset
  <2> QED BY <1>2, <2>1, <2>2, Zenon
<1>4. s \in Seq(Cert) /\ (\A i \in 1..Len(s) : s[i] \in R) /\ \A d \in R : \E i \in 1..Len(s) : s[i] = d
  <2>1. Releases(Expired(EffectiveGc), s)
    BY <1>2, ReadyOrdered, Zenon
  <2> QED BY <2>1, Zenon DEF Releases
<1>5. a.agg = {c \in agg : c.round > gc} /\ a.fed = fed
  BY Zenon
<1> HIDE DEF R, s, a
<1>6. agg \subseteq Cert /\ \A r \in Int : ReachedQuorum(Authors(AtRound(agg, r))) => AtRound(agg, r) \subseteq fed
  BY DEF Feeding, AggOk
<1>7. AggOk(a)
  <2> SUFFICES ASSUME NEW r \in Int, ReachedQuorum(Authors(AtRound(a.agg, r)))
               PROVE  AtRound(a.agg, r) \subseteq a.fed
    BY <1>5, <1>6, Zenon DEF AggOk
  <2>1. AtRound(a.agg, r) = AtRound(agg, r) \/ AtRound(a.agg, r) = {}
    <3>1. CASE r > gc
      <4>1. AtRound(a.agg, r) = AtRound(agg, r)
        BY <1>5, <3>1 DEF AtRound
      <4> QED BY <4>1
    <3>2. CASE ~(r > gc)
      <4>1. AtRound(a.agg, r) = {}
        BY <1>5, <3>2 DEF AtRound
      <4> QED BY <4>1
    <3> QED BY <3>1, <3>2
  <2> QED BY <1>5, <1>6, <2>1, Zenon
<1>8. ASSUME mode = "active", NEW c \in stored, c.round >= top - 1 PROVE c \in a.agg
  <2>1. c \in agg
    BY <1>8, Zenon DEF Feeding, AggFull, top
  <2>2. top \in Nat
    BY <1>2, TopRoundFacts, Zenon DEF Feeding
  <2>3. gc <= gc_round(rounds.own) /\ rounds.own < top
    BY <1>1, <1>8, Zenon DEF Feeding, CommitBelow, top
  <2>4. c.round \in Nat /\ c.round # 0
    BY <1>2, DagAssumption
  <2> HIDE DEF top
  <2>5. c.round > gc
    BY <1>2, <1>8, <2>2, <2>3, <2>4, BoundAssumption DEF gc_round
  <2> QED BY <1>5, <2>1, <2>5, Zenon
<1>9. /\ IsFiniteSet(stored') /\ AggOk([agg |-> agg, fed |-> fed])'
      /\ TopRound(stored) \in Nat /\ TopRound(stored') \in Nat /\ TopRound(stored) <= TopRound(stored')
      /\ mode = "active" => AggFull' /\ (ChanTyped => ChanStored')
  BY <1>1, <1>2, <1>3, <1>4, <1>7, <1>8, AcceptFed, Zenon
<1>10. mode = "active" => CommitBelow'
  <2>1. mode = "active" => CommitBelow
    BY Zenon DEF Feeding
  <2>2. rounds.own < TopRound(stored) => rounds.own < TopRound(stored')
    BY <1>2, <1>9
  <2>3. phase' # "gc"
    BY <1>1
  <2> QED BY <1>1, <2>1, <2>2, <2>3, Zenon DEF CommitBelow
<1> QED BY <1>1, <1>2, <1>9, <1>10, Zenon DEF Feeding

\* last_two_rounds_certs lists the last two rounds.
LEMMA LastTwoFacts ==
    ASSUME NEW S, S \subseteq Cert, IsFiniteSet(S)
    PROVE  /\ LastTwoRounds(S) \in Seq(Cert)
           /\ \A i \in 1..Len(LastTwoRounds(S)) : LastTwoRounds(S)[i] \in S
           /\ \A c \in S : c.round >= TopRound(S) - 1 =>
                 \E i \in 1..Len(LastTwoRounds(S)) : LastTwoRounds(S)[i] = c
<1> DEFINE top == TopRound(S)
           A == AtRound(S, top)
           B == AtRound(S, top - 1)
           s == Listing(A)
           t == Listing(B)
           u == LastTwoRounds(S)
<1>1. top \in Nat /\ (\A c \in S : c.round \in Nat /\ c.round <= top) /\ u = s \o t
  BY TopRoundFacts, RoundFacts DEF LastTwoRounds
<1> HIDE DEF top, u
<1>2. A \subseteq S /\ B \subseteq S /\ \A c \in S : c.round >= top - 1 => c \in A \/ c \in B
  BY <1>1 DEF AtRound
<1> HIDE DEF A, B
<1>3. IsFiniteSet(A) /\ IsFiniteSet(B)
  BY <1>2, FS_Subset
<1>4. /\ s \in Seq(A) /\ \A c \in A : \E i \in 1..Len(s) : s[i] = c
      /\ t \in Seq(B) /\ \A c \in B : \E i \in 1..Len(t) : t[i] = c
  BY <1>3, Listed, Zenon
<1> HIDE DEF s, t
<1>5. /\ s \in Seq(Cert) /\ \A i \in 1..Len(s) : s[i] \in S
      /\ t \in Seq(Cert) /\ \A i \in 1..Len(t) : t[i] \in S
  BY <1>2, <1>4
<1>6. Places(s, t, u)
  BY <1>1, <1>5, Concatenated, Zenon
<1>7. u \in Seq(Cert) /\ \A i \in 1..Len(u) : u[i] \in S
  BY <1>5, <1>6, Zenon DEF Places
<1>8. ASSUME NEW c \in S, c.round >= top - 1 PROVE \E i \in 1..Len(u) : u[i] = c
  <2>1. CASE c \in A
    BY <1>4, <1>6, <2>1, Zenon DEF Places
  <2>2. CASE c \in B
    <3>1. PICK i \in 1..Len(t) : t[i] = c
      BY <1>4, <2>2, Zenon
    <3> QED BY <1>6, <3>1, Zenon DEF Places
  <2> QED BY <1>2, <1>8, <2>1, <2>2, Zenon
<1> QED BY <1>7, <1>8, Zenon DEF u, top

\* A start of the tasks: the aggregators are filled from the last two rounds.
LEMMA StartFed ==
    ASSUME GcDepth >= 2, NEW m, NEW S, S \subseteq Cert, IsFiniteSet(S), NEW r, NEW given,
           StartTasks(m, S, r, given)
    PROVE  Feeding'
<1> DEFINE e == [agg |-> {}, fed |-> {}]
           s == LastTwoRounds(S)
           b == AppendAll(e, s)
           top == TopRound(S)
<1>1. /\ stored' = S /\ phase' = "idle" /\ changed' = FALSE /\ chan' = <<>>
      /\ agg' = b.agg /\ fed' = b.fed
  BY Zenon DEF StartTasks
<1>2. e.agg = {} /\ phase' # "gc" /\ 1..Len(chan') = {}
  BY <1>1
<1>3. AggOk(e)
  <2>1. \A r1 \in Int : AtRound(e.agg, r1) = {}
    BY <1>2, Zenon DEF AtRound
  <2> QED BY <1>2, <2>1, Zenon DEF AggOk
<1>4. /\ s \in Seq(Cert) /\ \A i \in 1..Len(s) : s[i] \in S
      /\ \A c \in S : c.round >= top - 1 => \E i \in 1..Len(s) : s[i] = c
  BY LastTwoFacts, Zenon
<1>5. top \in Nat /\ \A c \in S : c.round <= top
  BY TopRoundFacts, Zenon
<1> HIDE DEF e, s, b, top
<1>6. Aggregates(e, s, b, top, Len(s))
  <2>1. \A i \in 1..Len(s) : s[i].round <= top
    BY <1>4, <1>5, Zenon
  <2> QED BY <1>3, <1>4, <1>5, <2>1, AppendAllFacts, Zenon DEF b
<1>7. AggOk([agg |-> agg, fed |-> fed])'
  BY <1>1, <1>6 DEF Aggregates, AggOk
<1>8. AggFull'
  <2> SUFFICES ASSUME NEW c \in S, c.round >= top - 1 PROVE c \in b.agg
    BY <1>1, Zenon DEF AggFull, top
  <2>1. c.round \in Nat
    BY RoundFacts, Zenon
  <2>2. c.round > top - GcDepth
    BY <1>5, <2>1, BoundAssumption
  <2> QED BY <1>4, <1>6, <2>2, Zenon DEF Aggregates
<1> QED BY <1>1, <1>2, <1>7, <1>8, Zenon DEF Feeding, CommitBelow, ChanStored

\* Consensus takes a stored certificate, and commits only below it.
LEMMA TakeFed ==
    ASSUME Typed, ChanTyped, Feeding, TakeCertificate
    PROVE  Feeding'
<1> DEFINE top == TopRound(stored)
<1>1. /\ mode = "active" /\ chan # <<>> /\ chan' = Tail(chan) /\ chan \in Seq(Cert)
      /\ UNCHANGED <<stored, gc, phase, mode, agg, fed>>
  BY Zenon DEF TakeCertificate, managerVars, ChanTyped
<1>2. AggFull /\ CommitBelow /\ ChanStored /\ IsFiniteSet(stored) /\ AggOk([agg |-> agg, fed |-> fed])
  BY <1>1, Zenon DEF Feeding
<1>3. Head(chan) \in stored /\ ChanStored'
  <2>1. /\ Head(chan) = chan[1] /\ 1 \in 1..Len(chan)
        /\ \A i \in 1..Len(Tail(chan)) : i + 1 \in 1..Len(chan) /\ Tail(chan)[i] = chan[i + 1]
    BY <1>1
  <2> QED BY <1>1, <1>2, <2>1, Zenon DEF ChanStored
<1>4. top \in Nat /\ Head(chan).round \in Nat /\ Head(chan).round <= top
  BY <1>2, <1>3, TopRoundFacts, RoundFacts, Zenon DEF Typed
<1>5. \/ UNCHANGED <<rounds, changed>>
      \/ \E l : /\ l.round \in CommitRound /\ rounds.own < l.round /\ l.round < Head(chan).round
                /\ rounds' = [rounds EXCEPT !.own = l.round]
  BY Zenon DEF TakeCertificate, Commit
<1> HIDE DEF top
<1>6. CommitBelow'
  <2>1. CASE UNCHANGED <<rounds, changed>>
    BY <1>1, <1>2, <2>1, Zenon DEF CommitBelow
  <2>2. ASSUME NEW l, l.round \in CommitRound, rounds.own < l.round, l.round < Head(chan).round,
               rounds' = [rounds EXCEPT !.own = l.round]
        PROVE  CommitBelow'
    <3>1. rounds.own \in Nat /\ gc \in Nat /\ rounds'.own = l.round /\ l.round \in Nat
      BY <2>2, BoundAssumption DEF Typed
    <3>2. rounds'.own < top /\ rounds.own <= rounds'.own
      BY <1>4, <2>2, <3>1
    <3>3. gc <= gc_round(rounds.own) => gc <= gc_round(rounds'.own)
      <4>1. /\ gc_round(rounds.own) \in Nat /\ gc_round(rounds'.own) \in Nat
            /\ gc_round(rounds.own) <= gc_round(rounds'.own)
        BY <3>1, <3>2, GcRises
      <4> QED BY <3>1, <4>1
    <3> QED BY <1>1, <1>2, <3>2, <3>3, Zenon DEF CommitBelow, top
  <2> QED BY <1>5, <2>1, <2>2, Zenon
<1>7. AggFull'
  BY <1>1, <1>2, Zenon DEF AggFull
<1> QED BY <1>1, <1>2, <1>3, <1>6, <1>7, Zenon DEF Feeding

\* Every step keeps the aggregators full.
LEMMA FeedingKeeps ==
    ASSUME GcDepth >= 2, IInv, Consensus, Feeding, [Next]_vars
    PROVE  Feeding'
<1>1. /\ Typed /\ ChanTyped /\ IsFiniteSet(DOMAIN pending) /\ DOMAIN pending \subseteq Cert
      /\ stored \subseteq Cert /\ IsFiniteSet(stored) /\ rounds \in [own : Nat, published : Nat]
      /\ AggOk([agg |-> agg, fed |-> fed])
  BY Zenon DEF IInv, Typed, Consensus, ChanTyped, Feeding
<1>2. CASE UNCHANGED vars
  BY <1>2, Zenon DEF vars, Feeding, AggFull, CommitBelow, ChanStored
<1>3. CASE GcReady
  <2>1. /\ changed /\ gc' = gc_round(rounds.own) /\ changed' = FALSE
        /\ UNCHANGED <<stored, mode, chan, rounds, agg, fed>>
    BY <1>3, Zenon DEF GcReady
  <2>2. gc_round(rounds.own) <= gc_round(rounds.own)
    BY <1>1, GcRises
  <2> QED BY <2>1, <2>2, Zenon DEF Feeding, AggFull, CommitBelow, ChanStored
<1>4. CASE Publish
  <2>1. /\ UNCHANGED <<stored, gc, phase, mode, chan, changed, agg, fed>>
        /\ rounds' = [rounds EXCEPT !.published = rounds.own]
    BY <1>4, Zenon DEF Publish, managerVars
  <2>2. rounds'.own = rounds.own
    BY <1>1, <2>1
  <2> QED BY <2>1, <2>2, Zenon DEF Feeding, AggFull, CommitBelow, ChanStored
<1>5. ASSUME NEW l \in Cert, Follow(l) PROVE Feeding'
  <2> DEFINE B == {c \in Cert : c.round < l.round}
  <2>1. /\ stored' = stored \cup B \cup {l} /\ mode' = "inactive" /\ UNCHANGED <<agg, fed>>
    BY <1>5, Zenon DEF Follow
  <2>2. l.round \in Nat
    BY RoundFacts, Zenon
  <2>3. IsFiniteSet(B)
    BY <2>2, FinitelyMany, Zenon
  <2> HIDE DEF B
  <2>4. IsFiniteSet(stored \cup B)
    BY <1>1, <2>3, FS_Union
  <2>5. IsFiniteSet(stored \cup B \cup {l})
    BY <2>4, FS_AddElement
  <2>6. mode' # "active"
    BY <2>1
  <2> QED BY <1>1, <2>1, <2>5, <2>6, Zenon DEF Feeding
<1>6. ASSUME NEW m, StopAndStart(m) PROVE Feeding'
  <2>1. DrainPending \subseteq DOMAIN pending
    BY Zenon DEF DrainPending, Ready
  <2>2. IsFiniteSet(DrainPending)
    BY <1>1, <2>1, FS_Subset
  <2>3. stored \cup DrainPending \subseteq Cert
    BY <1>1, <2>1, Zenon
  <2>4. IsFiniteSet(stored \cup DrainPending)
    BY <1>1, <2>2, FS_Union
  <2> QED BY <1>6, <2>3, <2>4, StartFed, Zenon DEF StopAndStart
<1>7. ASSUME NEW m, NEW lost, NEW r, Crash(m, lost, r) PROVE Feeding'
  <2>1. stored \ lost \subseteq stored /\ stored \ lost \subseteq Cert
    BY <1>1, Zenon
  <2>2. IsFiniteSet(stored \ lost)
    BY <1>1, <2>1, FS_Subset
  <2> QED BY <1>7, <2>1, <2>2, StartFed, Zenon DEF Crash
<1>8. ASSUME Demote \/ Rejoin PROVE Feeding'
  BY <1>6, <1>8, Zenon DEF Demote, Rejoin
<1>9. CASE TakeCertificate
  BY <1>1, <1>9, TakeFed, Zenon
<1> QED BY <1>2, <1>3, <1>4, <1>5, <1>7, <1>8, <1>9, VerifiedFed, GcFed, Zenon DEF Next

\* For every DAG and committee, any number of crashes and duplicates, and a gc
\* depth of at least two rounds: of the last two rounds in the store of an active
\* node, every certificate of a round that has a quorum was sent to the proposer
\* by append_certificate, whatever process_gc_round cleared and wherever the node
\* was restarted (last_two_rounds_certs).
THEOREM ProposerFedTheorem == GcDepth >= 2 => (Spec => []ProposerFed)
<1> SUFFICES ASSUME GcDepth >= 2 PROVE Spec => []ProposerFed
  OBVIOUS
<1>1. Init => Feeding
  <2> SUFFICES ASSUME Init PROVE Feeding
    OBVIOUS
  <2>1. stored = {} /\ agg = {} /\ phase # "gc" /\ changed = FALSE /\ 1..Len(chan) = {}
    BY DEF Init
  <2>2. IsFiniteSet(stored)
    BY <2>1, FS_EmptySet
  <2>3. [agg |-> agg, fed |-> fed].agg = {}
    BY <2>1, Zenon
  <2>4. AggOk([agg |-> agg, fed |-> fed])
    BY <2>3, Zenon DEF AggOk, AtRound
  <2> QED BY <2>1, <2>2, <2>4, Zenon DEF Feeding, AggFull, CommitBelow, ChanStored
<1>2. Init => Consensus
  BY ConsensusInit
<1>3. IInv /\ Consensus /\ [Next]_vars => Consensus'
  BY ConsensusKeeps
<1>4. IInv /\ Consensus /\ Feeding /\ [Next]_vars => Feeding'
  BY FeedingKeeps
<1>5. IInv /\ Feeding => ProposerFed
  <2> SUFFICES ASSUME IInv, Feeding, mode = "active", NEW r \in {TopRound(stored) - 1, TopRound(stored)},
                      ReachedQuorum(Authors(AtRound(stored, r)))
               PROVE  AtRound(stored, r) \subseteq fed
    BY Zenon DEF ProposerFed
  <2> DEFINE A == Authors(AtRound(stored, r))
             B == Authors(AtRound(agg, r))
  <2>1. TopRound(stored) \in Nat
    BY TopRoundFacts, Zenon DEF IInv, Typed, Feeding
  <2>2. r \in Int /\ r >= TopRound(stored) - 1
    BY <2>1
  <2>3. AtRound(stored, r) \subseteq AtRound(agg, r)
    BY <2>2, Zenon DEF Feeding, AggFull, AtRound
  <2>4. agg \subseteq Cert /\ (ReachedQuorum(B) => AtRound(agg, r) \subseteq fed)
    BY <2>2 DEF Feeding, AggOk
  <2>5. A \subseteq B /\ B \subseteq Authority
    BY <2>3, <2>4, DagAssumption DEF Authors, AtRound
  <2> HIDE DEF A, B
  <2>6. IsFiniteSet(B)
    BY <2>5, AuthorityAssumption, FS_Subset
  <2>7. IsFiniteSet(A) /\ Cardinality(A) <= Cardinality(B)
    BY <2>5, <2>6, FS_Subset
  <2>8. Cardinality(A) \in Nat /\ Cardinality(B) \in Nat /\ QuorumThreshold \in Int
    BY <2>6, <2>7, AuthorityAssumption, FS_CardinalityType DEF QuorumThreshold, N
  <2>9. ReachedQuorum(B)
    BY <2>7, <2>8 DEF ReachedQuorum, A
  <2> QED BY <2>3, <2>4, <2>9, Zenon
<1> QED BY <1>1, <1>2, <1>3, <1>4, <1>5, IInvInvariant, PTL DEF Spec
=============================================================================
