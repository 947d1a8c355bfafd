----------------------------- MODULE CertManager -----------------------------
(***************************************************************************)
(* The certificate manager of one node (primary/src/state_sync): it keeps  *)
(* certificates whose parents are missing suspended, stores and forwards   *)
(* the others parents first, follows the garbage collection of consensus,  *)
(* and feeds the proposer with quorums of parents.                         *)
(*                                                                         *)
(* It runs beside three tasks that share its state: consensus, which takes *)
(* what it forwards and publishes the rounds it commits; the subscriber,   *)
(* which writes certificates into the same store while the node catches    *)
(* up; and the validator and fetcher, which hand it certificates.  The DAG *)
(* is given: Cert are its certificates, Par their parents.                 *)
(***************************************************************************)
EXTENDS Committee, Sequences, FiniteSetsExt, Functions

CONSTANTS Cert,         \* the certificates of the epoch, as [author, round]
          Par,          \* their parents (genesis left out)
          GcDepth,      \* rounds kept below the last committed one
          CommitRound,  \* rounds whose leader may be committed
          MaxFaults     \* crashes, and certificates delivered a second time

ASSUME DagAssumption ==
    /\ Cert \subseteq [author : Authority, round : Nat \ {0}]
    /\ Par \in [Cert -> SUBSET Cert]
    /\ \A c \in Cert : \A p \in Par[c] : p.round + 1 = c.round

ASSUME BoundAssumption ==
    /\ GcDepth \in Nat \ {0} /\ MaxFaults \in Nat
    /\ CommitRound \subseteq Nat

VARIABLES stored,     \* the certificate store
          pending,    \* suspended certificates and the parents they miss
          waiting,    \* missing_for_pending: missing parents and who misses them
          gc,         \* the AtomicRound the manager reads
          phase,      \* "idle", or "gc" between the wake-up and process_gc_round
          mode,       \* "active" (CvvActive) or "inactive"
          chan,       \* new_certificates: forwarded, not yet taken by consensus
          dag,        \* the DAG of consensus
          rounds,     \* the commit round: known to its author, and published
          changed,    \* gc_round_updates has a value the manager has not seen
          agg,        \* the certificates in the aggregators
          fed,        \* the parents sent to the proposer
          floor,      \* the highest round below which parents were given up
          orphans,    \* stored certificates that recovery left out of the DAG
          faults      \* crashes and duplicates so far

managerVars == <<stored, pending, waiting, gc, phase>>
consensusVars == <<mode, chan, dag, rounds, changed, orphans>>
vars == <<stored, pending, waiting, gc, phase, mode, chan, dag, rounds, changed,
          agg, fed, floor, orphans, faults>>

Larger(i, j) == IF i >= j THEN i ELSE j
gc_round(r) == IF r <= GcDepth THEN 0 ELSE r - GcDepth
AtRound(S, r) == {c \in S : c.round = r}
Authors(S) == {c.author : c \in S}
TopRound(S) == Max({0} \cup {c.round : c \in S})

\* The members of S in some order.
Listing(S) == CHOOSE s \in [1..Cardinality(S) -> S] : IsInjective(s)

\* A sequence of S by round: parents come before their children.
ByRound(S) ==
    LET upTo[r \in Nat] ==
          IF r = 0 THEN <<>> ELSE upTo[r - 1] \o Listing(AtRound(S, r))
    IN upTo[TopRound(S)]

-----------------------------------------------------------------------------
(* Aggregators: parents for the proposer.                                   *)

\* append_certificate: old aggregators go, an author counts once in a round,
\* and from the quorum on everything is sent.
AppendCertificate(a, c) ==
    LET kept == {d \in a.agg : d.round > c.round - GcDepth}
        next == IF c.author \in Authors(AtRound(kept, c.round)) THEN kept ELSE kept \cup {c}
    IN IF next # kept /\ ReachedQuorum(Authors(AtRound(next, c.round)))
       THEN [agg |-> next, fed |-> a.fed \cup AtRound(next, c.round)]
       ELSE [agg |-> next, fed |-> a.fed]

AppendAll(a, s) ==
    LET upTo[n \in Nat] == IF n = 0 THEN a ELSE AppendCertificate(upTo[n - 1], s[n])
    IN upTo[Len(s)]

-----------------------------------------------------------------------------
(* Suspended certificates.                                                  *)

Keys == DOMAIN waiting

\* W has every certificate that misses only parents in W or in gone.
Unlocks(gone, W) ==
    \A c \in DOMAIN pending :
        /\ \E x \in Keys \cap (gone \cup W) : c \in waiting[x]
        /\ \A x \in pending[c] : x \in Keys \cap (gone \cup W) /\ c \in waiting[x]
        => c \in W

\* Mutant: a certificate is ready when one of its parents arrives.
ReadyAny(gone) == UNION {waiting[x] : x \in Keys \cap gone}

\* update_pending for every parent in gone: what becomes ready, in cascade.
Ready(gone) ==
    {c \in DOMAIN pending : \A W \in SUBSET DOMAIN pending : Unlocks(gone, W) => c \in W}

\* Mutant: the parent that arrived stays among the missing ones.
RemovePendingKeepsMissing(gone, ready) ==
    /\ pending' = [c \in DOMAIN pending \ ready |-> pending[c]]
    /\ waiting' = [x \in Keys \ (gone \cup ready) |-> waiting[x]]

\* What update_pending leaves behind.
RemovePending(gone, ready) ==
    /\ pending' = [c \in DOMAIN pending \ ready |->
                      {x \in pending[c] : ~(x \in Keys \cap (gone \cup ready) /\ c \in waiting[x])}]
    /\ waiting' = [x \in Keys \ (gone \cup ready) |-> waiting[x]]

InsertPending(c, missing) ==
    /\ pending' = [x \in DOMAIN pending \cup {c} |-> IF x = c THEN missing ELSE pending[x]]
    /\ waiting' = [x \in Keys \cup missing |->
                      (IF x \in Keys THEN waiting[x] ELSE {}) \cup (IF x \in missing THEN {c} ELSE {})]

\* accept_verified_certificates: store, aggregate, forward.  Without Bullshark
\* the forwarded certificates are thrown away.  s is the order of S.
Accept(S, s, a) ==
    LET b == AppendAll(a, s) IN
    /\ stored' = stored \cup S
    /\ agg' = b.agg /\ fed' = b.fed
    /\ chan' = IF mode = "active" THEN chan \o s ELSE chan

-----------------------------------------------------------------------------
(* The manager's loop.                                                      *)

\* Mutant: the children go out before the certificate that unlocked them.
AcceptedChildrenFirst(c) == Append(ByRound(Ready({c})), c)

AcceptedWith(c) == <<c>> \o ByRound(Ready({c}))

\* process_certificate of the validator: what is in the store is dropped, but
\* that look at the store may be old when the manager acts.  Certificates below
\* the gc round are dropped only when they are not the node's own.
PassesValidator(c) == c \in stored => faults < MaxFaults

\* process_verified_certificates, for one certificate.
ProcessVerified(c) ==
    /\ phase = "idle" /\ PassesValidator(c)
    /\ faults' = IF c \in stored THEN faults + 1 ELSE faults
    /\ \/ /\ c \in DOMAIN pending
          /\ UNCHANGED <<stored, pending, waiting, chan, agg, fed>>
       \/ /\ c \notin DOMAIN pending
          /\ c.round > gc + 1 /\ ~(Par[c] \subseteq stored)
          /\ InsertPending(c, Par[c] \ stored)
          /\ UNCHANGED <<stored, chan, agg, fed>>
       \/ /\ c \notin DOMAIN pending
          /\ c.round <= gc + 1 \/ Par[c] \subseteq stored
          /\ RemovePending({c}, Ready({c}))
          /\ Accept({c} \cup Ready({c}), AcceptedWith(c), [agg |-> agg, fed |-> fed])
    /\ UNCHANGED <<gc, phase, mode, dag, rounds, changed, floor, orphans>>

\* The garbage collector wakes up and stores the new gc round.
GcReady ==
    /\ phase = "idle" /\ changed
    /\ gc' = gc_round(rounds.own)
    /\ changed' = FALSE
    /\ phase' = "gc"
    /\ UNCHANGED <<stored, pending, waiting, mode, chan, dag, rounds, agg, fed, floor, orphans, faults>>

CatchingUp == mode # "active" \/ rounds.published - gc > GcDepth
EffectiveGc == IF CatchingUp THEN Larger(gc, rounds.published) ELSE gc
Expired(r) == {x \in Keys : x.round <= r}

\* Mutant: only the aggregators are cleaned up.
ProcessGcRoundParents ==
    /\ phase = "gc"
    /\ agg' = {c \in agg : c.round > gc}
    /\ floor' = Larger(floor, EffectiveGc)
    /\ phase' = "idle"
    /\ UNCHANGED <<stored, pending, waiting, gc, mode, chan, dag, rounds, changed, fed, orphans, faults>>

\* process_gc_round: the parents that are too old are no longer waited for.
ProcessGcRound ==
    /\ phase = "gc"
    /\ LET gone == Expired(EffectiveGc) IN
         /\ RemovePending(gone, Ready(gone))
         /\ Accept(Ready(gone), ByRound(Ready(gone)), [agg |-> {c \in agg : c.round > gc}, fed |-> fed])
    /\ floor' = Larger(floor, EffectiveGc)
    /\ phase' = "idle"
    /\ UNCHANGED <<gc, mode, dag, rounds, changed, orphans, faults>>

-----------------------------------------------------------------------------
(* Start of an epoch's tasks, after a crash or an orderly shutdown.         *)

\* Mutant: only the last round is fed to the proposer.
LastTwoRoundsOne(S) == Listing(AtRound(S, TopRound(S)))

\* last_two_rounds_certs, highest round first.
LastTwoRounds(S) == Listing(AtRound(S, TopRound(S))) \o Listing(AtRound(S, TopRound(S) - 1))

\* construct_dag_from_cert_store: a certificate without its parents is skipped.
ConstructDag(S, g) ==
    LET upTo[r \in g..Larger(g, TopRound(S))] ==
          IF r = g THEN {}
          ELSE upTo[r - 1] \cup {c \in AtRound(S, r) : r > g + 1 => Par[c] \subseteq upTo[r - 1]}
    IN upTo[Larger(g, TopRound(S))]

\* The tasks start in mode m with the store S and the last commit r, after
\* parents up to the round given were given up.
StartTasks(m, S, r, given) ==
    LET a == AppendAll([agg |-> {}, fed |-> {}], LastTwoRounds(S))
        d == IF m = "active" THEN ConstructDag(S, gc_round(r)) ELSE {}
    IN /\ stored' = S
       /\ pending' = <<>> /\ waiting' = <<>>
       /\ gc' = gc_round(r) /\ phase' = "idle"
       /\ mode' = m /\ chan' = <<>> /\ dag' = d
       /\ rounds' = [own |-> r, published |-> r] /\ changed' = FALSE
       /\ agg' = a.agg /\ fed' = a.fed
       /\ floor' = Larger(Larger(floor, given), gc_round(r))
       /\ orphans' = IF m = "active" THEN {c \in S \ d : c.round > gc_round(r)} ELSE {}

\* drain_pending: the last acceptances of a manager that is told to stop.
DrainPending == Ready(Expired(Larger(gc, rounds.published)))

\* An orderly stop and a new start in mode m.
StopAndStart(m) ==
    StartTasks(m, stored \cup DrainPending, rounds.own, Larger(gc, rounds.published))

\* Bound: a crash loses at most one certificate.
Losses == {{}} \cup {{c} : c \in stored}

\* The process dies.  The store writes behind, in order, and certificates are
\* written parents first: what is lost has no child in the store.  The last
\* commits are lost too if their sub-dags were not written or executed yet.
Crash(m, lost, r) ==
    /\ faults < MaxFaults
    /\ \A c \in stored \ lost : Par[c] \cap lost = {}
    /\ r <= rounds.own
    /\ StartTasks(m, stored \ lost, r, 0)
    /\ faults' = faults + 1

-----------------------------------------------------------------------------
(* Consensus and the subscriber.                                            *)

MissingParent(c) == c.round > gc_round(rounds.own) + 1 /\ ~(Par[c] \subseteq dag)

\* The round is published in two stores, the gc round first.
Publishing == rounds.own # rounds.published

Commit(r) ==
    /\ rounds' = [rounds EXCEPT !.own = r]
    /\ changed' = TRUE

\* new_certificate: insert, and perhaps commit a leader below.
TakeCertificate ==
    /\ mode = "active" /\ chan # <<>> /\ ~Publishing /\ ~MissingParent(Head(chan))
    /\ chan' = Tail(chan)
    /\ LET c == Head(chan)
           d == IF c.round > gc_round(rounds.own) THEN dag \cup {c} ELSE dag
       IN \/ dag' = d /\ UNCHANGED <<rounds, changed>>
          \/ \E l \in d : /\ l.round \in CommitRound /\ rounds.own < l.round /\ l.round < c.round
                          /\ Commit(l.round)
                          /\ dag' = {x \in d : x.round > gc_round(l.round)}
    /\ UNCHANGED <<managerVars, mode, orphans, agg, fed, floor, faults>>

\* new_certificate finds a parent missing: the node stops and becomes inactive.
Demote ==
    /\ mode = "active" /\ phase = "idle"
    /\ chan # <<>> /\ ~Publishing /\ MissingParent(Head(chan))
    /\ StopAndStart("inactive")
    /\ UNCHANGED faults

\* commit_catchup_output: a committed sub-dag from a peer; its certificates go
\* straight into the store.
Follow(l) ==
    /\ mode = "inactive" /\ ~Publishing
    /\ l.round \in CommitRound /\ rounds.own < l.round
    /\ stored' = stored \cup {c \in Cert : c.round < l.round} \cup {l}
    /\ Commit(l.round)
    /\ floor' = Larger(floor, l.round)
    /\ UNCHANGED <<pending, waiting, gc, phase, mode, chan, dag, agg, fed, orphans, faults>>

\* The second half of update_consensus_rounds.
Publish ==
    /\ Publishing
    /\ rounds' = [rounds EXCEPT !.published = rounds.own]
    /\ UNCHANGED <<managerVars, mode, chan, dag, changed, agg, fed, floor, orphans, faults>>

\* The node has caught up and becomes active again.
Rejoin ==
    /\ mode = "inactive" /\ phase = "idle" /\ ~Publishing
    /\ StopAndStart("active")
    /\ UNCHANGED faults

Init ==
    /\ stored = {} /\ pending = <<>> /\ waiting = <<>>
    /\ gc = 0 /\ phase = "idle" /\ mode \in {"active", "inactive"}
    /\ chan = <<>> /\ dag = {} /\ rounds = [own |-> 0, published |-> 0] /\ changed = FALSE
    /\ agg = {} /\ fed = {} /\ floor = 0 /\ orphans = {}
    /\ faults = 0

Next ==
    \/ \E c \in Cert : ProcessVerified(c) \/ Follow(c)
    \/ GcReady \/ ProcessGcRound
    \/ TakeCertificate \/ Demote \/ Publish \/ Rejoin
    \/ \E m \in {"active", "inactive"}, lost \in Losses, r \in CommitRound \cup {0} :
          Crash(m, lost, r)

Spec == Init /\ [][Next]_vars

\* Each of these actions falsifies the guard named here, so a guard that is not
\* true for ever is weak fairness.  The fetcher asks peers again and again for
\* what is not in the store; the tasks run; a node that follows rejoins.
Deliverable(c) == phase = "idle" /\ c.round > gc /\ c \notin stored \cup DOMAIN pending

Fairness ==
    /\ \A c \in Cert : []<>~Deliverable(c)
    /\ []<>~(phase = "idle" /\ changed)
    /\ []<>(phase = "idle")
    /\ []<>~Publishing
    /\ []<>~(mode = "active" /\ phase = "idle" /\ chan # <<>> /\ ~Publishing /\ MissingParent(Head(chan)))
    /\ []<>~(mode = "inactive" /\ phase = "idle" /\ ~Publishing)

FairSpec == Spec /\ Fairness

-----------------------------------------------------------------------------
TypeOK ==
    /\ stored \subseteq Cert
    /\ DOMAIN pending \subseteq Cert /\ \A c \in DOMAIN pending : pending[c] \subseteq Par[c]
    /\ Keys \subseteq Cert /\ \A x \in Keys : waiting[x] \subseteq Cert
    /\ gc \in Nat /\ gc <= gc_round(rounds.own)
    /\ phase \in {"idle", "gc"}
    /\ rounds.own \in Nat /\ rounds.published \in Nat /\ rounds.published <= rounds.own
    /\ dag \subseteq stored /\ Range(chan) \subseteq stored
    /\ floor \in Nat

\* The two maps of PendingCertificateManager mirror each other and no entry is
\* empty: update_pending always finds the certificates it is told about (it
\* never returns PendingCertificateNotFound), no certificate is suspended for
\* nothing, and next_for_gc_round never meets a suspended certificate as its
\* first key.
Mirrored ==
    /\ \A c \in DOMAIN pending : pending[c] # {} /\ \A x \in pending[c] : x \in Keys /\ c \in waiting[x]
    /\ \A x \in Keys : waiting[x] # {} /\ \A c \in waiting[x] : c \in DOMAIN pending /\ x \in pending[c]

\* The store is causally complete above the rounds that were given up: a
\* stored certificate has its parents in the store, unless they are at or below
\* a round that the garbage collection, a shutdown or a followed commit passed.
CausalStore ==
    \A c \in stored : \A p \in Par[c] : p \in stored \/ p.round <= floor

\* No lost wake-up: a suspended certificate waits for a parent that is in the
\* store only when the subscriber wrote it, and then that parent is at or below
\* the commit round, where the next process_gc_round finds it.
NoLostWakeup ==
    \A c \in DOMAIN pending : \A p \in pending[c] :
        p \in stored => mode = "inactive" /\ p.round <= rounds.own

\* Consensus never misses a parent unless the store had a hole: with nothing
\* left out at recovery and nothing accepted early, certificates reach it
\* parents first and the node is not demoted.
DemotedOnlyForHoles ==
    mode = "active" /\ chan # <<>> /\ MissingParent(Head(chan)) =>
        orphans # {} \/ floor > gc_round(rounds.own)

\* The proposer gets what it needs to go on: of the last two rounds in the
\* store of an active node, all certificates of a round that has a quorum were sent to
\* it, across restarts and garbage collection.
ProposerFed ==
    LET top == TopRound(stored) IN
    \A r \in {top - 1, top} :
        mode = "active" /\ ReachedQuorum(Authors(AtRound(stored, r))) => AtRound(stored, r) \subseteq fed

\* No certificate of the epoch stays out of the store for ever, suspended or
\* not, unless it falls behind the garbage collection.
AllStored == \A c \in Cert : <>(c \in stored \/ c.round <= gc)
=============================================================================
