------------------------------ MODULE Bullshark ------------------------------
(***************************************************************************)
(* The commit rule of one node (consensus/bullshark.rs) over its local     *)
(* copy of the DAG (consensus/state.rs, consensus/utils.rs), with garbage  *)
(* collection, the leader schedule, and recovery from the stores.          *)
(*                                                                         *)
(* certs and par are the certificates that exist in the epoch; the node    *)
(* is handed them one at a time, parents first, in any such order.  The    *)
(* order inside a sub-dag is by round and digest, a function of the set,   *)
(* so a sub-dag is a set here.  Rounds count from the start of the epoch.  *)
(***************************************************************************)
EXTENDS LeaderSchedule

CONSTANTS GcDepth,     \* rounds kept below the last committed one
          PerSchedule  \* num_sub_dags_per_schedule

ASSUME DepthAssumption == GcDepth \in Nat \ {0} /\ PerSchedule \in Nat \ {0}

VARIABLES certs, par,  \* the DAG of the epoch: vertices and their parents
          accepted,    \* certificates in this node's certificate store
          st,          \* ConsensusState, with the sub-dags committed so far
          saved,       \* how many of those the subscriber has stored
          highest,     \* highest_seen_round
          active       \* the consensus task runs (no demotion to CvvInactive)

vars == <<certs, par, accepted, st, saved, highest, active>>

InitState == [dag |-> {}, lastCommitted |-> [a \in Authority |-> 0],
              committedRound |-> 0, out |-> <<>>, table |-> NoTable]

gc_round(r) == SatSub(r, GcDepth)
GcRound(s) == gc_round(s.committedRound)
InDag(s, r) == {c \in s.dag : c.round = r}

-----------------------------------------------------------------------------
(* The commit rule.                                                         *)

\* leader_certificate: the leader's certificate of round r, if it is here.
LeaderCert(s, r) == {c \in InDag(s, r) : c.author = Leader(s.table, r)}

\* Mutant: one supporter is enough.
SupportedByOne(s, l) == \E c \in InDag(s, l.round + 1) : l \in par[c]

Supported(s, l) ==
    ReachedValidity({c.author : c \in {x \in InDag(s, l.round + 1) : l \in par[x]}})

\* Is there a path from l down to k in the local DAG?
Linked(s, l, k) ==
    LET reached[r \in k.round..l.round] ==
          IF r = l.round THEN {l} ELSE s.dag \cap UNION {par[x] : x \in reached[r + 1]}
    IN k \in reached[k.round]

PastLeaders(s, l) ==
    UNION {LeaderCert(s, r) : r \in {x \in s.committedRound + 2 .. l.round - 2 : x % 2 = 0}}

\* The uncommitted leaders to commit with l, oldest first: from each one, the
\* next is the latest earlier leader it is linked to.
OrderLeaders(s, l) ==
    LET past == PastLeaders(s, l)
        chain[x \in past \cup {l}] ==
          LET prev == {y \in past : y.round < x.round /\ Linked(s, x, y)} IN
          IF prev = {} THEN <<x>>
          ELSE Append(chain[CHOOSE y \in prev : \A z \in prev : z.round <= y.round], x)
    IN chain[l]

\* Mutant: the walk stops one round too early.
OrderDagShort(s, l) ==
    LET ordered[r \in gc_round(l.round) + 2 .. l.round] ==
          IF r = l.round THEN {l}
          ELSE {c \in s.dag \cap UNION {par[x] : x \in ordered[r + 1]} :
                  c.round > s.lastCommitted[c.author]}
    IN UNION {ordered[r] : r \in DOMAIN ordered}

\* The history of l that is not yet committed, down to the gc round.
OrderDag(s, l) ==
    LET ordered[r \in gc_round(l.round) + 1 .. l.round] ==
          IF r = l.round THEN {l}
          ELSE {c \in s.dag \cap UNION {par[x] : x \in ordered[r + 1]} :
                  c.round > s.lastCommitted[c.author]}
    IN UNION {ordered[r] : r \in DOMAIN ordered}

ResolveScores(s, l, ordered) ==
    LET last == Last(s.out)
        base == IF s.out = <<>> \/ (l.round \div 2) % PerSchedule = 0
                THEN NoScores ELSE last.scores
    IN IF s.out = <<>> THEN base
       ELSE AddScores(base, {c.author : c \in {x \in ordered : /\ x.round = last.leader.round + 1
                                                               /\ last.leader \in par[x]}})

FinalOfSchedule(r) == (r \div 2 + 1) % PerSchedule = 0

\* ConsensusState::update for every certificate of the sub-dag.
Update(s, ordered) ==
    LET lc == [a \in Authority |->
                 Max({s.lastCommitted[a]} \cup {c.round : c \in {x \in ordered : x.author = a}})]
        cr == Max({s.committedRound} \cup {c.round : c \in ordered})
    IN [s EXCEPT !.lastCommitted = lc, !.committedRound = cr,
                 !.dag = {c \in s.dag : c.round > gc_round(cr)}]

CommitSubDag(s, l) ==
    LET ordered == OrderDag(s, l)
        scores  == ResolveScores(s, l, ordered)
        final   == FinalOfSchedule(l.round)
    IN [Update(s, ordered) EXCEPT
          !.out = Append(s.out, [leader |-> l, certs |-> ordered, scores |-> scores, final |-> final]),
          !.table = IF final THEN SwapTable(scores) ELSE s.table]

RECURSIVE CommitLeader(_, _), CommitChain(_, _, _)

\* Mutant: the leaders found under the old schedule are all committed.
CommitChainOldSchedule(s, chain, r) ==
    IF chain = <<>> THEN s ELSE CommitChain(CommitSubDag(s, Head(chain)), Tail(chain), r)

\* After a change of schedule the election of round r is repeated.
CommitChain(s, chain, r) ==
    LET t == CommitSubDag(s, Head(chain)) IN
    IF Len(chain) = 1 THEN t
    ELSE IF FinalOfSchedule(Head(chain).round) THEN CommitLeader(t, r)
    ELSE CommitChain(t, Tail(chain), r)

CommitLeader(s, r) ==
    IF \E l \in LeaderCert(s, r) : Supported(s, l)
    THEN CommitChain(s, OrderLeaders(s, CHOOSE l \in LeaderCert(s, r) : TRUE), r)
    ELSE s

-----------------------------------------------------------------------------
(* The consensus task.                                                      *)

\* check_parents
MissingParent(s, c) == c.round > GcRound(s) + 1 /\ ~(par[c] \subseteq s.dag)

\* The certificate manager hands over a certificate once its parents are in
\* the store or too old to be asked for.
CausallyComplete(c) ==
    \A p \in par[c] : p \in accepted \/ p.round <= GcRound(st)

\* Mutant: only a certificate of the round after the last leader elects.
ElectNewest(s, c) ==
    IF c.round < highest \/ c.round % 2 = 0 \/ c.round < 3 \/ c.round - 1 <= s.committedRound
    THEN s ELSE CommitLeader(s, c.round - 1)

\* process_certificate once the certificate is in the DAG.
Elect(s, c) ==
    LET r == c.round - 1 IN
    IF c.round <= s.lastCommitted[c.author] \/ r % 2 = 1 \/ r < 2 \/ r <= s.committedRound
    THEN s ELSE CommitLeader(s, r)

ProcessCertificate(c) ==
    /\ active
    /\ CausallyComplete(c)
    /\ accepted' = accepted \cup {c}
    /\ highest' = IF c.round > highest THEN c.round ELSE highest
    /\ \/ c.round <= GcRound(st) /\ UNCHANGED <<st, active>>
       \/ /\ c.round > GcRound(st) /\ MissingParent(st, c)
          /\ active' = FALSE
          /\ UNCHANGED st
       \/ /\ c.round > GcRound(st) /\ ~MissingParent(st, c)
          /\ st' = Elect([st EXCEPT !.dag = @ \cup {c}], c)
          /\ UNCHANGED active
    /\ UNCHANGED <<certs, par, saved>>

\* The 30 second tick: prune below the highest round seen.
ProactiveGc ==
    /\ active
    /\ gc_round(highest) > GcRound(st)
    /\ st' = [st EXCEPT !.dag = {c \in st.dag : c.round > gc_round(highest)}]
    /\ UNCHANGED <<certs, par, accepted, saved, highest, active>>

\* The subscriber stores the next committed sub-dag.
SaveSubDag ==
    /\ saved < Len(st.out)
    /\ saved' = saved + 1
    /\ UNCHANGED <<certs, par, accepted, st, highest, active>>

-----------------------------------------------------------------------------
(* Recovery: Consensus::spawn, ConsensusState::new_from_store,              *)
(* LeaderSchedule::from_store.                                              *)

LastCommittedOf(out) ==
    [a \in Authority |-> Max({0} \cup {c.round : c \in
        {x \in UNION {out[i].certs : i \in DOMAIN out} : x.author = a}})]

\* Mutant: recovery forgets the schedule in force.
TableOfDefault(out) == NoTable

TableOf(out) ==
    LET finals == {i \in DOMAIN out : out[i].final} IN
    IF finals = {} THEN NoTable ELSE SwapTable(out[Max(finals)].scores)

\* Rounds ascending; a certificate whose parents are not there is left out.
ReconstructDag(stored, gc) ==
    LET top == Max({gc} \cup {c.round : c \in stored})
        dag[r \in gc..top] ==
          LET below == dag[r - 1] IN
          IF r = gc THEN {}
          ELSE below \cup {c \in stored : c.round = r /\ (r > gc + 1 => par[c] \subseteq below)}
    IN dag[top]

Recover(out) ==
    LET lc == LastCommittedOf(out)
        cr == Max({lc[a] : a \in Authority})
    IN [dag |-> ReconstructDag(accepted, gc_round(cr)), lastCommitted |-> lc,
        committedRound |-> cr, out |-> out, table |-> TableOf(out)]

Restart ==
    /\ st' = Recover(SubSeq(st.out, 1, saved))
    /\ highest' = 0
    /\ active' = TRUE
    /\ UNCHANGED <<certs, par, accepted, saved>>

-----------------------------------------------------------------------------
(* Properties of what the node commits.                                     *)


\* No certificate is committed twice, in one sub-dag or in two, also when the
\* node restarted in between: its batches are executed once.
CommitOnce ==
    \A i, j \in DOMAIN st.out : i # j => st.out[i].certs \cap st.out[j].certs = {}

\* Committing is causal: a parent of a committed certificate is committed no
\* later than it, unless it fell below the gc round of that leader or its
\* author had already committed a certificate of that round or a later one.
CausalCommit ==
    \A i \in DOMAIN st.out : \A c \in st.out[i].certs : \A p \in par[c] :
        \/ \E j \in 1..i : p \in st.out[j].certs
        \/ p.round <= gc_round(st.out[i].leader.round)
        \/ \E j \in 1..i - 1 : \E q \in st.out[j].certs : q.author = p.author /\ q.round >= p.round

\* Without a restart or a change of schedule, no leader with enough support is
\* ever left uncommitted: each supporter that arrives repeats the election.
NoSupportedLeft ==
    \A l \in st.dag : l.round % 2 = 0 /\ l.round > st.committedRound /\ l \in LeaderCert(st, l.round)
        => ~Supported(st, l)
=============================================================================
