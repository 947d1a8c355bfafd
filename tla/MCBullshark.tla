---------------------------- MODULE MCBullshark ----------------------------
(* Model-checking instance of Bullshark: one node that receives every DAG of *)
(* a family of DAGs in every causal order.                                   *)
EXTENDS Bullshark, TLC

CONSTANTS a1, a2, a3, a4,   \* the authorities
          Scenarios         \* of those below

MCOrder == <<a1, a2, a3, a4>>

\* base: up to this round the DAG is fixed and already received; top: its last
\* round; few: of the sets of supporters only a few of each size.
Scenario(n) ==
    CASE n = "start"    -> [name |-> n, base |-> 0, top |-> 5, few |-> FALSE, prune |-> FALSE, restart |-> FALSE]
      [] n = "crash"    -> [name |-> n, base |-> 0, top |-> 5, few |-> TRUE,  prune |-> TRUE,  restart |-> TRUE]
      [] n = "schedule" -> [name |-> n, base |-> 6, top |-> 9, few |-> TRUE,  prune |-> FALSE, restart |-> TRUE]
      [] n = "scores"   -> [name |-> n, base |-> 3, top |-> 3, few |-> TRUE,  prune |-> FALSE, restart |-> FALSE]

VARIABLES scenario,
          canon,  \* what a node that has the whole DAG commits
          anc     \* the causal history of every certificate

mcVars == <<vars, scenario, canon, anc>>

V(a, r) == [author |-> a, round |-> r]
RoundCerts(r) == {V(a, r) : a \in Authority}
OddRounds(sc) == {r \in sc.base + 1 .. sc.top : r % 2 = 1 /\ r >= 3}
EvenRounds(sc) == {r \in sc.base + 1 .. sc.top : r % 2 = 0 /\ r >= 4}

\* names[r]: who names the leader of the even round before r; omits[r]: whom
\* the leader of round r, or everybody in it, leaves out of the parents.
Omissions == [who : Authority, by : {"leader", "all"}] \cup {[who |-> "nobody", by |-> "all"]}

Namers(sc) ==
    IF sc.few THEN {{}, {a4}, {a1, a4}, {a1, a2, a3}} ELSE SUBSET Authority

Parents(names, omits, c) ==
    LET r      == c.round
        namers == IF r \in DOMAIN names THEN names[r] ELSE {a1, a2, a3}
    IN {p \in RoundCerts(r - 1) :
          /\ r > 1
          /\ r % 2 = 1 /\ p.author = RoundRobin(r - 1) => c.author \in namers
          /\ r \in DOMAIN omits /\ (c.author = RoundRobin(r) \/ omits[r].by = "all")
                => p.author # omits[r].who}

\* What a node commits that is handed the DAG up to round top round by round.
CommitInOrder(top) ==
    LET s0 == [InitState EXCEPT !.dag = {c \in certs : c.round <= top}]
        run[r \in 0..top] ==
          LET s == run[r - 1] IN
          IF r < 2 THEN s0
          ELSE IF r % 2 = 1 \/ r >= top \/ r <= s.committedRound THEN s
          ELSE CommitLeader(s, r)
    IN run[top]

\* In "scores" the last sub-dag ends a schedule with any scores.
Started(sc) ==
    LET s == CommitInOrder(sc.base) IN
    IF sc.name # "scores" THEN {s}
    ELSE {[s EXCEPT !.out[1].scores = x, !.out[1].final = TRUE, !.table = SwapTable(x)] :
             x \in [Authority -> 0..PerSchedule]}

MCInit == \E n \in Scenarios : LET sc == Scenario(n) IN
    /\ scenario = sc
    /\ certs = UNION {RoundCerts(r) : r \in 1..sc.top}
    /\ \E names \in [OddRounds(sc) -> Namers(sc)], omits \in [EvenRounds(sc) -> Omissions] :
          par = [c \in certs |-> Parents(names, omits, c)]
    /\ accepted = {c \in certs : c.round <= sc.base}
    /\ st \in Started(sc)
    /\ saved = 0
    /\ highest = sc.base
    /\ active = TRUE
    /\ canon = IF sc.name = "scores" THEN st.out ELSE CommitInOrder(sc.top).out
    /\ LET below[r \in 0..sc.top] ==
             LET b == below[r - 1] IN
             IF r = 0 THEN <<>>
             ELSE b @@ [c \in RoundCerts(r) |->
                          par[c] \cup UNION {b[p] : p \in par[c]}]
       IN anc = below[sc.top]

Next ==
    /\ \/ \E c \in certs \ accepted : ProcessCertificate(c)
       \/ scenario.prune /\ ProactiveGc
       \/ scenario.restart /\ SaveSubDag
       \/ scenario.restart /\ Restart
    /\ UNCHANGED <<scenario, canon, anc>>

Spec == MCInit /\ [][Next]_mcVars

\* The node commits the same sub-dags, with the same content and reputation, as
\* a node that has received the whole DAG: whatever the orders in which two
\* nodes receive it, and whenever they restart, one commits a prefix of what
\* the other commits ("every node commits the same sub-dags").
SameSubDags == /\ Len(st.out) <= Len(canon)
               /\ st.out = SubSeq(canon, 1, Len(st.out))

\* Agreement while the periodic pruning of proactive_gc has not run: order_dag
\* and order_leaders give every node the same sub-dags, also after a restart.
Agreement == scenario.prune \/ SameSubDags

\* No certificate is committed twice, also across restarts and prunings
\* (CommitOnce), and while proactive_gc has not run committing is causal
\* (CausalCommit): order_dag skips exactly what its authors have committed.
CausalOnce == CommitOnce /\ (scenario.prune \/ CausalCommit)

\* No supported leader is left behind by process_certificate, without restarts.
NothingLeft == scenario.restart \/ NoSupportedLeft

\* In the table made from the scores that ended the last schedule a bad leader
\* has somebody to be swapped with, who is not bad and scored more than every
\* bad one: the assert in LeaderSwapTable::new and the expect in swap hold.
SwapsBadForBetter ==
    LET scores == Last(SelectSeq(st.out, LAMBDA d : d.final)).scores IN
    st.table.bad # {} => /\ st.table.good # <<>>
                         /\ \A g \in ToSet(st.table.good), b \in st.table.bad :
                               scores[g] > scores[b]

-----------------------------------------------------------------------------
(* The sub-dags as entries of CommitOrder.                                  *)

Body(d) == [certs |-> d.certs, scores |-> d.scores, final |-> d.final]
FromEntry(e) == [leader |-> e.leader, certs |-> e.body.certs,
                 scores |-> e.body.scores, final |-> e.body.final]
Entries(out) == [i \in DOMAIN out |-> [leader |-> out[i].leader, body |-> Body(out[i])]]
FromEntries(p) == [i \in DOMAIN p |-> FromEntry(p[i])]

\* The leader of a round follows from the last sub-dag that ended a schedule.
ScheduledLeader(p, r) == Leader(TableOf(FromEntries(p)), r)

\* What belongs to the leader l after p, from its history h as a whole: all of
\* it above the gc round that its authors have not yet committed past, and the
\* reputation of those who named the leader before.
SpecifiedBody(p, l, h) ==
    LET out  == FromEntries(p)
        lc   == LastCommittedOf(out)
        cs   == {c \in DOMAIN h : c.round > gc_round(l.round) /\ c.round > lc[c.author]}
        last == Last(out)
        base == IF p = <<>> \/ (l.round \div 2) % PerSchedule = 0 THEN NoScores ELSE last.scores
        for  == IF p = <<>> THEN {}
                ELSE {c.author : c \in {x \in cs : x.round = last.leader.round + 1 /\ last.leader \in h[x]}}
    IN [certs |-> cs, scores |-> AddScores(base, for), final |-> FinalOfSchedule(l.round)]

O == INSTANCE CommitOrder WITH
        Round <- {}, Digest <- {}, Genesis <- "genesis", Node <- {"node"},
        committed <- [n \in {"node"} |-> Entries(st.out)],
        LeaderOf <- ScheduledLeader, BodyOf <- SpecifiedBody

\* Every sub-dag the node commits, computed from the part of the DAG it has
\* received, is the one the whole DAG calls for at that place: the premise
\* under which all nodes agree (CommitOrder).
Justified == scenario.name # "schedule" \/ O!Justified
=============================================================================
