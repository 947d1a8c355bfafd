--------------------------- MODULE LeaderSchedule ---------------------------
(***************************************************************************)
(* The leader of a round (consensus/leader_schedule.rs) and the reputation *)
(* it is chosen by (types/src/primary/reputation.rs).  Leaders rotate in   *)
(* the order of the committee; at the end of a schedule a swap table is    *)
(* made from the reputation scores, and an authority among its bad nodes   *)
(* is replaced by one of its good nodes.                                   *)
(***************************************************************************)
EXTENDS Committee, SequencesExt

CONSTANTS Order,        \* committee.authorities(): every authority once
          BadPercent    \* bad_nodes_percent_threshold

ASSUME OrderAssumption == Order \in [1..N -> Authority] /\ \A i, j \in 1..N : Order[i] = Order[j] => i = j
ASSUME BadPercentAssumption == BadPercent \in 0..33

Scores == [Authority -> Nat]
NoScores == [a \in Authority |-> 0]

AddScores(scores, S) == [a \in Authority |-> IF a \in S THEN scores[a] + 1 ELSE scores[a]]

\* The position of an authority stands for its identifier in the tie break.
Position(a) == CHOOSE i \in 1..N : Order[i] = a

\* authorities_by_score_desc: by score, then by identifier, both descending.
ByScoreDesc(scores, S) ==
    SetToSortSeq(S, LAMBDA a, b : \/ scores[a] > scores[b]
                                  \/ scores[a] = scores[b] /\ Position(a) > Position(b))

SatSub(x, y) == IF x >= y THEN x - y ELSE 0
Larger(x, y) == IF x >= y THEN x ELSE y

-----------------------------------------------------------------------------
(* LeaderSwapTable::new *)

Square(x) == x * x
Sum(f) == MapThenSumSet(LAMBDA a : f[a], Authority)

Highest(scores) == Max({scores[a] : a \in Authority})
Lowest(scores) == Min({scores[a] : a \in Authority})
Mean(scores) == Sum(scores) \div N
Variance(scores) == Sum([a \in Authority |-> Square(scores[a] - Mean(scores))]) \div N
\* The square root is truncated.
StandardDev(scores) ==
    Max({s \in 0..Highest(scores) : Square(s) <= Variance(scores)})

ListThreshold == Larger((N * BadPercent) \div 100, 1)

AtMost(scores, c) == {a \in Authority : scores[a] <= c}
AtLeast(scores, c) == {a \in Authority : scores[a] >= c}

\* The ceiling goes down in steps of dev until few enough are below it, or
\* until it is 0.
BadCeil(scores, dev) ==
    LET f[c \in 0..Highest(scores)] ==
          IF c = 0 \/ Cardinality(AtMost(scores, c)) <= ListThreshold
          THEN c ELSE f[SatSub(c, dev)]
    IN f[SatSub(Highest(scores), 2 * dev)]

\* Mutant: the floor starts two deviations down and ignores the bad ceiling.
GoodFloorLow(scores, dev, ceil) == SatSub(Highest(scores), 2 * dev)

\* The floor goes down in steps of dev until enough are above it, and never
\* to the bad ceiling.
GoodFloor(scores, dev, ceil) ==
    LET down(c) == Larger(SatSub(c, dev), ceil + 1)
        f[c \in 0..Highest(scores)] ==
          IF down(c) = c \/ Cardinality(AtLeast(scores, c)) >= ListThreshold
          THEN c ELSE f[down(c)]
    IN f[down(Highest(scores))]

Table == [good : Seq(Authority), bad : SUBSET Authority]
NoTable == [good |-> <<>>, bad |-> {}]

SwapTable(scores) ==
    LET dev   == StandardDev(scores)
        ceil  == BadCeil(scores, dev)
        floor == GoodFloor(scores, dev, ceil)
    IN IF dev = 0 \/ Lowest(scores) > SatSub(Highest(scores), 2 * dev)
       THEN NoTable
       ELSE [good |-> ByScoreDesc(scores, AtLeast(scores, floor)), bad |-> AtMost(scores, ceil)]

-----------------------------------------------------------------------------
(* LeaderSchedule::leader *)

\* The choice of a good node is seeded with the round: any function of the
\* round and of the list.
ChooseGood(good, r) == good[((r \div 2) % Len(good)) + 1]

RoundRobin(r) == Order[(SatSub(r \div 2, 1) % N) + 1]

Leader(table, r) ==
    IF RoundRobin(r) \in table.bad THEN ChooseGood(table.good, r) ELSE RoundRobin(r)
=============================================================================
