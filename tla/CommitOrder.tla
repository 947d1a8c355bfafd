---------------------------- MODULE CommitOrder ----------------------------
(***************************************************************************)
(* What every node may commit, said of the DAG as a whole: an entry of the *)
(* sequence a node commits is the first leader of a chain that ends in a   *)
(* leader with enough support.  The chain goes from each leader to the     *)
(* latest earlier leader in its history.  The leader of a round, and what  *)
(* is committed with it, are functions of what was committed before and of *)
(* the leader's causal history.                                            *)
(*                                                                         *)
(* Bullshark computes such entries from the part of the DAG one node has   *)
(* received.                                                               *)
(***************************************************************************)
EXTENDS Dag, Sequences

CONSTANTS Node,            \* the nodes
          LeaderOf(_, _),  \* the leader of a round, after a committed prefix
          BodyOf(_, _, _)  \* what is committed with a leader, after a prefix,
                           \* given the parents of everything in its history

VARIABLE committed         \* the entries each node has committed

vars == <<certs, par, anc, committed>>

History(l) == [c \in anc[l] \cup {l} |-> par[c]]

Entry(p, l) == [leader |-> l, body |-> BodyOf(p, l, History(l))]

LastRound(p) == IF p = <<>> THEN 0 ELSE p[Len(p)].leader.round

\* The certificates of the leaders that come after the prefix p.
Leaders(p) ==
    {c \in certs : /\ c.round % 2 = 0 /\ c.round > LastRound(p)
                   /\ c.author = LeaderOf(p, c.round)}

\* order_leaders: y is the latest of the leaders L before x that x is linked to.
PrevLeader(L, x, y) ==
    /\ y \in L /\ y \in anc[x] /\ y.round < x.round
    /\ \A z \in L : z \in anc[x] /\ z.round < x.round => z.round <= y.round

\* S is what order_leaders finds from l among the leaders L.
IsChain(L, S, l) ==
    /\ l \in S
    /\ \A x \in S : x.round <= l.round
    /\ \A x \in S : \A y \in L : PrevLeader(L, x, y) => y \in S
    /\ \A y \in S : y = l \/ \E x \in S : PrevLeader(L, x, y)

\* Mutant: one supporter is enough.
EnoughSupportOne(l) == Supporters(l) # {}

EnoughSupport(l) == ReachedValidity(Authors(Supporters(l)))

\* f is the next leader to commit after p.
NextLeader(p, f) ==
    LET L == Leaders(p) IN
    \E l \in L, S \in SUBSET L :
        /\ f \in S
        /\ \A x \in S : f.round <= x.round
        /\ EnoughSupport(l)
        /\ IsChain(L, S, l)

OrderInit == Init /\ committed = [n \in Node |-> <<>>]

\* The DAG grows.
Grow == Next /\ UNCHANGED committed

\* commit_leader, one sub-dag at a time.
Commit(n, f) ==
    /\ NextLeader(committed[n], f)
    /\ committed' = [committed EXCEPT ![n] = Append(@, Entry(committed[n], f))]
    /\ UNCHANGED dagVars

\* A restart forgets the sub-dags that were not stored.
Forget(n, k) ==
    /\ k < Len(committed[n])
    /\ committed' = [committed EXCEPT ![n] = SubSeq(@, 1, k)]
    /\ UNCHANGED dagVars

OrderNext ==
    \/ Grow
    \/ \E n \in Node : \/ \E f \in certs : Commit(n, f)
                       \/ \E k \in 0..Len(committed[n]) : Forget(n, k)

OrderSpec == OrderInit /\ [][OrderNext]_vars

-----------------------------------------------------------------------------
\* Every entry a node has committed was the next one after those before it,
\* and carries what belongs to that leader at that place.
Justified ==
    \A n \in Node : \A i \in 1..Len(committed[n]) :
        LET p == SubSeq(committed[n], 1, i - 1) IN
        /\ NextLeader(p, committed[n][i].leader)
        /\ committed[n][i] = Entry(p, committed[n][i].leader)

\* Two nodes commit the same entries in the same order: one is never ahead of
\* the other by anything but more entries.
CommitAgreement ==
    \A m, n \in Node : \A i \in 1..Len(committed[m]) :
        i <= Len(committed[n]) => committed[m][i] = committed[n][i]
=============================================================================
