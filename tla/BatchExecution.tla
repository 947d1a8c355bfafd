---------------------------- MODULE BatchExecution ----------------------------
(***************************************************************************)
(* What one node does with a committed output: the processor of the        *)
(* middleware (execution/orchestrator.rs, batch/ordering.rs and the        *)
(* registry of executed batches).  The batches of an authority carry a     *)
(* sequence number; one that comes too early is parked until its turn.     *)
(* Every batch that is executed becomes a block, and an output that gives  *)
(* no block of its own gets an empty one.                                  *)
(*                                                                         *)
(* Execution is a function: ExecuteOutput maps the state of the node (its  *)
(* chain, the ordering state, the registry) and an output to the next      *)
(* state.  ExecutorEngine adds what is not a function of the outputs:      *)
(* queues, disks, restarts and crashes.                                    *)
(*                                                                         *)
(* A batch holds one transaction, of one account all batches share: what   *)
(* tells transactions apart here is only whether their nonce is the next   *)
(* one (included), too high or too low, the latter two leaving an empty    *)
(* block.  Fees, gas and rewards are left out.                             *)
(***************************************************************************)
EXTENDS Integers, FiniteSets, FiniteSetsExt, SequencesExt

CONSTANTS Authority,   \* the execution addresses, as numbers: they are sorted
          Batch,       \* batches: records [auth, epoch, seq, nonce]
          NoBatch,     \* the batch of an empty block
          MaxParked,   \* MAX_PARKED_PER_AUTHORITY
          MaxRetries   \* MAX_NONCE_TOO_HIGH_RETRIES

NoSeq == -1   \* last_executed_seq is None

-----------------------------------------------------------------------------
(* BatchOrdering: per authority the last sequence number executed and the   *)
(* parked batches, for one epoch.                                           *)

NewOrdering(e) == [epoch |-> e, last |-> [a \in Authority |-> NoSeq], parked |-> {}]

ParkedOf(ord, a) == {p \in ord.parked : p.batch.auth = a}
ParkedAt(ord, a, s) == {p \in ParkedOf(ord, a) : p.batch.seq = s}

\* Sequence number 0 is a node from before the upgrade; one at or below the
\* last executed is a batch proposed again, left to the registry.
NotOrdered(ord, b) == b.seq = 0 \/ (ord.last[b.auth] # NoSeq /\ b.seq <= ord.last[b.auth])
InTurn(ord, b) == ord.last[b.auth] = NoSeq \/ b.seq = ord.last[b.auth] + 1
ParkingFull(ord, a) == Cardinality(ParkedOf(ord, a)) >= MaxParked

Accept(ord, b) == [ord EXCEPT !.last[b.auth] = b.seq]

ForceAcceptDropsAll(ord, b, norm) ==
    [Accept(ord, b) EXCEPT !.parked = {p \in @ : norm => p.batch.auth # b.auth}]

\* With the parking full the batch is executed out of turn, and what it jumped
\* over is dropped (before OutputSeqNormalization: left behind).
ForceAccept(ord, b, norm) ==
    [Accept(ord, b) EXCEPT !.parked =
        {p \in @ : norm /\ p.batch.auth = b.auth => p.batch.seq > b.seq}]

Park(ord, p) ==
    [ord EXCEPT !.parked = (@ \ ParkedAt(ord, p.batch.auth, p.batch.seq)) \cup {p}]

TryAccept(ord, p, norm) ==
    LET b == p.batch IN
    CASE NotOrdered(ord, b) -> [verdict |-> "InOrder", ord |-> ord]
      [] ~NotOrdered(ord, b) /\ InTurn(ord, b) -> [verdict |-> "InOrder", ord |-> Accept(ord, b)]
      [] OTHER -> IF ParkingFull(ord, b.auth)
                  THEN [verdict |-> "OverflowForced", ord |-> ForceAccept(ord, b, norm)]
                  ELSE [verdict |-> "Parked", ord |-> Park(ord, p)]

-----------------------------------------------------------------------------
(* The chain and the registry.  x is the state of a node: its chain, its    *)
(* ordering state, the registered batches and the retries they have had.    *)

Register(x, b) == [x EXCEPT !.reg = @ \cup {b}]

\* A batch refused as too early may be executed again, a limited number of times.
DropDigest(x, b) ==
    IF x.tries[b] >= MaxRetries THEN x
    ELSE [x EXCEPT !.tries[b] = @ + 1, !.reg = @ \ {b}]

AccountNonce(chain) == Cardinality({n \in DOMAIN chain : chain[n].outcome = "included"})

Outcome(chain, b) ==
    IF b.nonce = AccountNonce(chain) THEN "included"
    ELSE IF b.nonce > AccountNonce(chain) THEN "high" ELSE "low"

\* The block of a prepared batch is stamped with the output it was committed in.
ExecuteBatch(x, p, closes) ==
    [x EXCEPT !.chain = Append(@, [batch |-> p.batch, output |-> p.output, closes |-> closes,
                                   outcome |-> Outcome(x.chain, p.batch)])]

ExecuteEmpty(x, i, closes) ==
    [x EXCEPT !.chain = Append(@, [batch |-> NoBatch, output |-> i, closes |-> closes,
                                   outcome |-> "empty"])]

LastOutcome(x) == Last(x.chain).outcome

\* A hardfork is active at the next block.
Active(x, height) == Len(x.chain) + 1 >= height

-----------------------------------------------------------------------------
(* One output.  o is [epoch, batches, closes], i its number and fork the    *)
(* heights at which the hardforks BatchDigestV2, EmptyOutputBlock and       *)
(* OutputSeqNormalization become active.                                    *)

\* The batches of each authority exchange their places so that their sequence
\* numbers ascend; equal ones keep their order.
NormalizeAuthoritySeqOrder(bs) ==
    LET Before(m, n) == bs[m].seq < bs[n].seq \/ (bs[m].seq = bs[n].seq /\ m < n)
        Places(n) == {m \in DOMAIN bs : bs[m].auth = bs[n].auth}
    IN [n \in DOMAIN bs |->
           bs[SetToSortSeq(Places(n), Before)[Cardinality({m \in Places(n) : m <= n})]]]

\* The parked batches that are next in turn, as far as they follow one another.
\* With v2 those executed meanwhile are left out and the others registered.
DrainConsecutive(acc, a, v2) ==
    LET ord == acc.x.ord
        Due(n) == ParkedAt(ord, a, ord.last[a] + n)
        k == Max({0} \cup {n \in 1..Cardinality(ord.parked) :
                              ord.last[a] # NoSeq /\ \A m \in 1..n : Due(m) # {}})
        run == [n \in 1..k |-> [(CHOOSE p \in Due(n) : TRUE) EXCEPT !.drained = TRUE]]
        out == SelectSeq(run, LAMBDA p : ~v2 \/ p.batch \notin acc.x.reg)
    IN [x |-> [acc.x EXCEPT !.ord.last[a] = IF k = 0 THEN @ ELSE @ + k,
                            !.ord.parked = @ \ UNION {Due(n) : n \in 1..k},
                            !.reg = @ \cup {p.batch : p \in {q \in Range(out) : v2}}],
        list |-> acc.list \o out]

\* One turn of the loop of collect_executable_batches.
CollectBatch(acc, p, v2, norm) ==
    LET x == IF v2 THEN acc.x ELSE Register(acc.x, p.batch)
        r == TryAccept(x.ord, p, norm)
        y == [x EXCEPT !.ord = r.ord]
    IN IF p.batch \in acc.x.reg THEN acc
       ELSE IF r.verdict = "Parked" THEN [acc EXCEPT !.x = y]
       ELSE DrainConsecutive([x |-> Register(y, p.batch), list |-> Append(acc.list, p)],
                             p.batch.auth, v2)

CollectExecutableBatches(x, bs, i, v2, norm) ==
    FoldLeftDomain(LAMBDA acc, n :
                       CollectBatch(acc, [batch |-> bs[n], output |-> i, index |-> n,
                                          drained |-> FALSE], v2, norm),
                   [x |-> x, list |-> <<>>], bs)

\* On the first output of an epoch the parked batches of the one before are
\* discarded; before OutputSeqNormalization they were executed, in the order
\* of authority and sequence number.
DrainEpochParked(x, o, v2, norm) ==
    LET Before(p, q) == p.batch.auth < q.batch.auth
                        \/ (p.batch.auth = q.batch.auth /\ p.batch.seq < q.batch.seq)
        parked == SetToSortSeq(x.ord.parked, Before)
        Force(y, p) == IF v2 /\ p.batch \in y.reg THEN y
                       ELSE ExecuteBatch(IF v2 THEN Register(y, p.batch) ELSE y, p, FALSE)
        y0 == [x EXCEPT !.ord = NewOrdering(o.epoch)]
    IN IF o.epoch <= x.ord.epoch THEN x
       ELSE IF norm THEN y0 ELSE FoldLeft(Force, y0, parked)

\* execute_consensus_output.  The batch at the last position closes the epoch;
\* if it is not executed there, a block of its own does.
ExecuteOutput(x, o, i, fork) ==
    LET v2 == Active(x, fork.v2)
        norm == Active(x, fork.norm)
        x1 == DrainEpochParked(x, o, v2, norm)
        bs == IF norm THEN NormalizeAuthoritySeqOrder(o.batches) ELSE o.batches
        acc == CollectExecutableBatches(x1, bs, i, v2, norm)
        AtEnd(p) == ~p.drained /\ p.index = Len(bs)
        Run(y, p) ==
            LET z == ExecuteBatch(y, p, o.closes /\ AtEnd(p))
            IN IF v2 /\ LastOutcome(z) = "high" THEN DropDigest(z, p.batch) ELSE z
        x2 == FoldLeft(Run, acc.x, acc.list)
        unclosed == o.closes /\ \A p \in Range(acc.list) : ~AtEnd(p)
        fallback ==
            IF Active(x2, fork.empty) THEN acc.list = <<>> \/ unclosed
            ELSE IF acc.list = <<>>
            THEN bs = <<>> \/ (o.closes /\ (v2 \/ x2.chain = x.chain))
            ELSE unclosed /\ v2
    IN IF fallback THEN ExecuteEmpty(x2, i, o.closes) ELSE x2
=============================================================================
