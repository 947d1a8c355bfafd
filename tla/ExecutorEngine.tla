---------------------------- MODULE ExecutorEngine ----------------------------
(***************************************************************************)
(* One node between consensus and its chain: the subscriber saves every    *)
(* committed output and hands it to the engine, the engine executes them   *)
(* one by one, and two stores remember the result, each at its own pace.   *)
(*  - The EVM database gets the blocks some time after they are built      *)
(*    (threshold, in the background); `disk' of them are durable.          *)
(*  - The consensus database gets the rows of the outputs and, after every *)
(*    output, the ordering state.  Its writes are queued; `snaps' are the  *)
(*    states a crash may find, oldest first, the last being the current.   *)
(* After a restart the engine is rebuilt from whatever the two stores      *)
(* hold, and the outputs above the executed anchor are delivered again.    *)
(* Every node must end with the chain that the outputs alone determine     *)
(* (Reference).                                                            *)
(*                                                                         *)
(* `committed' is the sequence the committee agreed on.  A row this node   *)
(* lost is committed again, with the same content.                         *)
(***************************************************************************)
EXTENDS BatchExecution

CONSTANTS Payload,       \* what an output may carry: sequences of batches
          Forks,         \* heights of the hardforks: records [v2, empty, norm]
          Threshold,     \* blocks the memory may be ahead of the EVM database
          MaxQueued,     \* MAX_QUEUED_OUTPUTS
          MaxUnflushed,  \* queued writes of the consensus database a crash may lose
          MaxOutputs,    \* bound on the outputs
          MaxEpoch,      \* bound on the epochs
          MaxStops       \* bound on restarts and crashes

VARIABLES fork, committed, saved, snaps,   \* the chain's heights; the consensus database
          x, disk, last_persisted, pending, \* the state of execution; the EVM database
          next, last_admitted, queued, executed_anchor,
          stops, past                       \* history

vars == <<fork, committed, saved, snaps, x, disk, last_persisted, pending,
          next, last_admitted, queued, executed_anchor, stops, past>>

NewNode == [chain |-> <<>>, ord |-> NewOrdering(0), reg |-> {}, tries |-> [b \in Batch |-> 0]]

\* The state that executing the first i outputs, without any stop, leads to.
Reference(i) ==
    FoldLeftDomain(LAMBDA y, n : ExecuteOutput(y, committed[n], n, fork),
                   NewNode, SubSeq(committed, 1, i))

\* A queued write; one that changes nothing makes no state of its own.
Write(ss, s) == LET t == IF Last(ss) = s THEN ss ELSE Append(ss, s)
                IN SubSeq(t, IF Len(t) > MaxUnflushed + 1 THEN 2 ELSE 1, Len(t))

Outputs(chain) == {chain[n].output : n \in DOMAIN chain}
Epoch(chain) == Cardinality({n \in DOMAIN chain : chain[n].closes})

Init ==
    /\ fork \in Forks
    /\ committed = <<>>
    /\ saved = 0
    /\ x = NewNode
    /\ snaps = <<[saved |-> 0, ord |-> NewOrdering(0), upto |-> 0]>>
    /\ disk = 0
    /\ last_persisted = 0
    /\ pending = 0
    /\ next = 1
    /\ last_admitted = 0
    /\ queued = <<>>
    /\ executed_anchor = 0
    /\ stops = 0
    /\ past = {}

-----------------------------------------------------------------------------
(* The subscriber.                                                          *)

NextEpoch ==
    IF committed = <<>> THEN 0
    ELSE Last(committed).epoch + (IF Last(committed).closes THEN 1 ELSE 0)

\* The first output of an epoch comes after the transition, which has executed
\* the closing output and flushed both stores.
TransitionDone ==
    committed # <<>> /\ Last(committed).closes =>
        executed_anchor = Len(committed) /\ disk = Len(x.chain) /\ Len(snaps) = 1

SaveRow == /\ saved' = saved + 1
           /\ snaps' = Write(snaps, [Last(snaps) EXCEPT !.saved = saved + 1])

\* save_consensus, for an output committed now or, after a loss, once more.
SaveConsensus ==
    /\ SaveRow
    /\ \/ saved < Len(committed) /\ UNCHANGED committed
       \/ /\ saved = Len(committed)
          /\ saved < MaxOutputs
          /\ TransitionDone
          /\ \E bs \in Payload, c \in BOOLEAN :
                /\ \A b \in Range(bs) : b.epoch = NextEpoch
                /\ c => NextEpoch < MaxEpoch
                /\ committed' = Append(committed, [epoch |-> NextEpoch, batches |-> bs, closes |-> c])
    /\ UNCHANGED <<fork, x, disk, last_persisted, pending, next, last_admitted, queued,
                   executed_anchor, stops, past>>

\* The output reaches the engine, perhaps for the second time (the boundary
\* detection and the catch-up feed it too); a position at or below the last
\* admitted one is dropped.
Deliver(i) ==
    /\ i <= saved
    /\ i <= next
    /\ Len(queued) < MaxQueued
    /\ next' = IF i = next THEN i + 1 ELSE next
    /\ queued' = IF i > last_admitted THEN Append(queued, i) ELSE queued
    /\ last_admitted' = IF i > last_admitted THEN i ELSE last_admitted
    /\ UNCHANGED <<fork, committed, saved, snaps, x, disk, last_persisted, pending,
                   executed_anchor, stops, past>>

-----------------------------------------------------------------------------
(* The engine and the EVM database.                                         *)

\* The state of the ordering is written after every output; with
\* OutputSeqNormalization also before it, once the parked batches of a past epoch
\* are discarded.
PersistOrdering(y, i) ==
    LET o == committed[i]
        drained == IF o.epoch > x.ord.epoch THEN NewOrdering(o.epoch) ELSE x.ord
        ss == IF Active(x, fork.norm)
              THEN Write(snaps, [Last(snaps) EXCEPT !.ord = drained]) ELSE snaps
    IN Write(ss, [saved |-> saved, ord |-> y.ord, upto |-> i])

\* execute_consensus_output: notice a finished save, execute, start a save when
\* the memory is too far ahead and none is running, write the ordering state.
Execute ==
    /\ queued # <<>>
    /\ LET i == Head(queued)
           y == ExecuteOutput(x, committed[i], i, fork)
           landed == pending # 0 /\ disk >= pending
           persisted == IF landed THEN pending ELSE last_persisted
           running == IF landed THEN 0 ELSE pending
           save == running = 0 /\ y.chain # x.chain /\ Len(y.chain) - persisted > Threshold
       IN /\ x' = y
          /\ last_persisted' = persisted
          /\ pending' = IF save THEN Len(y.chain) ELSE running
          /\ snaps' = PersistOrdering(y, i)
          /\ executed_anchor' = i
    /\ queued' = Tail(queued)
    /\ UNCHANGED <<fork, committed, saved, disk, next, last_admitted, stops, past>>

\* The persistence service has written the blocks it was given.
BlocksSaved ==
    /\ pending > disk
    /\ disk' = pending
    /\ UNCHANGED <<fork, committed, saved, snaps, x, last_persisted, pending, next,
                   last_admitted, queued, executed_anchor, stops, past>>

\* flush_persistence, at an epoch boundary and when the node changes its mode.
FlushPersistence ==
    /\ disk < Len(x.chain)
    /\ disk' = Len(x.chain)
    /\ last_persisted' = Len(x.chain)
    /\ pending' = 0
    /\ UNCHANGED <<fork, committed, saved, snaps, x, next, last_admitted, queued,
                   executed_anchor, stops, past>>

\* persist, the barrier on the consensus database, at the end of a transition.
FinishTransition ==
    /\ committed # <<>> /\ Last(committed).closes
    /\ executed_anchor = Len(committed)
    /\ disk = Len(x.chain)
    /\ Len(snaps) > 1
    /\ snaps' = <<Last(snaps)>>
    /\ UNCHANGED <<fork, committed, saved, x, disk, last_persisted, pending, next,
                   last_admitted, queued, executed_anchor, stops, past>>

-----------------------------------------------------------------------------
(* Starting from the two stores.                                            *)

\* recover_authorities_from_history: the highest sequence number in the saved
\* rows of the epoch, executed or not.
RecoverAuthorities(rows, e) ==
    LET Seqs(a) == {b.seq : b \in {c \in UNION {Range(committed[i].batches) :
                                        i \in {j \in 1..rows : committed[j].epoch >= e}} : c.auth = a}}
    IN [a \in Authority |-> IF Seqs(a) = {} THEN NoSeq ELSE Max(Seqs(a))]

KeepsOrderingOfEpoch(ord, e) ==
    (\E a \in Authority : ord.last[a] # NoSeq) /\ ord.epoch = e

\* Whether from_history takes the persisted state as it is.
KeepsOrdering(ord, e) ==
    /\ \E a \in Authority : ord.last[a] # NoSeq
    /\ ord.epoch = e \/ ord.epoch + 1 = e

FromHistory(ord, rows, e) ==
    IF KeepsOrdering(ord, e) THEN ord
    ELSE [epoch |-> e, last |-> RecoverAuthorities(rows, e), parked |-> {}]

\* Every batch of a block is registered; one whose block is empty although its
\* transaction is not mined yet may be retried.
ReconstructBatchDigests(chain, ord, rows) ==
    LET Known == UNION {Range(committed[i].batches) : i \in 1..rows}
        Retryable(n) == /\ chain[n].outcome # "included"
                        /\ chain[n].batch \in Known
                        /\ chain[n].batch.nonce >= AccountNonce(chain)
        Scan(y, n) == IF chain[n].batch = NoBatch THEN y
                      ELSE IF Retryable(n) THEN DropDigest(Register(y, chain[n].batch), chain[n].batch)
                      ELSE Register(y, chain[n].batch)
    IN FoldLeftDomain(Scan, [NewNode EXCEPT !.chain = chain, !.ord = ord], chain)

RecoverAnchorOfTip(chain, rows) ==
    IF chain # <<>> /\ Last(chain).output <= rows THEN Last(chain).output ELSE 0

\* The highest output among the durable blocks, if its row is still there.
RecoverExecutedAnchor(chain, rows) ==
    LET top == Max({0} \cup Outputs(chain)) IN IF top <= rows THEN top ELSE 0

\* The first output delivered again.  A saved row of a closed epoch ends the
\* replay, and the subscriber goes on behind the last row.
ReplayFrom(anchor, rows, e) ==
    IF anchor < rows /\ committed[anchor + 1].epoch < e THEN rows + 1 ELSE anchor + 1

Boot(d, s) ==
    LET chain == SubSeq(x.chain, 1, d)
        e == Epoch(chain)
        anchor == RecoverExecutedAnchor(chain, s.saved)
        ord == FromHistory(s.ord, s.saved, e)
        top == Max({0} \cup Outputs(chain))
        reseeded == ~KeepsOrdering(s.ord, e) /\ \E a \in Authority : ord.last[a] # NoSeq
        retried == \E n \in DOMAIN chain : chain[n].outcome = "high"
        unregistered == ord.parked # {} /\ Len(chain) + 1 < fork.v2
    IN /\ stops < MaxStops
       /\ stops' = stops + 1
       /\ x' = ReconstructBatchDigests(chain, ord, s.saved)
       /\ disk' = d
       /\ last_persisted' = d
       /\ pending' = 0
       /\ saved' = s.saved
       /\ snaps' = <<s>>
       /\ queued' = <<>>
       /\ executed_anchor' = anchor
       /\ last_admitted' = anchor
       /\ next' = ReplayFrom(anchor, s.saved, e)
       /\ past' = past \cup {f \in {"ahead", "behind", "reseeded", "retried", "unregistered"} :
                                 \/ f = "ahead" /\ s.upto > top
                                 \/ f = "behind" /\ s.upto < top
                                 \/ f = "reseeded" /\ reseeded
                                 \/ f = "retried" /\ retried
                                 \/ f = "unregistered" /\ unregistered}
       /\ UNCHANGED <<fork, committed>>

\* An orderly restart: what was admitted is executed, both stores are flushed.
Restart == queued = <<>> /\ Boot(Len(x.chain), Last(snaps))

\* A crash keeps the durable blocks and one of the possible consensus stores.
Crash == \E n \in DOMAIN snaps : Boot(disk, snaps[n])

-----------------------------------------------------------------------------

Next ==
    \/ SaveConsensus
    \/ \E i \in 1..MaxOutputs : Deliver(i)
    \/ Execute
    \/ BlocksSaved
    \/ FlushPersistence
    \/ FinishTransition
    \/ Restart
    \/ Crash

Spec == Init /\ [][Next]_vars

-----------------------------------------------------------------------------
(* Properties.                                                              *)

SameChain ==
    LET r == Reference(executed_anchor)
    IN x.chain = r.chain /\ (x.ord.epoch = r.ord.epoch => x.ord = r.ord)

\* Executing the outputs with restarts and crashes in between gives the chain,
\* the watermarks and the parked batches of an uninterrupted execution
\* (execute_consensus_output after from_history and reconstruct_batch_digests),
\* as long as no start found the two stores at different outputs, seeded the
\* watermarks from rows it had not executed, came after a refused batch, or, before
\* BatchDigestV2, forgot that a parked batch is registered.
Deterministic == past # {} \/ SameChain

\* No committed batch of the running epoch disappears: it has a block, is parked
\* (or its number is), or is below the watermark, where the parking limit or the
\* start of the epoch has put it (try_accept, drain_consecutive).  And with
\* OutputSeqNormalization a parked batch always waits for a predecessor: its
\* number is never the next one nor below the watermark, where drain_consecutive
\* would not look again.
NothingLost ==
    /\ fork.norm <= 1 => \A p \in x.ord.parked : p.batch.seq > x.ord.last[p.batch.auth] + 1
    /\ past \cap {"ahead", "behind"} = {} =>
        \A i \in 1..executed_anchor : \A b \in Range(committed[i].batches) :
            \/ committed[i].epoch # x.ord.epoch
            \/ \E n \in DOMAIN x.chain : x.chain[n].batch = b
            \/ ParkedAt(x.ord, b.auth, b.seq) # {}
            \/ b.seq < x.ord.last[b.auth]

\* Every executed output has a block that carries its number and no output above
\* the anchor has one, and an epoch is closed by exactly one block, of its closing
\* output: the anchor recovered from the chain at a start relies on both.  The
\* replay from that anchor leaves no output out, whatever was lost: when every
\* row is saved and delivered and the engine is idle, the last output is executed
\* (get_missing_consensus, the dedup of the engine's inbound stream).
EveryOutputSealed ==
    /\ fork.empty <= 1 /\ "behind" \notin past => Outputs(x.chain) = 1..executed_anchor
    /\ fork.v2 <= 1 /\ "behind" \notin past =>
          \A i \in 1..executed_anchor :
              Cardinality({n \in DOMAIN x.chain : x.chain[n].output = i /\ x.chain[n].closes})
                  = (IF committed[i].closes THEN 1 ELSE 0)
    /\ queued = <<>> /\ saved = Len(committed) /\ next > saved => executed_anchor = saved
=============================================================================
