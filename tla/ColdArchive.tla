---------------------------- MODULE ColdArchive ----------------------------
(***************************************************************************)
(* The cold tier: closed epochs move from the consensus database (hot) to  *)
(* two append-only files per epoch, the jars.  One pass reads an epoch     *)
(* block by block, seals its two jars, writes the index of its batches,    *)
(* evicts its hot rows and marks it.  The boot finishes what a crash cut   *)
(* short, then drains the backlog; afterwards the seal actor archives each *)
(* epoch the execution layer has left behind.                              *)
(*                                                                         *)
(* Jars are fsynced when they are sealed.  Hot writes are ordered but not  *)
(* fsynced: disk is the hot state a crash would leave.                     *)
(***************************************************************************)
EXTENDS Integers, Sequences, FiniteSets, FiniteSetsExt, SequencesExt, Functions

CONSTANTS Chain,      \* Chain[n]: epoch and batch digests of consensus block n
          MaxFaults   \* crashes, shutdowns, failed reads and late copies of a batch

VARIABLES
  hot,       \* rows of ConsensusBlocks, Batches, ColdBatchLocations; the mark
  disk,      \* the last hot state that was synced
  blocks,    \* sealed consensus_blocks jars, by epoch
  batches,   \* sealed batches jars, by epoch
  open,      \* the jars being written
  job,       \* a sealed epoch on its way through the finalize
  mode,      \* down, reconcile, migrate or live
  pc,        \* where the pass is
  anchor,    \* epoch of the last executed output
  floor,     \* the anchor this round of passes works with
  closed,    \* sealed_for: the anchor whose backlog is drained
  awake,     \* the actor has an anchor it has not looked at
  skipped,   \* epochs the boot failed to finish
  faults     \* how many faults happened

tiers == <<hot, disk, blocks, batches>>
pass == <<open, job, pc>>
actor == <<mode, floor, closed, awake>>
vars == <<tiers, pass, actor, anchor, skipped, faults>>

None == -1
Numbers == DOMAIN Chain
EpochOf(n) == Chain[n].epoch
Epochs == {EpochOf(n) : n \in Numbers}
NoJob == [epoch |-> None, numbers |-> <<>>, locations |-> <<>>, at |-> 0]
NoJar == [epoch |-> None, start |-> 0, next |-> 0, rows |-> <<>>, seen |-> {}]

Write(h) == hot' = h /\ UNCHANGED disk
Extend(f, k, v) == [x \in DOMAIN f \cup {k} |-> IF x = k THEN v ELSE f[x]]
Without(f, k) == Restrict(f, DOMAIN f \ {k})

-----------------------------------------------------------------------------
(* Reading.                                                                *)

Ends == {blocks[e].start + Len(blocks[e].rows) - 1 : e \in DOMAIN blocks}
LastSealed == Max(Ends \cup {0})

\* The jar with the least end at or above n, if it starts early enough.
CoveringJars(n) ==
  {e \in DOMAIN blocks :
     LET end == blocks[e].start + Len(blocks[e].rows) - 1 IN
     /\ n \in blocks[e].start..end
     /\ \A x \in Ends : x >= n => x >= end}

\* The row at the place arithmetic gives must hold block n itself.
BlockServed(n) ==
  \/ n \in hot.blocks
  \/ \E e \in CoveringJars(n) : blocks[e].rows[n - blocks[e].start + 1] = n

\* A hot miss goes through the index to a row that must carry the digest.
BatchServed(d) ==
  \/ d \in hot.batches
  \/ /\ d \in DOMAIN hot.index
     /\ LET loc == hot.index[d] IN
        /\ loc.epoch \in DOMAIN batches
        /\ loc.row <= Len(batches[loc.epoch])
        /\ batches[loc.epoch][loc.row] = d

Tip == Max(hot.blocks \cup {LastSealed})
TipEpoch == IF Tip = 0 THEN 0 ELSE EpochOf(Tip)

\* Epochs below the one being committed and below the anchor are due.
Cutoff == IF hot.blocks = {} THEN 0 ELSE Min({EpochOf(Max(hot.blocks)), floor})
FirstUnsealed(n) == {m \in hot.blocks : m >= n /\ \A k \in hot.blocks : k >= n => m <= k}

Init ==
  /\ \E k \in 0..Len(Chain) :
       hot = [blocks |-> 1..k, batches |-> UNION {Range(Chain[n].digests) : n \in 1..k},
              index |-> <<>>, mark |-> None]
  /\ disk = hot /\ blocks = <<>> /\ batches = <<>>
  /\ open = NoJar /\ job = NoJob /\ pc = "idle"
  /\ mode = "down" /\ anchor = 0 /\ floor = 0 /\ closed = None /\ awake = FALSE
  /\ skipped = {} /\ faults = 0

-----------------------------------------------------------------------------
(* A pass.                                                                 *)

DueBlock == {n \in FirstUnsealed(LastSealed + 1) : EpochOf(n) < Cutoff}

\* The epoch's jar files are opened empty, whatever they held.
SealBegin ==
  /\ pc = "idle" /\ mode \in {"migrate", "live"} /\ (mode = "live" => floor # None)
  /\ \E n \in DueBlock :
       /\ EpochOf(n) \notin DOMAIN blocks
       /\ open' = [epoch |-> EpochOf(n), start |-> n, next |-> n, rows |-> <<>>, seen |-> {}]
       /\ batches' = Without(batches, EpochOf(n))
  /\ pc' = "chunk"
  /\ UNCHANGED <<hot, disk, blocks, job, actor, anchor, skipped, faults>>

Fresh(n) == SelectSeq(Chain[n].digests, LAMBDA d : d \notin open.seen)

\* What the walk reads at open.next: the epoch's next block, unless there is a
\* gap or one of its batches is in neither tier.
Readable ==
  /\ open.next \in FirstUnsealed(open.next)
  /\ EpochOf(open.next) = open.epoch
  /\ \A i \in DOMAIN Fresh(open.next) :
       Fresh(open.next)[i] \in hot.batches \cup DOMAIN hot.index

SealChunk ==
  /\ pc = "chunk" /\ Readable
  /\ LET fresh == Fresh(open.next) IN
     open' = [open EXCEPT !.next = @ + 1, !.seen = @ \cup Range(fresh),
                          !.rows = @ \o SelectSeq(fresh, LAMBDA d : d \in hot.batches)]
  /\ UNCHANGED <<tiers, job, pc, actor, anchor, skipped, faults>>

\* The walk saw the end of the epoch, and a second look agrees.
WalkEnds ==
  /\ \A n \in FirstUnsealed(open.next) : EpochOf(n) # open.epoch
  /\ open.next > open.start

SealBatches ==
  /\ pc = "chunk" /\ WalkEnds
  /\ batches' = IF open.rows = <<>> THEN batches ELSE Extend(batches, open.epoch, open.rows)
  /\ pc' = "seal"
  /\ UNCHANGED <<hot, disk, blocks, open, job, actor, anchor, skipped, faults>>

\* The locations of a jar's rows, in row order.
Locations(e, rows) == [i \in DOMAIN rows |-> [digest |-> rows[i], epoch |-> e, row |-> i]]
Job(e, jar, rows) ==
  [epoch |-> e, numbers |-> jar, locations |-> Locations(e, rows), at |-> 1]

SealBlocks ==
  /\ pc = "seal"
  /\ LET rows == [i \in 1..(open.next - open.start) |-> open.start + i - 1] IN
     /\ blocks' = Extend(blocks, open.epoch, [start |-> open.start, rows |-> rows])
     /\ job' = Job(open.epoch, rows, open.rows)
  /\ open' = NoJar /\ pc' = "index"
  /\ UNCHANGED <<hot, disk, batches, actor, anchor, skipped, faults>>

\* One transaction of rows after another; the cursor starts over at the end.
Advance(rows, next) ==
  /\ job' = [job EXCEPT !.at = IF @ < Len(rows) THEN @ + 1 ELSE 1]
  /\ pc' = IF job.at < Len(rows) THEN pc ELSE next
  /\ UNCHANGED <<blocks, batches, open, actor, anchor, skipped, faults>>

\* Mutant: the epoch is marked with its index.
CommitIndexAndMark ==
  /\ pc = "index"
  /\ IF job.locations = <<>> THEN Write([hot EXCEPT !.mark = job.epoch])
     ELSE LET loc == job.locations[job.at] IN
          Write([hot EXCEPT !.mark = job.epoch, !.index =
                   Extend(@, loc.digest, [epoch |-> loc.epoch, row |-> loc.row])])
  /\ Advance(job.locations, "evictBatches")

CommitIndex ==
  /\ pc = "index"
  /\ IF job.locations = <<>> THEN UNCHANGED <<hot, disk>>
     ELSE LET loc == job.locations[job.at] IN
          Write([hot EXCEPT !.index =
                   Extend(@, loc.digest, [epoch |-> loc.epoch, row |-> loc.row])])
  /\ Advance(job.locations, "evictBatches")

EvictBatches ==
  /\ pc = "evictBatches"
  /\ IF job.locations = <<>> THEN UNCHANGED <<hot, disk>>
     ELSE Write([hot EXCEPT !.batches = @ \ {job.locations[job.at].digest}])
  /\ Advance(job.locations, "evictBlocks")

EvictBlocks ==
  /\ pc = "evictBlocks"
  /\ Write([hot EXCEPT !.blocks = @ \ {job.numbers[job.at]}])
  /\ Advance(job.numbers, "mark")

AdvanceHighWaterMark ==
  /\ pc = "mark"
  /\ Write([hot EXCEPT !.mark = job.epoch])
  /\ job' = NoJob /\ pc' = "idle"
  /\ UNCHANGED <<blocks, batches, open, actor, anchor, skipped, faults>>

-----------------------------------------------------------------------------
(* The boot and the actor.                                                 *)

\* The stores are opened; the anchor is found among the executed blocks.
Open ==
  /\ mode = "down"
  /\ mode' = "reconcile"
  /\ anchor' \in 0..TipEpoch
  /\ floor' = anchor' /\ closed' = None /\ awake' = TRUE
  /\ UNCHANGED <<tiers, pass, skipped, faults>>

Unfinished == {e \in DOMAIN blocks : e > hot.mark}

\* Mutant: rows are numbered from the archived blocks.
ReconcileFromBlocks ==
  /\ mode = "reconcile" /\ pc = "idle" /\ Unfinished # {}
  /\ LET e == Min(Unfinished)
         all == FlattenSeq([i \in DOMAIN blocks[e].rows |-> Chain[blocks[e].rows[i]].digests])
     IN job' = Job(e, blocks[e].rows, all)
  /\ pc' = "index"
  /\ UNCHANGED <<tiers, open, actor, anchor, skipped, faults>>

\* The next sealed epoch above the mark runs the finalize again, from its jar.
ReconcileEpoch ==
  /\ mode = "reconcile" /\ pc = "idle" /\ Unfinished # {}
  /\ LET e == Min(Unfinished) IN
     job' = Job(e, blocks[e].rows, IF e \in DOMAIN batches THEN batches[e] ELSE <<>>)
  /\ pc' = "index"
  /\ UNCHANGED <<tiers, open, actor, anchor, skipped, faults>>

ReconcileDone ==
  /\ mode = "reconcile" /\ pc = "idle" /\ Unfinished = {}
  /\ mode' = "migrate"
  /\ UNCHANGED <<tiers, pass, floor, closed, awake, anchor, skipped, faults>>

\* A jar cannot be read: logged, and the boot goes on.
ReconcileFails ==
  /\ mode = "reconcile" /\ pc = "idle" /\ Unfinished # {} /\ faults < MaxFaults
  /\ mode' = "migrate"
  /\ skipped' = skipped \cup Unfinished
  /\ faults' = faults + 1
  /\ UNCHANGED <<tiers, pass, floor, closed, awake, anchor>>

\* The actor takes the newest anchor and starts a round unless it was drained.
Wake ==
  /\ mode = "live" /\ pc = "idle" /\ floor = None /\ awake
  /\ awake' = FALSE
  /\ floor' = IF closed = anchor THEN None ELSE anchor
  /\ UNCHANGED <<tiers, pass, mode, closed, anchor, skipped, faults>>

Rest == mode' = "live" /\ floor' = None

\* Nothing more is due: the boot's backlog, or this round of the actor, is done.
Drained ==
  /\ pc = "idle" /\ mode \in {"migrate", "live"} /\ (mode = "live" => floor # None)
  /\ DueBlock = {}
  /\ closed' = IF mode = "live" THEN floor ELSE closed
  /\ Rest
  /\ UNCHANGED <<tiers, pass, awake, anchor, skipped, faults>>

\* A pass meets a gap, a missing batch or an epoch that was sealed short.
Broken ==
  \/ pc = "chunk" /\ ~Readable /\ ~WalkEnds
  \/ pc = "idle" /\ \E n \in DueBlock : EpochOf(n) \in DOMAIN blocks

\* Mutant: a failed round counts as drained.
SealFailsClosed ==
  /\ mode \in {"migrate", "live"} /\ (mode = "live" => floor # None)
  /\ IF Broken THEN UNCHANGED faults
     ELSE pc = "chunk" /\ faults < MaxFaults /\ faults' = faults + 1
  /\ open' = NoJar /\ pc' = "idle" /\ Rest
  /\ closed' = floor
  /\ UNCHANGED <<tiers, job, awake, anchor, skipped>>

\* Such a pass, or one that cannot read, is given up; what it appended is dropped.
SealFails ==
  /\ mode \in {"migrate", "live"} /\ (mode = "live" => floor # None)
  /\ IF Broken THEN UNCHANGED faults
     ELSE pc = "chunk" /\ faults < MaxFaults /\ faults' = faults + 1
  /\ open' = NoJar /\ pc' = "idle" /\ Rest
  /\ UNCHANGED <<tiers, job, closed, awake, anchor, skipped>>

-----------------------------------------------------------------------------
(* The rest of the node, and what goes wrong.                              *)

\* The next output is saved, its batches and its block in one transaction.
SaveConsensus ==
  /\ mode = "live" /\ Tip < Len(Chain)
  /\ LET n == Tip + 1 IN
     Write([hot EXCEPT !.blocks = @ \cup {n}, !.batches = @ \cup Range(Chain[n].digests)])
  /\ UNCHANGED <<blocks, batches, pass, actor, anchor, skipped, faults>>

\* An output is executed; the actor is told.
Execute ==
  /\ mode = "live"
  /\ anchor' \in {a \in {anchor, anchor + 1} : a <= TipEpoch}
  /\ awake' = TRUE
  /\ UNCHANGED <<tiers, pass, mode, floor, closed, skipped, faults>>

\* A worker stores a batch that was seen before.
StoreBatch ==
  /\ mode = "live" /\ faults < MaxFaults
  /\ \E n \in 1..Tip : \E d \in Range(Chain[n].digests) :
       Write([hot EXCEPT !.batches = @ \cup {d}])
  /\ faults' = faults + 1
  /\ UNCHANGED <<blocks, batches, pass, actor, anchor, skipped>>

\* The database syncs by itself now and then.
AutoSync ==
  /\ disk # hot
  /\ disk' = hot
  /\ UNCHANGED <<hot, blocks, batches, pass, actor, anchor, skipped, faults>>

Stop == open' = NoJar /\ job' = NoJob /\ pc' = "idle" /\ mode' = "down"

\* An orderly end cancels the pass at its next seam and flushes the database.
Shutdown ==
  /\ mode = "live" /\ pc \in {"idle", "chunk", "evictBatches", "evictBlocks"}
  /\ faults < MaxFaults /\ faults' = faults + 1
  /\ Stop /\ disk' = hot
  /\ UNCHANGED <<hot, blocks, batches, floor, closed, awake, anchor, skipped>>

Crash ==
  /\ mode # "down" /\ faults < MaxFaults
  /\ faults' = faults + 1
  /\ hot' = disk
  /\ Stop
  /\ UNCHANGED <<disk, blocks, batches, floor, closed, awake, anchor, skipped>>

PassStep ==
  \/ SealBegin \/ SealChunk \/ SealBatches \/ SealBlocks
  \/ CommitIndex \/ EvictBatches \/ EvictBlocks \/ AdvanceHighWaterMark
  \/ ReconcileEpoch \/ ReconcileDone \/ Wake \/ Drained

Next ==
  \/ PassStep \/ Open \/ SealFails \/ ReconcileFails
  \/ SaveConsensus \/ Execute \/ StoreBatch \/ AutoSync \/ Shutdown \/ Crash

\* The process is started again, its threads run, and outputs keep being executed.
Fairness == WF_vars(PassStep) /\ WF_vars(Open) /\ WF_vars(Execute)
Spec == Init /\ [][Next]_vars /\ Fairness

-----------------------------------------------------------------------------
(* Properties.                                                             *)

\* Moving history never loses any: once the boot has healed the tiers, every
\* block up to the tip and every batch it names is served from one of them,
\* whatever pass is under way and whatever a crash took back (cold/mod.rs:
\* "all history stays queryable").  Epochs the boot failed to finish are left
\* out.
Served ==
  mode \in {"migrate", "live"} =>
    \A n \in 1..Tip : EpochOf(n) \notin skipped =>
      BlockServed(n) /\ \A d \in Range(Chain[n].digests) : BatchServed(d)

\* Sealed jars hold whole epochs without a gap between them, so the resume point
\* behind the last jar never skips a block and no epoch is opened (which would
\* empty its files) after its hot rows may be gone; no pass ever meets the gaps,
\* missing batches and short jars that seal_next_epoch_jars refuses.  And the
\* mark is only set behind a complete archive: in every state a crash may leave,
\* an epoch at or below it has its jar, no hot block and an index entry for every
\* batch, which is why the boot never looks at it again.
MarkedIsArchived ==
  /\ ~Broken
  /\ \A e \in DOMAIN blocks :
       /\ Range(blocks[e].rows) = {n \in Numbers : EpochOf(n) = e}
       /\ \A f \in Epochs : f < e => f \in DOMAIN blocks
  /\ \A h \in {disk, hot} : \A e \in Epochs \ skipped : e <= h.mark =>
       /\ e \in DOMAIN blocks
       /\ \A n \in h.blocks : EpochOf(n) # e
       /\ \A n \in Numbers : EpochOf(n) = e => Range(Chain[n].digests) \subseteq DOMAIN h.index

\* Every epoch below the executed anchor leaves the hot tier in the end, even
\* though a failed pass is retried only when another output is executed and a
\* drained anchor is not looked at again.
EventuallyArchived ==
  \A e \in Epochs : []<>(anchor > e /\ e \notin skipped) =>
    <>[](\A n \in hot.blocks : EpochOf(n) # e \/ e \in skipped)

=============================================================================
