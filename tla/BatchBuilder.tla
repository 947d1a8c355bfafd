---------------------------- MODULE BatchBuilder ----------------------------
(***************************************************************************)
(* The life of a validator's own batches: the batch builder and its        *)
(* typestate pipeline, the build task it spawns, the worker that collects  *)
(* a quorum of attestations and reports the batch to the primary, the      *)
(* execution of committed batches in sequence order, and the in-flight     *)
(* marks that keep a sealed transaction from being sealed twice.           *)
(*                                                                         *)
(* Absent numbers (Option::None in the code) are -1.  A transaction is a   *)
(* model value; Before gives the transactions of the same sender with      *)
(* lower nonces.                                                           *)
(***************************************************************************)
EXTENDS Integers, Sequences, FiniteSets, SequencesExt, FiniteSetsExt

CONSTANTS Tx,            \* transactions clients submit
          Before,        \* Before[t]: the sender's transactions before t
          Peer,          \* the other committee members
          Stake,         \* voting power of a peer
          OwnStake,      \* voting power of this validator
          Threshold,     \* the committee's quorum threshold
          BatchCap,      \* transactions that fit in a batch
          MaxSealAhead,  \* batches sealed ahead of execution
          FirstSeq,      \* the counter the first builder finds on disk
          MaxSeq, MaxBuilders, MaxFaults   \* bounds of the model

VARIABLES
  pool,      \* the pending sub-pool
  mined,     \* transactions in the canonical chain
  marks,     \* the in-flight tracker: "none", "sent" or "held"
  toRelease, \* mined hashes the in-flight release task has not handled yet
  tip,       \* where the canonical tip is with respect to the boundary
  b,         \* the builder's pipeline
  wake,      \* a candidate or a mark release waits in the select! loop
  task,      \* the spawned build task
  w,         \* the worker's seal loop
  up,        \* the proposer and the seal loop accept batches
  log,       \* batches the proposer queued this epoch, not executed yet
  frame,     \* the ordering's last executed sequence of this authority
  wm,        \* the executed watermark the builder watches
  counter,   \* BatchSeqCounter: what reads return, what may be on disk
  builders,  \* builders started so far
  faults,    \* failures injected so far
  drained,   \* the ordering has seen an output of this epoch
  restarted, \* the node restarted in this epoch
  gap        \* a transaction was dropped as nonce-too-high without a restart

chain == <<pool, mined, marks, toRelease, tip>>
ordering == <<log, frame, wm, drained>>
env == <<up, counter, builders, faults, restarted>>
vars == <<chain, b, wake, task, w, ordering, env, gap>>

\* A candidate event for the select! loop, as long as it runs.
Wake == b.ph # "closed"

Power(S) == MapThenSumSet(LAMBDA p : Stake[p], S)
Sub(x, y) == IF x > y THEN x - y ELSE 0     \* saturating_sub

NoTask == [at |-> "none", sel |-> {}, cap |-> FALSE, seq |-> 0]
Free == [at |-> "idle", sel |-> {}, seq |-> 0, total |-> 0, avail |-> 0,
         rej |-> 0, ans |-> [p \in Peer |-> "none"]]

MaxAllowedAhead(phase) ==
  CASE phase = "active" -> MaxSealAhead [] phase = "quiescing" -> 1 [] OTHER -> 0

\* Batches sealed and not executed, as the builder counts them.
InFlightDepth(high, start, executed) ==
  IF high = -1 THEN 0
  ELSE Sub(high, IF executed = -1 THEN Sub(start, 1) ELSE executed)

NoThrottle(p, executed) ==
  /\ p.tip # "closed"
  /\ InFlightDepth(p.high, p.start, executed) < MaxAllowedAhead(p.tip)
BudgetAllows(p, executed) ==
  LET depth == InFlightDepth(p.high, p.start, executed)
  IN  /\ p.tip # "closed"
      /\ (executed # -1 /\ executed >= p.start) \/ depth < 1
      /\ depth < MaxAllowedAhead(p.tip)

OnEvent(p) ==
  CASE p.ph = "clean" -> [p EXCEPT !.ph = "accumulating"]
    [] p.ph = "awaiting" -> [p EXCEPT !.flag = TRUE]
    [] OTHER -> p

\* The end of a select! arm and the top of the loop: close at the boundary,
\* else start a build when the phase and the budget allow one.
LoopTop(p, executed) ==
  IF p.tip = "closed" THEN [p EXCEPT !.ph = "closed"]
  ELSE IF p.ph \in {"accumulating", "backlog"} /\ BudgetAllows(p, executed)
             /\ p.seq <= MaxSeq
       THEN [p EXCEPT !.ph = "awaiting", !.flag = FALSE]
       ELSE p

\* The builder's next pipeline; a build task is spawned when it starts to await.
Step(p) ==
  LET q == LoopTop(p, wm)
  IN  /\ b' = q
      /\ task' = IF q.ph = "awaiting" /\ p.ph # "awaiting"
                 THEN [NoTask EXCEPT !.at = "build", !.seq = q.seq]
                 ELSE task

ResumeSeq(executed, persisted) == IF executed = -1 THEN persisted ELSE executed + 1

\* BatchBuilder::new and the first lines of run: a fresh pipeline that starts
\* to accumulate.
StartBuilder(executed, persisted, phase) ==
  LET start == ResumeSeq(executed, persisted)
      q == LoopTop([ph |-> "accumulating", start |-> start, high |-> start - 1,
                    seq |-> start, tip |-> phase, flag |-> FALSE], executed)
  IN  /\ b' = q
      /\ task' = IF q.ph = "awaiting"
                 THEN [NoTask EXCEPT !.at = "build", !.seq = q.seq] ELSE NoTask
      /\ wake' = FALSE
      /\ w' = Free

Init ==
  /\ pool = {} /\ mined = {} /\ marks = [t \in Tx |-> "none"] /\ toRelease = {}
  /\ tip = "active"
  /\ b = [ph |-> "awaiting", start |-> FirstSeq, high |-> FirstSeq - 1,
          seq |-> FirstSeq, tip |-> "active", flag |-> FALSE]
  /\ task = [NoTask EXCEPT !.at = "build", !.seq = FirstSeq]
  /\ wake = FALSE /\ w = Free /\ up = TRUE
  /\ log = {} /\ frame = -1 /\ wm = -1
  /\ counter = [cur |-> FirstSeq, disk |-> {FirstSeq}]
  /\ builders = 1 /\ faults = 0 /\ drained = TRUE /\ restarted = FALSE /\ gap = FALSE

-----------------------------------------------------------------------------
(* The pool and the chain.                                                 *)

\* A client submits a transaction; it is pending only when the sender's
\* previous ones are pending or mined.
AddTx(t) ==
  /\ t \notin pool /\ t \notin mined
  /\ Before[t] \subseteq pool \cup mined
  /\ pool' = pool \cup {t}
  /\ wake' = Wake
  /\ UNCHANGED <<mined, marks, toRelease, tip, b, task, w, ordering, env, gap>>

\* Time passes: a block moves the tip towards the boundary.
Approach ==
  /\ tip # "closed"
  /\ tip' = IF tip = "active" THEN "quiescing" ELSE "closed"
  /\ UNCHANGED <<pool, mined, marks, toRelease, b, wake, task, w, ordering, env, gap>>

\* reth's pool maintenance drops what was mined from the pending sub-pool, here
\* after the builder could look at it again.
Maintain ==
  /\ pool \cap mined # {}
  /\ pool' = pool \ mined
  /\ UNCHANGED <<mined, marks, toRelease, tip, b, wake, task, w, ordering, env, gap>>

\* Frees the marks of S; the release watch ticks once when a mark was freed.
Release(S) ==
  /\ marks' = [t \in Tx |-> IF t \in S THEN "none" ELSE marks[t]]
  /\ wake' = IF marks' # marks THEN Wake ELSE wake

\* The in-flight release task handles the mined hashes of past commits.
ReleaseHashes ==
  /\ toRelease # {}
  /\ Release(toRelease)
  /\ toRelease' = {}
  /\ UNCHANGED <<pool, mined, tip, b, task, w, ordering, env, gap>>

Marked == {t \in Tx : marks[t] # "none"}
Sealed == UNION {x.txs : x \in log}

\* The engine's periodic sweep: marks past their TTL.  Time is abstract: a mark
\* of a batch still under way comes due early only as an injected fault.
SweepDue ==
  \E S \in SUBSET Marked \ {{}} :
    /\ S \cap Sealed # {} => faults < MaxFaults
    /\ faults' = IF S \cap Sealed # {} THEN faults + 1 ELSE faults
    /\ Release(S)
    /\ UNCHANGED <<pool, mined, toRelease, tip, b, task, w, up, ordering, counter,
                   builders, restarted, gap>>

\* The backstop of the same tick: marks of what is no longer pending.
ReleaseNotPending ==
  /\ Marked \ pool # {}
  /\ Release(Tx \ pool)
  /\ UNCHANGED <<pool, mined, toRelease, tip, b, task, w, ordering, env, gap>>

-----------------------------------------------------------------------------
(* The builder's select! loop.  Its arms are polled one after the other, so *)
(* an arm can win against one of higher priority that becomes ready later. *)

CanonicalWithoutEvent ==
  /\ b.ph # "closed"
  /\ Step([b EXCEPT !.tip = tip])
  /\ UNCHANGED <<chain, wake, w, ordering, env, gap>>
\* A canonical update: it can come at any time, and every output makes a block.
OnCanonical ==
  /\ b.ph # "closed"
  /\ LET p == [b EXCEPT !.tip = tip]
     IN  Step(IF b.ph = "awaiting" THEN p ELSE OnEvent(p))
  /\ UNCHANGED <<chain, wake, w, ordering, env, gap>>

\* The executed watermark moved, as it may have done at any time.
OnWatermark ==
  /\ b.ph \in {"accumulating", "backlog"}
  /\ Step(b)
  /\ UNCHANGED <<chain, wake, w, ordering, env, gap>>

\* A candidate entered the pending pool, or marks were released: two arms with
\* the same body.
OnCandidate ==
  /\ b.ph # "closed" /\ wake
  /\ wake' = FALSE
  /\ Step(OnEvent(b))
  /\ UNCHANGED <<chain, w, ordering, env, gap>>

\* The batching window elapsed: a parked retry starts over.
OnWindow ==
  /\ b.ph = "retry"
  /\ Step([b EXCEPT !.ph = "accumulating"])
  /\ UNCHANGED <<chain, wake, w, ordering, env, gap>>

\* The build task resolved: mark what was sealed, advance, choose the phase.
OnResolution ==
  /\ b.ph = "awaiting" /\ task.at \in {"nothing", "failed", "sealed", "gone"}
  /\ marks' = IF task.at = "sealed"
              THEN [t \in Tx |-> IF t \in task.sel THEN "sent" ELSE marks[t]]
              ELSE marks
  /\ LET p == CASE task.at = "nothing" -> [b EXCEPT !.ph = "clean"]
                [] task.at = "failed" -> [b EXCEPT !.ph = "retry"]
                [] task.at = "gone" -> [b EXCEPT !.ph = "closed"]
                [] OTHER -> [b EXCEPT !.high = IF b.seq > @ THEN b.seq ELSE @,
                                      !.seq = @ + 1,
                                      !.ph = IF task.cap THEN "backlog"
                                             ELSE IF b.flag THEN "accumulating"
                                             ELSE "clean"]
         q == LoopTop(p, wm)
     IN  /\ b' = q
         /\ task' = IF q.ph = "awaiting"
                    THEN [NoTask EXCEPT !.at = "build", !.seq = q.seq] ELSE NoTask
  /\ UNCHANGED <<pool, mined, toRelease, tip, wake, w, ordering, env, gap>>

-----------------------------------------------------------------------------
(* The build task.                                                         *)

Candidates == {t \in pool : marks[t] = "none"}

\* A snapshot of the best transactions: a sender's transactions are taken in
\* nonce order, so a selection is closed under predecessors among candidates.
BuildBatch ==
  /\ task.at = "build"
  /\ LET cand == Candidates
         size == IF Cardinality(cand) > BatchCap THEN BatchCap ELSE Cardinality(cand)
     IN  \E S \in kSubset(size, cand) :
           /\ \A t \in S : Before[t] \cap cand \subseteq S
           /\ task' = [task EXCEPT !.at = IF S = {} THEN "nothing" ELSE "send",
                                   !.sel = S, !.cap = Cardinality(cand) > BatchCap]
  /\ UNCHANGED <<chain, b, wake, w, ordering, env, gap>>

\* The batch goes to the worker unless the builder gave the task up; a seal
\* loop that is gone ends the builder.
SendToWorker ==
  /\ task.at = "send" /\ w.at = "idle"
  /\ \/ b.ph = "closed" /\ task' = NoTask /\ UNCHANGED w
     \/ b.ph # "closed" /\ ~up /\ task' = [task EXCEPT !.at = "gone"] /\ UNCHANGED w
     \/ /\ b.ph # "closed" /\ up
        /\ task' = [task EXCEPT !.at = "wait"]
        /\ w' = [Free EXCEPT !.at = "attest", !.sel = task.sel, !.seq = task.seq,
                             !.total = OwnStake, !.avail = Power(Peer)]
  /\ UNCHANGED <<chain, b, wake, ordering, env, gap>>

-----------------------------------------------------------------------------
(* The worker: attestations, storage, the report to the primary.           *)

MaxRejected == Sub(Power(Peer) + OwnStake, Threshold)

\* The quorum waiter's verdict on its three running sums.
Verdict(v) ==
  IF v.total >= Threshold THEN "quorum"
  ELSE IF v.rej > MaxRejected THEN "rejected"
  ELSE IF v.total + v.avail < Threshold THEN "anti"
  ELSE "attest"

\* A peer acknowledges, refuses (an RPC error), or cannot be reached; the
\* attempts some peer fails are bounded, not the peers that fail one.
PeerAnswer(p, a) ==
  /\ w.at = "attest" /\ w.ans[p] = "none"
  /\ LET first == a # "ok" /\ \A q \in Peer : w.ans[q] \in {"none", "ok"}
     IN  /\ first => faults < MaxFaults
         /\ faults' = IF first THEN faults + 1 ELSE faults
  /\ LET v == [w EXCEPT !.ans[p] = a, !.avail = Sub(@, Stake[p]),
                        !.total = IF a = "ok" THEN @ + Stake[p] ELSE @,
                        !.rej = IF a = "reject" THEN @ + Stake[p] ELSE @]
     IN  w' = [v EXCEPT !.at = Verdict(v)]
  /\ UNCHANGED <<chain, b, wake, task, ordering, up, counter, builders, restarted, gap>>

AttestTimeout ==
  /\ w.at = "attest" /\ faults < MaxFaults
  /\ faults' = faults + 1
  /\ w' = [w EXCEPT !.at = "timeout"]
  /\ UNCHANGED <<chain, b, wake, task, ordering, up, counter, builders, restarted, gap>>

\* The acknowledgement of a seal; nobody reads it when the builder is gone.
Ack(at) == task' = IF task.at = "wait" THEN [task EXCEPT !.at = at] ELSE task

SealFailed ==
  /\ w.at \in {"rejected", "anti", "timeout"}
  /\ w' = Free
  /\ Ack("failed")
  /\ UNCHANGED <<chain, b, wake, ordering, env, gap>>

\* The batch is stored and its digest published; a failed write is fatal to the
\* builder.
StoreBatch ==
  /\ w.at = "quorum"
  /\ \/ /\ w' = [Free EXCEPT !.at = "report", !.sel = w.sel, !.seq = w.seq]
        /\ UNCHANGED <<task, faults>>
     \/ /\ faults < MaxFaults /\ faults' = faults + 1
        /\ w' = Free /\ Ack("gone")
  /\ UNCHANGED <<chain, b, wake, ordering, up, counter, builders, restarted, gap>>

\* The digest enters the proposer's queue; an unacknowledged report fails the
\* seal, so that its sequence number is used again.
ReportOwnBatch ==
  /\ w.at = "report"
  /\ \/ /\ up
        /\ w' = [w EXCEPT !.at = "persist"]
        /\ log' = log \cup {[id |-> builders, seq |-> w.seq, txs |-> w.sel, st |-> "placed"]}
        /\ UNCHANGED task
     \/ ~up /\ w' = Free /\ Ack("failed") /\ UNCHANGED log
  /\ UNCHANGED <<chain, b, wake, frame, wm, drained, env, gap>>

PersistSeq ==
  /\ w.at = "persist"
  /\ counter' = [cur |-> w.seq + 1, disk |-> counter.disk \cup {w.seq + 1}]
  /\ w' = Free
  /\ Ack("sealed")
  /\ UNCHANGED <<chain, b, wake, ordering, up, builders, faults, restarted, gap>>

-----------------------------------------------------------------------------
(* Execution of this authority's committed batches.                        *)

SameSender(t, u) == t = u \/ t \in Before[u] \/ u \in Before[t]

\* One block: the chain after a batch, and what it dropped as nonce-too-high.
Block(acc, x) ==
  LET m == acc.mined \cup {t \in x.txs : Before[t] \subseteq acc.mined \cup x.txs}
  IN  [mined |-> m, dropped |-> acc.dropped \cup (x.txs \ m)]
\* The blocks of the batches S (no two with one sequence number), in order.
RunBatches(S) ==
  FoldLeft(Block, [mined |-> mined, dropped |-> {}],
           SetToSortSeq(S, LAMBDA x, y : x.seq < y.seq))

\* Blocks and their settlement: held marks of the senders that
\* advanced are released, marks of the dropped transactions become held.  The
\* pool's maintenance follows at once, or late as an injected fault.
Execute(r) ==
  LET new == r.mined \ mined
      advanced == {t \in Tx : marks[t] = "held" /\ \E u \in new : SameSender(t, u)}
  IN  /\ mined' = r.mined
      /\ toRelease' = toRelease \cup new
      /\ marks' = [t \in Tx |-> CASE t \in r.dropped /\ marks[t] = "sent" -> "held"
                                  [] t \in advanced -> "none"
                                  [] OTHER -> marks[t]]
      /\ wake' = IF advanced # {} THEN Wake ELSE wake
      /\ \/ pool' = pool \ r.mined /\ UNCHANGED faults
         \/ /\ pool \cap new # {} /\ faults < MaxFaults
            /\ pool' = pool /\ faults' = faults + 1
      /\ UNCHANGED <<tip, b, task, w, up, counter, builders, restarted>>

With(x, st) == [x EXCEPT !.st = st]
Parked(q) == {y \in log : y.st = "parked" /\ y.seq = q}

\* The parked batches that follow x without a hole.
Followers(x) ==
  {y \in log : y.st = "parked" /\ y.seq > x.seq
               /\ \A q \in (x.seq + 1)..y.seq : Parked(q) # {}}

\* An output commits batch x: sequence 0 and stale sequences execute at once,
\* the first of the epoch and the expected one advance the frame and release
\* the parked batches that follow, any other is parked until its turn.
Commit(x) ==
  /\ x.st = "placed" /\ drained
  /\ LET inOrder == x.seq # 0 /\ (frame = -1 \/ x.seq = frame + 1)
         stale == x.seq = 0 \/ (frame # -1 /\ x.seq <= frame)
         S == IF inOrder THEN {x} \cup Followers(x) ELSE {x}
     IN  IF inOrder \/ stale
         THEN /\ frame' = IF inOrder THEN Max({y.seq : y \in S}) ELSE frame
              /\ wm' = IF inOrder /\ frame' > wm THEN frame' ELSE wm
              /\ log' = log \ S
              /\ \E r \in {RunBatches(S)} :
                   Execute(r) /\ gap' = (gap \/ (r.dropped # {} /\ ~restarted))
         ELSE /\ log' = (log \ ({x} \cup Parked(x.seq))) \cup {With(x, "parked")}
              /\ UNCHANGED <<chain, b, wake, task, w, env, frame, wm, gap>>
  /\ UNCHANGED drained

\* The first output of an epoch executes what the last one left parked and
\* forgets the sequence frame.
DrainEpoch ==
  /\ ~drained
  /\ drained' = TRUE
  /\ frame' = -1
  /\ wm' = wm
  /\ log' = {x \in log : x.st # "stranded"}
  /\ \E r \in {RunBatches({x \in log : x.st = "stranded"})} : Execute(r)
  /\ UNCHANGED gap

-----------------------------------------------------------------------------
(* Epochs and restarts.                                                    *)

\* The consensus layer of the closing epoch stops.
Teardown ==
  /\ tip = "closed" /\ up
  /\ up' = FALSE
  /\ UNCHANGED <<chain, b, wake, task, w, ordering, counter, builders, faults, restarted, gap>>

\* The next epoch: what was not committed is gone, the pool stays, the tracker
\* is armed again without marks.
NewEpoch ==
  /\ ~up /\ builders < MaxBuilders
  /\ up' = TRUE /\ tip' = "active"
  /\ builders' = builders + 1
  /\ log' = {With(x, "stranded") : x \in {y \in log : y.st = "parked"}}
  /\ drained' = FALSE /\ restarted' = FALSE
  /\ marks' = [t \in Tx |-> "none"]
  /\ StartBuilder(wm, counter.cur, "active")
  /\ UNCHANGED <<pool, mined, toRelease, frame, wm, counter, faults, gap>>

\* A restart: the pool and the marks are gone, batches that were not in a
\* certified header may be, and the newest counter writes may not be on disk.
\* The ordering's state is on disk, and seeds the watermark.
Restart ==
  /\ builders < MaxBuilders /\ faults < MaxFaults
  /\ builders' = builders + 1 /\ faults' = faults + 1
  /\ pool' = {} /\ marks' = [t \in Tx |-> "none"] /\ toRelease' = {}
  /\ up' = TRUE /\ restarted' = TRUE
  /\ \E Lost \in SUBSET {x \in log : x.st = "placed"} : log' = log \ Lost
  /\ \E c \in counter.disk :
       /\ counter' = [cur |-> c, disk |-> {c}]
       /\ wm' = frame
       /\ StartBuilder(frame, c, tip)
  /\ UNCHANGED <<mined, tip, frame, drained, gap>>

-----------------------------------------------------------------------------
Builder == OnCanonical \/ OnWatermark \/ OnCandidate \/ OnWindow \/ OnResolution
Task == BuildBatch \/ SendToWorker
Worker == SealFailed \/ StoreBatch \/ ReportOwnBatch \/ PersistSeq
Attest == \E p \in Peer : PeerAnswer(p, "ok")
Refuse == \E p \in Peer, a \in {"reject", "network"} : PeerAnswer(p, a)
Consensus == \E x \in log : Commit(x)

Next ==
  \/ \E t \in Tx : AddTx(t)
  \/ Approach \/ Maintain \/ ReleaseHashes \/ SweepDue \/ ReleaseNotPending
  \/ Builder \/ Task \/ Worker \/ Attest \/ Refuse \/ AttestTimeout
  \/ Consensus \/ DrainEpoch \/ Teardown \/ NewEpoch \/ Restart

\* Every task is scheduled, every ready arm of the select! loop is taken in the
\* end (blocks are further apart than its turns), queued batches commit, and
\* canonical updates keep coming: an output without batches makes an empty block.
Fairness ==
  /\ WF_vars(OnCanonical) /\ WF_vars(OnWindow \/ OnResolution)
  /\ WF_vars(Task \/ Worker \/ Attest)
  /\ WF_vars(Consensus \/ DrainEpoch) /\ WF_vars(SweepDue)

Spec == Init /\ [][Next]_vars /\ Fairness

-----------------------------------------------------------------------------
\* Sequence numbers never block or reorder execution.  No transaction of a batch
\* is dropped as nonce-too-high in an epoch in which the node did not restart:
\* skipping what is in flight, sealing ahead and the order of execution open no
\* nonce gap (build_batch, check_build_budget).  And a queued batch never waits
\* for a number that nobody will use: each one between the frame and the batch
\* belongs to a queued batch or is still ahead of the builder (seal: an
\* unacknowledged report is a seal failure).
NoGap ==
  /\ ~gap
  /\ frame # -1 /\ drained =>
       \A x \in log : \A q \in (frame + 1)..(x.seq - 1) :
         b.seq <= q \/ \E y \in log : y.seq = q

\* A pending transaction is mined, unless a restart empties the pool or the
\* builder's epoch (or the model's supply of sequence numbers) ends first: no
\* wake-up is lost for good and no mark blocks it for ever (the select! loop,
\* the release paths of the in-flight tracker).
EventuallyMined ==
  \A t \in Tx :
    (t \in pool) ~> (t \in mined \/ t \notin pool \/ b.ph = "closed" \/ b.seq > MaxSeq)
=============================================================================
