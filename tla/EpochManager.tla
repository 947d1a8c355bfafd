---------------------------- MODULE EpochManager ----------------------------
(***************************************************************************)
(* How a validator closes epochs: the phases of the epoch transition with  *)
(* their checkpoints, the recovery of a transition that a crash cut short, *)
(* the record of every closed epoch, and the task that collects signatures *)
(* until each record is certified.                                         *)
(*                                                                         *)
(* The consensus database answers reads from memory and writes in order    *)
(* behind: disk is the set of states a crash may leave.  A table is a set  *)
(* of rows, an Option a set of at most one element.  A record is told from *)
(* the one the network certifies by the tip it was built on and by its     *)
(* parent.                                                                 *)
(***************************************************************************)
EXTENDS Integers, Sequences, FiniteSets, FiniteSetsExt

CONSTANTS Peer,        \* members whose signatures reach this one
          Quorum,      \* signatures of a certificate
          LastEpoch,   \* epochs that close in the model
          MaxFaults    \* crashes, timeouts and mode changes

ASSUME BoundAssumption == LastEpoch \in Nat /\ MaxFaults \in Nat

VARIABLES
  db,       \* the consensus database: checkpoints, live tables, tail, records
  disk,     \* states of it that may be on disk
  evm,      \* epochs closed at the canonical tip, and on disk
  pc,       \* where the epoch manager is
  epoch,    \* the epoch it runs, or whose transition it recovers
  rec,      \* epoch_record
  prev,     \* prev_epoch_record
  states,   \* records the collection task still collects for
  counted,  \* signatures of peers it has counted
  wanted,   \* requested_missing_epoch
  net,      \* epochs whose record some peer holds certified
  signed,   \* records this validator ever signed
  torn,     \* epochs recovered as executed though their last block was lost
  faults    \* how many of them happened

manager == <<pc, epoch, rec, prev>>
collector == <<states, counted, wanted>>
ghosts == <<signed, torn>>
vars == <<db, disk, evm, manager, collector, net, ghosts, faults>>

Epochs == 1..LastEpoch
Record(e, early, orphan) == [epoch |-> e, early |-> early, orphan |-> orphan]
Agreed(e) == Record(e, FALSE, FALSE)    \* what every validator in step builds
Row(table, e) == {r \in table : r.epoch = e}
Certified(d, e) == Row(d.cert, e) # {}

Write(d) == db' = d /\ disk' = disk \cup {d}
Persist(d) == db' = d /\ disk' = {d}

SaveCheckpoint(d, e, phase) ==
  [d EXCEPT !.cp = (@ \ Row(@, e)) \cup {[epoch |-> e, phase |-> phase]}]
ClearCheckpoint(d, e) == [d EXCEPT !.cp = @ \ Row(@, e)]

\* Mutant: the transaction is not committed.
SaveUncommitted(d, r) == d

\* The record, its certificate and the removal of the pending row: one
\* transaction.
SaveWithCert(d, r) ==
  [d EXCEPT !.cert = (@ \ Row(@, r.epoch)) \cup {r}, !.pend = @ \ Row(@, r.epoch)]
SavePending(d, r) == [d EXCEPT !.pend = (@ \ Row(@, r.epoch)) \cup {r}]

\* The live tables become the tail of the closing epoch e.
ClearTables(d, e) == [d EXCEPT !.tail = IF d.live THEN e ELSE 0, !.live = FALSE]

Init ==
  /\ db = [cp |-> {}, live |-> FALSE, tail |-> 0, pend |-> {}, cert |-> {Agreed(0)}]
  /\ disk = {db}
  /\ evm = [tip |-> 0, disk |-> 0]
  /\ pc = "run" /\ epoch = 1 /\ rec = {} /\ prev = {}
  /\ states = {} /\ counted = {} /\ wanted = 0
  /\ net = {0} /\ signed = {} /\ torn = {}
  /\ faults = 0

-----------------------------------------------------------------------------
(* The epoch transition.                                                   *)

\* Certificates of the running epoch are stored.
StoreCertificates ==
  /\ pc = "run" /\ ~db.live
  /\ Write([db EXCEPT !.live = TRUE])
  /\ UNCHANGED <<evm, manager, collector, net, ghosts, faults>>

\* The boundary output is committed, or replayed after a restart (which needs no
\* certificate).
DetectEpochBoundary ==
  /\ pc = "run" /\ epoch <= LastEpoch /\ (db.live \/ epoch \in torn)
  /\ Write(SaveCheckpoint(db, epoch, "BoundaryDetected"))
  /\ pc' = "shutdown"
  /\ UNCHANGED <<evm, epoch, rec, prev, collector, net, ghosts, faults>>

\* The epoch's tasks end, the signature collection among them; the checkpoint
\* and the blocks so far are made durable.
ControlledShutdown ==
  /\ pc = "shutdown"
  /\ states' = {} /\ counted' = {}
  /\ Persist(SaveCheckpoint(SaveCheckpoint(db, epoch, "ConsensusShutdown"), epoch, "Draining"))
  /\ evm' = [evm EXCEPT !.disk = evm.tip]
  /\ pc' = "execute"
  /\ UNCHANGED <<epoch, rec, prev, wanted, net, ghosts, faults>>

\* The process ends after an error: the engine drains, both databases are
\* flushed, and it is started again with the newest pending record.
Exit(d, tip) ==
  /\ Persist(d)
  /\ evm' = [tip |-> tip, disk |-> tip]
  /\ pc' = "boot" /\ epoch' = tip + 1
  /\ rec' = {}
  /\ prev' = {r \in d.pend : \A s \in d.pend : s.epoch <= r.epoch}
  /\ states' = {} /\ counted' = {} /\ wanted' = 0

DrainTimeout ==
  /\ pc = "shutdown" /\ faults < MaxFaults
  /\ faults' = faults + 1
  /\ Exit(ClearCheckpoint(db, epoch), evm.tip)
  /\ UNCHANGED <<net, ghosts>>

ExecuteBoundary ==
  /\ pc = "execute"
  /\ evm' = [evm EXCEPT !.tip = epoch]
  /\ pc' = "executed"
  /\ UNCHANGED <<db, disk, epoch, rec, prev, collector, net, ghosts, faults>>

\* The wait for the boundary's execution runs out; the engine may still finish
\* it while the process ends.
ExecutionTimeout ==
  /\ pc = "execute" /\ faults < MaxFaults
  /\ faults' = faults + 1
  /\ \E tip \in {evm.tip, epoch} : Exit(db, tip)
  /\ UNCHANGED <<net, ghosts>>

SaveExecutionComplete ==
  /\ pc = "executed"
  /\ Write(SaveCheckpoint(db, epoch, "ExecutionComplete"))
  /\ pc' = "flush"
  /\ UNCHANGED <<evm, epoch, rec, prev, collector, net, ghosts, faults>>

FlushPersistence ==
  /\ pc = "flush"
  /\ evm' = [evm EXCEPT !.disk = evm.tip]
  /\ pc' = "record"
  /\ UNCHANGED <<db, disk, epoch, rec, prev, collector, net, ghosts, faults>>

\* The steps of a transition and of its recovery that end in the same code.
Recovering == pc \in {"recover record", "recover save", "recover clear", "recover uncheck"}
GoTo(step, recovery) == pc' = IF Recovering THEN recovery ELSE step
RecoveryCheckpoint == CHOOSE c \in db.cp : \A o \in db.cp : o.epoch <= c.epoch
ClosingEpoch == IF Recovering THEN RecoveryCheckpoint.epoch ELSE epoch

\* The record of the previous epoch: the certified one, else the one kept in
\* memory.
ResolveLocalPrev(e) ==
  IF Certified(db, e - 1) THEN Row(db.cert, e - 1) ELSE Row(prev, e - 1)

\* write_epoch_record up to its last await: a stored record is taken again,
\* otherwise one is built on the canonical tip and on the previous record,
\* which is asked of a peer when there is none.
BuildEpochRecord ==
  /\ pc \in {"record", "recover record"}
  /\ LET e == ClosingEpoch
         Build(p) == {Record(e, evm.tip < e, p # Agreed(e - 1))}
     IN  \/ /\ Certified(db, e)
            /\ rec' = Row(db.cert, e)
            /\ GoTo("clear", "recover clear")
            /\ UNCHANGED <<db, disk>>
         \/ /\ ~Certified(db, e)
            /\ \E p \in ResolveLocalPrev(e) : rec' = Build(p)
            /\ GoTo("save", "recover save")
            /\ UNCHANGED <<db, disk>>
         \/ /\ ~Certified(db, e) /\ ResolveLocalPrev(e) = {} /\ e - 1 \in net
            /\ Write(SaveWithCert(db, Agreed(e - 1)))
            /\ rec' = Build(Agreed(e - 1))
            /\ GoTo("save", "recover save")
         \/ /\ ~Certified(db, e) /\ ResolveLocalPrev(e) = {}
            /\ rec' = {}
            /\ GoTo("clear", "recover clear")
            /\ UNCHANGED <<db, disk>>
  /\ UNCHANGED <<evm, epoch, prev, collector, net, ghosts, faults>>

\* save_pending_epoch_record: the record waits for its certificate.
SavePendingRecord ==
  /\ pc \in {"save", "recover save"}
  /\ \E r \in rec : Write(SavePending(db, r))
  /\ GoTo("clear", "recover clear")
  /\ UNCHANGED <<evm, epoch, rec, prev, collector, net, ghosts, faults>>

\* The recovery waits for the clear to be durable, the transition only for the
\* end.
ClearConsensusDb ==
  /\ pc \in {"clear", "recover clear"}
  /\ LET d == ClearTables(db, ClosingEpoch)
     IN  IF Recovering THEN Persist(d) ELSE Write(d)
  /\ GoTo("uncheck", "recover uncheck")
  /\ UNCHANGED <<evm, epoch, rec, prev, collector, net, ghosts, faults>>

FinishTransition ==
  /\ pc \in {"uncheck", "recover uncheck"}
  /\ LET d == ClearCheckpoint(db, ClosingEpoch)
     IN  IF Recovering THEN Write(d) ELSE Persist(d)
  /\ pc' = IF Recovering THEN "start" ELSE "boot"
  /\ epoch' = evm.tip + 1
  /\ UNCHANGED <<evm, rec, prev, collector, net, ghosts, faults>>

-----------------------------------------------------------------------------
(* The start of an epoch.                                                  *)

\* Mutant: every checkpoint is taken for an executed boundary.
AnyPhaseIsDone(c) == TRUE

\* Mutant: the canonical tip is not consulted after an early phase.
PhaseTells(c) == c.phase = "ExecutionComplete"

\* Whether the recovery of checkpoint c completes the transition: after an early
\* phase the canonical tip tells if the boundary was executed.
ExecutionDone(c) == c.phase = "ExecutionComplete" \/ evm.tip + 1 > c.epoch

\* recover_partial_transition
RecoverPartialTransition ==
  /\ pc = "boot"
  /\ IF db.cp = {}
     THEN pc' = "start" /\ UNCHANGED <<db, disk, torn>>
     ELSE LET c == RecoveryCheckpoint
          IN  IF ExecutionDone(c)
              THEN /\ pc' = "recover record"
                   /\ torn' = IF evm.tip < c.epoch /\ c.phase = "ExecutionComplete"
                              THEN torn \cup {c.epoch} ELSE torn
                   /\ UNCHANGED <<db, disk>>
              ELSE pc' = "start" /\ Write(ClearCheckpoint(db, c.epoch)) /\ UNCHANGED torn
  /\ UNCHANGED <<evm, epoch, rec, prev, collector, net, signed, faults>>

Later(a, b) == IF a > b THEN a ELSE b
Highest(S) == Max({r.epoch : r \in S} \cup {0})

\* resume_pending_certification: pending rows that are certified already are
\* dropped, old ones (all of them when the node is catching up) are asked of
\* peers, the others are signed and collected by one task.
ResumePendingCertification(catchingUp) ==
  LET stale == {r \in db.pend : Certified(db, r.epoch)}
      open == db.pend \ stale
      asked == {r \in open : catchingUp \/ r.epoch # Highest(db.pend)}
  IN  \E got \in SUBSET {r \in asked : r.epoch \in net /\ r = Agreed(r.epoch)} :
        /\ Write([db EXCEPT !.pend = open \ got, !.cert = @ \cup got])
        /\ states' = open \ got
        /\ counted' = {}
        /\ wanted' = Later(wanted, Highest(asked))
        /\ signed' = signed \cup (open \ got)

\* The rest of run_epoch before its select!.
StartEpoch ==
  /\ pc = "start"
  /\ prev' = IF rec # {} THEN rec ELSE prev
  /\ rec' = {}
  /\ \E catchingUp \in BOOLEAN : ResumePendingCertification(catchingUp)
  /\ pc' = "run"
  /\ UNCHANGED <<evm, epoch, net, torn, faults>>

\* A mode change ends the epoch's tasks and runs the same epoch again.
ModeTransition ==
  /\ pc = "run" /\ faults < MaxFaults
  /\ faults' = faults + 1
  /\ states' = {} /\ counted' = {}
  /\ evm' = [evm EXCEPT !.disk = evm.tip]
  /\ pc' = "boot"
  /\ UNCHANGED <<db, disk, epoch, rec, prev, wanted, net, ghosts>>

-----------------------------------------------------------------------------
(* Certification.                                                          *)

\* A quorum of the other validators certifies the record they agree on.
PeersCertify(e) ==
  /\ e \notin net
  /\ net' = net \cup {e}
  /\ UNCHANGED <<db, disk, evm, manager, collector, ghosts, faults>>

\* The task goes on with the records S and what was counted for them.
Collecting(S, votes) ==
  /\ states' = S
  /\ counted' = {v \in votes : Row(S, v.epoch) # {}}

\* A peer's signature on a record being collected; the certificate is saved as
\* soon as there are enough.
CountVote(p, r) ==
  /\ r \in states /\ r = Agreed(r.epoch)
  /\ [peer |-> p, epoch |-> r.epoch] \notin counted
  /\ IF Cardinality(Row(counted, r.epoch)) + 2 >= Quorum
     THEN /\ Write(SaveWithCert(db, r))
          /\ Collecting(states \ {r}, counted)
     ELSE /\ Collecting(states, counted \cup {[peer |-> p, epoch |-> r.epoch]})
          /\ UNCHANGED <<db, disk>>
  /\ UNCHANGED <<evm, manager, wanted, net, ghosts, faults>>

\* A signature on a record that is not collected here: its digest is resolved,
\* and a certified record of an epoch up to the newest pending one is saved if
\* it fits its parent.
ResolveForeignDigest(e) ==
  /\ states # {} /\ Agreed(e) \notin states
  /\ e <= Highest(states) /\ e \in net /\ ~Certified(db, e) /\ Certified(db, e - 1)
  /\ Write(SaveWithCert(db, Agreed(e)))
  /\ Collecting(IF e = Highest(states) THEN states \ Row(states, e) ELSE states, counted)
  /\ UNCHANGED <<evm, manager, wanted, net, ghosts, faults>>

\* A record that was certified in the background is done, at the fallback tick,
\* at a late vote for it or between two rounds of requests.
DropCertified ==
  /\ \E r \in states : Certified(db, r.epoch)
  /\ Collecting({r \in states : ~Certified(db, r.epoch)}, counted)
  /\ UNCHANGED <<db, disk, evm, manager, wanted, net, ghosts, faults>>

\* No quorum after the last fallback: the record collector is woken.
WakeCollector ==
  /\ wanted' = Later(wanted, Highest(states))
  /\ wanted' # wanted
  /\ UNCHANGED <<db, disk, evm, manager, states, counted, net, ghosts, faults>>

\* fetch_pending_cert_from_peers: the certified record of the epoch is taken
\* when it has the parent of ours, even if it is another record.
FetchPendingCert(r) ==
  /\ r \in states /\ ~Certified(db, r.epoch) /\ r.epoch \in net /\ ~r.orphan
  /\ Write(SaveWithCert(db, Agreed(r.epoch)))
  /\ Collecting(states \ {r}, counted)
  /\ UNCHANGED <<evm, manager, wanted, net, ghosts, faults>>

\* The record collector: the epoch after a record it holds, up to the one
\* requested, or a hole below the newest record.
CollectEpochRecord(e) ==
  /\ ~Certified(db, e) /\ Certified(db, e - 1) /\ e \in net
  /\ e <= wanted \/ e < Highest(db.cert)
  /\ Write(SaveWithCert(db, Agreed(e)))
  /\ UNCHANGED <<evm, manager, collector, net, ghosts, faults>>

\* A hole no peer can serve is passed when its committee attests the next record.
CollectPastHole(e) ==
  /\ ~Certified(db, e) /\ Certified(db, e - 1) /\ e \notin net /\ e <= wanted
  /\ e + 1 \in net /\ ~Certified(db, e + 1)
  /\ Write(SaveWithCert(db, Agreed(e + 1)))
  /\ UNCHANGED <<evm, manager, collector, net, ghosts, faults>>

-----------------------------------------------------------------------------
\* A crash at any point: the newest writes of either database may be lost.
Crash ==
  /\ faults < MaxFaults
  /\ faults' = faults + 1
  /\ \E d \in disk, tip \in evm.disk..evm.tip : Exit(d, tip)
  /\ UNCHANGED <<net, ghosts>>

Manager ==
  \/ ControlledShutdown \/ ExecuteBoundary \/ SaveExecutionComplete \/ FlushPersistence
  \/ BuildEpochRecord \/ SavePendingRecord \/ ClearConsensusDb \/ FinishTransition
  \/ RecoverPartialTransition \/ StartEpoch
Certify == \E r \in states : FetchPendingCert(r)

Next ==
  \/ StoreCertificates \/ DetectEpochBoundary \/ Manager
  \/ DrainTimeout \/ ExecutionTimeout \/ ModeTransition
  \/ \E e \in Epochs : PeersCertify(e) \/ ResolveForeignDigest(e)
                       \/ CollectEpochRecord(e) \/ CollectPastHole(e)
  \/ \E p \in Peer, r \in states : CountVote(p, r)
  \/ DropCertified \/ WakeCollector \/ Certify \/ Crash

\* The manager and the collection run, the other validators certify what they
\* closed, and requests for a record that peers hold succeed in the end.
Fairness ==
  /\ WF_vars(Manager) /\ WF_vars(Certify)
  /\ WF_vars(DropCertified) /\ WF_vars(WakeCollector)
  /\ WF_vars(\E e \in Epochs : PeersCertify(e))
  /\ WF_vars(\E e \in Epochs : CollectEpochRecord(e))

Spec == Init /\ [][Next]_vars /\ Fairness

-----------------------------------------------------------------------------
\* While an epoch runs, every earlier one has its record certified or pending in
\* whatever state a crash may leave, so that its certification can resume
\* (run_epoch_transition, recover_partial_transition, write_epoch_record).
ClosedKept ==
  pc = "run" =>
    \A d \in disk : \A e \in 1..(epoch - 1) : Row(d.pend, e) # {} \/ Certified(d, e)

\* The validator never signs a record that differs from the one its peers
\* build, whatever order crashes, recoveries and certificates come in, unless a
\* recovery took a lost boundary block for executed (write_epoch_record reads
\* the canonical tip).
SignsAgreed == torn = {} => \A r \in signed : r = Agreed(r.epoch)

\* A record that waits for its certificate gets one: the epoch's certificate is
\* stored in the end (certify_pending_epochs, resume_pending_certification and
\* the record collector).
PendingCertified ==
  \A e \in Epochs : (pc = "run" /\ Row(db.pend, e) # {}) ~> Certified(db, e)
=============================================================================
