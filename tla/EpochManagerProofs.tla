------------------------- MODULE EpochManagerProofs -------------------------
(***************************************************************************)
(* For any number of epochs, crashes, timeouts and mode changes: a closed  *)
(* epoch keeps its record, and the validator signs only records its peers  *)
(* agree with, unless a recovery took a lost boundary block for executed.  *)
(*                                                                         *)
(* A crash combines any state of the consensus database that may be on     *)
(* disk with any durable tip, so the invariant speaks of all of them: an   *)
(* epoch that is closed at the tip has its record, or the checkpoint of    *)
(* its transition from which the recovery builds it (Settled); there is at *)
(* most one checkpoint and it is of the tip or the epoch after it          *)
(* (Checkpoints).  Building the record needs the one before, certified or  *)
(* in memory (Near), which after a crash is the newest pending one: pending*)
(* records leave no hole below them (PendClosed) and none is more than one *)
(* epoch ahead of the tip (PendBound).                                     *)
(***************************************************************************)
EXTENDS EpochManager, TLAPS

Rec == [epoch : Nat, early : BOOLEAN, orphan : BOOLEAN]
Phase == {"BoundaryDetected", "ConsensusShutdown", "Draining", "ExecutionComplete"}
Checkpoint == [epoch : Nat \ {0}, phase : Phase]
Database == [cp : SUBSET Checkpoint, live : BOOLEAN, tail : Nat, pend : SUBSET Rec,
             cert : SUBSET Rec]

Closing == {"executed", "flush", "record", "save", "clear", "uncheck"}
Recover == {"recover record", "recover save", "recover clear", "recover uncheck"}

Typed ==
    /\ disk \subseteq Database /\ db \in disk
    /\ evm \in [tip : Nat, disk : Nat]
    /\ pc \in {"run", "shutdown", "execute", "boot", "start"} \cup Closing \cup Recover
    /\ epoch = IF pc \in Closing THEN evm.tip ELSE evm.tip + 1
    /\ evm.tip = IF pc \in {"executed", "flush"} THEN evm.disk + 1 ELSE evm.disk
    /\ pc \in Closing => evm.tip > 0
    /\ rec \subseteq Rec /\ prev \subseteq Rec /\ states \subseteq Rec

-----------------------------------------------------------------------------
(* What is true of every state of the database that may be on disk.         *)

Kept(d, e) == Row(d.pend, e) # {} \/ Certified(d, e)

\* At most one checkpoint, of the epoch at the tip or of the next one.
Checkpoints(d) ==
    /\ \A c, o \in d.cp : c = o
    /\ \A c \in d.cp : evm.tip <= c.epoch /\ c.epoch <= evm.disk + 1

PendBound(d) == \A r \in d.pend : 1 <= r.epoch /\ r.epoch <= evm.disk + 1
PendClosed(d) == \A r \in d.pend : \A e \in 1..(r.epoch - 1) : Kept(d, e)

Records(d) ==
    /\ Certified(d, 0)
    /\ \A r \in d.cert : r = Agreed(r.epoch)
    /\ torn = {} => \A r \in d.pend : r = Agreed(r.epoch)

AllKept(d) == \A e \in 1..evm.tip : Kept(d, e)
Settled(d) == \A e \in 1..evm.tip : Kept(d, e) \/ (e = evm.tip /\ Row(d.cp, e) # {})

DiskOk(d) == Checkpoints(d) /\ PendBound(d) /\ PendClosed(d) /\ Records(d) /\ Settled(d)

-----------------------------------------------------------------------------
(* What is true of the current one, and of the records in memory.           *)

\* The record of epoch e can be built, or is there already.
Before(d, p, e) == Certified(d, e - 1) \/ Row(p, e - 1) # {}
Near(d, p, e) ==
    \/ Before(d, p, e)
    \/ Kept(d, e) /\ (Certified(d, e) \/ Row(p, e) # {})

\* prev_epoch_record as the next epoch will find it.
Newest == IF rec # {} THEN rec ELSE prev

\* A transition, cut short or not, that has yet to write its record.
Unrecorded == Row(db.cp, evm.tip) # {} /\ ~Kept(db, evm.tip)
Resumable == IF Unrecorded THEN Before(db, prev, evm.tip) ELSE Near(db, Newest, evm.tip + 1)

ManagerOk ==
    /\ pc \in {"run", "start"} => db.cp = {}
    /\ pc = "run" => rec = {}
    /\ pc = "boot" => \A d \in disk : AllKept(d) \/ d.cp = db.cp
    /\ pc \in {"shutdown", "execute"} \cup Closing => Row(db.cp, epoch) = db.cp
    /\ pc = "execute" => \A d \in disk : Row(d.cp, epoch) # {}
    /\ pc \in {"boot", "recover record"} /\ db.cp # {} => rec = {}
    /\ pc \in Recover => \E c \in db.cp : c.epoch > evm.tip => c.epoch \in torn
    /\ pc \in {"run", "shutdown", "execute", "start", "recover uncheck"} =>
          \A d \in disk : AllKept(d)
    /\ pc \in {"clear", "uncheck", "recover clear"} => AllKept(db)
    /\ pc \in {"run", "shutdown", "execute", "executed", "flush", "record"} =>
          Near(db, prev, epoch)
    /\ pc \in {"save", "recover save"} => \E r \in rec : rec = {r} /\ r.epoch = ClosingEpoch
    /\ pc \in {"clear", "uncheck", "recover clear", "recover uncheck", "start"} =>
          Near(db, Newest, evm.tip + 1)
    /\ pc \in {"boot", "recover record"} => Resumable

MemoryAgreed ==
    torn = {} => \A r \in rec \cup prev \cup signed : r = Agreed(r.epoch)

IInv == Typed /\ (\A d \in disk : DiskOk(d)) /\ ManagerOk /\ MemoryAgreed

-----------------------------------------------------------------------------
(* The writes of the consensus database.                                    *)

\* The row of an epoch after it was replaced, removed or left alone.
LEMMA RowFacts ==
    ASSUME NEW T, NEW e
    PROVE  /\ Row(T, e) \subseteq T
           /\ \A f : f # e => Row(T \ Row(T, e), f) = Row(T, f)
           /\ Row(T \ Row(T, e), e) = {}
BY DEF Row

\* A checkpoint replaces the one of its epoch and nothing else.
LEMMA SaveCheckpointFacts ==
    ASSUME NEW d \in Database, NEW e \in Nat \ {0}, NEW ph \in Phase
    PROVE  /\ SaveCheckpoint(d, e, ph) \in Database
           /\ SaveCheckpoint(d, e, ph).cp = (d.cp \ Row(d.cp, e)) \cup {[epoch |-> e, phase |-> ph]}
           /\ SaveCheckpoint(d, e, ph).pend = d.pend
           /\ SaveCheckpoint(d, e, ph).cert = d.cert
<1>1. (d.cp \ Row(d.cp, e)) \cup {[epoch |-> e, phase |-> ph]} \in SUBSET Checkpoint
  BY RowFacts DEF Database, Checkpoint
<1> QED BY <1>1 DEF SaveCheckpoint, Database

\* Clearing a checkpoint touches nothing else.
LEMMA ClearCheckpointFacts ==
    ASSUME NEW d \in Database, NEW e
    PROVE  /\ ClearCheckpoint(d, e) \in Database
           /\ ClearCheckpoint(d, e).cp = d.cp \ Row(d.cp, e)
           /\ ClearCheckpoint(d, e).pend = d.pend
           /\ ClearCheckpoint(d, e).cert = d.cert
BY DEF ClearCheckpoint, Database

\* d2 holds all the records of d1, with more of them certified.
Grows(d1, d2) ==
    /\ d2.cp = d1.cp
    /\ d2.pend \subseteq d1.pend
    /\ \A r \in d2.cert : r \in d1.cert \/ r = Agreed(r.epoch)
    /\ \A e \in Nat : (Certified(d1, e) => Certified(d2, e)) /\ (Kept(d1, e) => Kept(d2, e))

\* Saving a certified record replaces the row of its epoch in both tables.
LEMMA SaveWithCertFacts ==
    ASSUME NEW d \in Database, NEW r \in Rec, r = Agreed(r.epoch)
    PROVE  SaveWithCert(d, r) \in Database /\ Grows(d, SaveWithCert(d, r))
<1> DEFINE s == SaveWithCert(d, r)
<1>1. /\ s \in Database /\ s.cp = d.cp
      /\ s.cert = (d.cert \ Row(d.cert, r.epoch)) \cup {r}
      /\ s.pend = d.pend \ Row(d.pend, r.epoch)
  BY Zenon DEF SaveWithCert, Database
<1> HIDE DEF s
<1>2. \A e : (Certified(d, e) => Certified(s, e)) /\ (Kept(d, e) => Kept(s, e))
  BY <1>1 DEF Certified, Kept, Row
<1>3. \A x \in s.cert : x \in d.cert \/ x = Agreed(x.epoch)
  BY <1>1
<1>4. s.pend \subseteq d.pend
  BY <1>1
<1>5. Grows(d, s)
  BY <1>1, <1>2, <1>3, <1>4 DEF Grows
<1> QED BY <1>1, <1>5 DEF s

\* Saving a pending record only adds to what is kept.
LEMMA SavePendingFacts ==
    ASSUME NEW d \in Database, NEW r \in Rec
    PROVE  LET s == SavePending(d, r) IN
           /\ s \in Database /\ s.cp = d.cp /\ s.cert = d.cert
           /\ \A x \in s.pend : x \in d.pend \/ x = r
           /\ \A e : (Certified(d, e) <=> Certified(s, e)) /\ (Kept(d, e) => Kept(s, e))
           /\ Kept(s, r.epoch)
<1> DEFINE s == SavePending(d, r)
<1>1. /\ s \in Database /\ s.cp = d.cp /\ s.cert = d.cert
      /\ s.pend = (d.pend \ Row(d.pend, r.epoch)) \cup {r}
  BY DEF SavePending, Database
<1> HIDE DEF s
<1>2. \A e : (Certified(d, e) <=> Certified(s, e)) /\ (Kept(d, e) => Kept(s, e))
  BY <1>1 DEF Certified, Kept, Row
<1>3. Kept(s, r.epoch) /\ \A x \in s.pend : x \in d.pend \/ x = r
  BY <1>1 DEF Kept, Row
<1> QED BY <1>1, <1>2, <1>3 DEF s

\* Moving the live tables to the tail leaves checkpoints and records alone.
LEMMA ClearTablesFacts ==
    ASSUME NEW d \in Database, NEW e \in Nat
    PROVE  /\ ClearTables(d, e) \in Database /\ ClearTables(d, e).cp = d.cp
           /\ ClearTables(d, e).pend = d.pend /\ ClearTables(d, e).cert = d.cert
BY Zenon DEF ClearTables, Database

-----------------------------------------------------------------------------
(* The invariant of a state of the database that may be on disk.            *)

\* It only speaks of the tables, the tips and the torn epochs.
LEMMA DiskStable ==
    ASSUME NEW d, DiskOk(d), evm' = evm, torn \subseteq torn'
    PROVE  DiskOk(d)'
BY DEF DiskOk, Checkpoints, PendBound, PendClosed, Records, Settled, Kept, Certified

\* It holds of a database with the same records and checked checkpoints.
LEMMA SameRecords ==
    ASSUME NEW d, NEW s, DiskOk(d), s.pend = d.pend, s.cert = d.cert,
           Checkpoints(s), Settled(s)
    PROVE  DiskOk(s)
BY DEF DiskOk, PendBound, PendClosed, Records, Kept, Certified

\* It holds of a database that holds more.
LEMMA GrowsOk ==
    ASSUME NEW d, NEW s, DiskOk(d), Grows(d, s), evm \in [tip : Nat, disk : Nat],
           \A r \in d.pend : r.epoch \in Nat
    PROVE  DiskOk(s) /\ (AllKept(d) => AllKept(s))
<1>1. Checkpoints(s) /\ PendBound(s)
  BY DEF Grows, DiskOk, Checkpoints, PendBound
<1>2. PendClosed(s)
  BY DEF Grows, DiskOk, PendClosed
<1>3. Records(s)
  BY DEF Grows, DiskOk, Records
<1>4. Settled(s) /\ (AllKept(d) => AllKept(s))
  BY DEF Grows, DiskOk, Settled, AllKept
<1> QED BY <1>1, <1>2, <1>3, <1>4 DEF DiskOk

\* A record that a larger database keeps and the smaller one does not is
\* certified.
LEMMA GrowsNear ==
    ASSUME NEW d, NEW s, Grows(d, s), NEW p, NEW e \in Nat
    PROVE  /\ Kept(s, e) /\ ~Kept(d, e) => Certified(s, e)
           /\ e > 0 => (Before(d, p, e) => Before(s, p, e)) /\ (Near(d, p, e) => Near(s, p, e))
<1>1. Kept(s, e) /\ ~Kept(d, e) => Certified(s, e)
  BY DEF Grows, Kept, Row
<1>2. ASSUME e > 0 PROVE e - 1 \in Nat
  BY <1>2
<1> QED BY <1>1, <1>2 DEF Grows, Before, Near

\* The record after that of epoch t can be built on it.
LEMMA NearNext ==
    ASSUME NEW d, NEW p, NEW t \in Nat, Certified(d, t) \/ Row(p, t) # {}
    PROVE  Near(d, p, t + 1)
<1>1. (t + 1) - 1 = t
  OBVIOUS
<1>2. Before(d, p, t + 1)
  BY <1>1, Zenon DEF Before
<1> QED BY <1>2 DEF Near

-----------------------------------------------------------------------------
(* Steps that leave the manager alone.                                      *)

\* Signatures, certificates of peers and requests change no record.
LEMMA NoWriteKeeps ==
    ASSUME IInv, UNCHANGED <<db, disk, evm, manager, ghosts>>, states' \subseteq Rec
    PROVE  IInv'
<1>1. UNCHANGED <<db, disk, evm, pc, epoch, rec, prev, signed, torn>>
  BY DEF manager, ghosts
<1>2. Typed'
  BY <1>1 DEF IInv, Typed
<1>3. \A d \in disk' : DiskOk(d)'
  BY <1>1, DiskStable DEF IInv
<1>4. ManagerOk'
  <2>1. \A d : AllKept(d)' <=> AllKept(d)
    BY <1>1 DEF AllKept, Kept, Certified
  <2>2. Newest' = Newest /\ ClosingEpoch' = ClosingEpoch
    BY <1>1 DEF Newest, ClosingEpoch, Recovering, RecoveryCheckpoint
  <2>3. /\ Near(db, prev, epoch)' <=> Near(db, prev, epoch)
        /\ Near(db, Newest, evm.tip + 1)' <=> Near(db, Newest, evm.tip + 1)
    BY <1>1, <2>2 DEF Near, Before, Kept, Certified
  <2>4. Resumable' <=> Resumable
    BY <1>1, <2>3 DEF Resumable, Unrecorded, Before, Kept, Certified
  <2> QED BY <1>1, <2>1, <2>2, <2>3, <2>4, ZenonT(30) DEF IInv, ManagerOk
<1>5. MemoryAgreed'
  BY <1>1 DEF IInv, MemoryAgreed
<1> QED BY <1>2, <1>3, <1>4, <1>5 DEF IInv

\* A certified record may be saved at any time, by the collection task, by the
\* record collector or for a build.
LEMMA GrowKeeps ==
    ASSUME IInv, NEW s \in Database, Grows(db, s), Write(s),
           UNCHANGED <<evm, manager, ghosts>>, states' \subseteq Rec
    PROVE  IInv'
<1>1. /\ UNCHANGED <<evm, pc, epoch, rec, prev, signed, torn>>
      /\ db' = s /\ disk' = disk \cup {s} /\ s.cp = db.cp
  BY DEF manager, ghosts, Write, Grows
<1>2. Typed'
  BY <1>1 DEF IInv, Typed
<1>t. evm \in [tip : Nat, disk : Nat] /\ \A r \in db.pend : r.epoch \in Nat
  BY DEF IInv, Typed, Database, Rec
<1>3. DiskOk(s) /\ (AllKept(db) => AllKept(s))
  BY <1>t, GrowsOk DEF IInv, Typed
<1>4. \A d \in disk' : DiskOk(d)'
  BY <1>1, <1>3, DiskStable DEF IInv
<1>5. \A d : AllKept(d)' <=> AllKept(d)
  BY <1>1 DEF AllKept, Kept, Certified
<1>6. /\ epoch \in Nat /\ epoch > 0 /\ evm.tip \in Nat /\ evm.tip + 1 \in Nat
      /\ Newest' = Newest /\ ClosingEpoch' = ClosingEpoch
  <2>1. epoch \in Nat /\ epoch > 0 /\ evm.tip \in Nat /\ evm.tip + 1 \in Nat
    BY <1>t DEF IInv, Typed
  <2>2. Newest' = Newest
    BY <1>1 DEF Newest
  <2>3. ClosingEpoch' = ClosingEpoch
    BY <1>1 DEF ClosingEpoch, Recovering, RecoveryCheckpoint
  <2> QED BY <2>1, <2>2, <2>3
<1>7. /\ Near(db, prev, epoch) => Near(s, prev, epoch)
      /\ Near(db, Newest, evm.tip + 1) => Near(s, Newest, evm.tip + 1)
  BY <1>6, GrowsNear
<1>8. Resumable => Resumable'
  <2> SUFFICES ASSUME Resumable PROVE Resumable'
    OBVIOUS
  <2>1. CASE Unrecorded /\ ~Kept(s, evm.tip)
    <3>1. Row(db.cp, evm.tip) # {}
      BY <2>1 DEF Unrecorded
    <3>2. PICK c \in db.cp : c.epoch = evm.tip
      BY <3>1 DEF Row
    <3>3. evm.tip > 0
      BY <1>6, <3>2 DEF IInv, Typed, Database, Checkpoint
    <3>4. Before(s, prev, evm.tip)
      BY <2>1, <3>3, <1>6, GrowsNear, SMTT(30) DEF Resumable
    <3> QED BY <1>1, <2>1, <3>4 DEF Resumable, Unrecorded, Kept, Certified, Before
  <2>2. CASE Unrecorded /\ Kept(s, evm.tip)
    <3>1. Certified(s, evm.tip)
      BY <1>6, <2>2, GrowsNear DEF Unrecorded
    <3>3. Near(s, Newest, evm.tip + 1)
      BY <1>6, <3>1, NearNext, ZenonT(30)
    <3> QED BY <1>1, <1>6, <2>2, <3>3 DEF Resumable, Unrecorded, Kept, Certified, Near, Before
  <2>3. CASE ~Unrecorded
    <3>1. Near(s, Newest, evm.tip + 1)
      BY <1>7, <2>3 DEF Resumable
    <3>2. Kept(db, evm.tip) => Kept(s, evm.tip)
      BY <1>6 DEF Grows
    <3> QED BY <1>1, <1>6, <2>3, <3>1, <3>2 DEF Resumable, Unrecorded, Kept, Certified, Near, Before
  <2> QED BY <2>1, <2>2, <2>3
<1>9. ManagerOk'
  <2>1. /\ Near(db, prev, epoch)' <=> Near(s, prev, epoch)
        /\ Near(db, Newest, evm.tip + 1)' <=> Near(s, Newest, evm.tip + 1)
    BY <1>1, <1>6 DEF Near, Before, Kept, Certified
  <2>2. pc \in {"run", "shutdown", "execute", "start", "recover uncheck"} =>
          \A d \in disk' : AllKept(d)'
    BY <1>1, <1>3, <1>5, Zenon DEF IInv, ManagerOk, Typed
  <2>3. pc \in {"clear", "uncheck", "recover clear"} => AllKept(db)'
    BY <1>1, <1>3, Zenon DEF IInv, ManagerOk, AllKept, Kept, Certified
  <2>4. pc = "execute" => \A d \in disk' : Row(d.cp, epoch) # {}
    BY <1>1, SMTT(30) DEF IInv, ManagerOk, Typed
  <2>5. pc = "boot" => \A d \in disk' : AllKept(d)' \/ d.cp = db'.cp
    BY <1>1, <1>5, SMTT(30) DEF IInv, ManagerOk
  <2> QED BY <1>1, <1>6, <1>7, <1>8, <2>1, <2>2, <2>3, <2>4, <2>5, ZenonT(30) DEF IInv, ManagerOk
<1>10. MemoryAgreed'
  BY <1>1 DEF IInv, MemoryAgreed
<1> QED BY <1>2, <1>4, <1>9, <1>10 DEF IInv

\* What the collection task works on stays a set of records.
LEMMA CollectingType ==
    ASSUME NEW S, S \subseteq Rec, NEW v, Collecting(S, v)
    PROVE  states' \subseteq Rec
BY DEF Collecting

\* Certification: the votes that are counted, the certified records that are
\* fetched, resolved or collected.
LEMMA CertificationKeeps ==
    ASSUME IInv,
           \/ \E e \in Epochs : PeersCertify(e) \/ ResolveForeignDigest(e)
                                \/ CollectEpochRecord(e) \/ CollectPastHole(e)
           \/ \E p \in Peer, r \in states : CountVote(p, r)
           \/ DropCertified \/ WakeCollector \/ Certify
    PROVE  IInv'
<1>0. db \in Database /\ states \subseteq Rec /\ \A e \in Nat : Agreed(e) \in Rec /\ Agreed(e).epoch = e
  BY DEF IInv, Typed, Agreed, Record, Rec
<1>1. ASSUME NEW r \in Rec, r = Agreed(r.epoch), Write(SaveWithCert(db, r)), states' \subseteq Rec,
             UNCHANGED <<evm, manager, ghosts>>
      PROVE  IInv'
  BY <1>0, <1>1, SaveWithCertFacts, GrowKeeps
<1>2. ASSUME NEW e \in Epochs, PeersCertify(e) PROVE IInv'
  BY <1>0, <1>2, NoWriteKeeps DEF PeersCertify, collector
<1>e. \A e \in Epochs : e \in Nat /\ e + 1 \in Nat
  BY BoundAssumption DEF Epochs
<1>3. ASSUME NEW e \in Epochs, ResolveForeignDigest(e) PROVE IInv'
  <2>1. states' \subseteq Rec
    BY <1>0, <1>3, CollectingType DEF ResolveForeignDigest
  <2> QED BY <1>0, <1>1, <1>3, <1>e, <2>1 DEF ResolveForeignDigest
<1>4. ASSUME NEW e \in Epochs, CollectEpochRecord(e) \/ CollectPastHole(e) PROVE IInv'
  BY <1>0, <1>1, <1>4, <1>e DEF CollectEpochRecord, CollectPastHole, collector
<1>5. ASSUME NEW p \in Peer, NEW r \in states, CountVote(p, r) PROVE IInv'
  <2>1. states' \subseteq Rec
    BY <1>0, <1>5, CollectingType DEF CountVote
  <2>2. CASE Write(SaveWithCert(db, r))
    BY <1>0, <1>1, <1>5, <2>1, <2>2 DEF CountVote
  <2>3. CASE UNCHANGED <<db, disk>>
    BY <1>5, <2>1, <2>3, NoWriteKeeps DEF CountVote
  <2> QED BY <1>5, <2>2, <2>3 DEF CountVote
<1>6. ASSUME DropCertified PROVE IInv'
  <2>1. states' \subseteq Rec
    BY <1>0, <1>6, CollectingType DEF DropCertified
  <2> QED BY <1>6, <2>1, NoWriteKeeps DEF DropCertified
<1>7. ASSUME WakeCollector PROVE IInv'
  BY <1>0, <1>7, NoWriteKeeps DEF WakeCollector
<1>8. ASSUME NEW r \in states, FetchPendingCert(r) PROVE IInv'
  <2>1. states' \subseteq Rec
    BY <1>0, <1>8, CollectingType DEF FetchPendingCert
  <2>2. r.epoch \in Nat
    BY <1>0 DEF Rec
  <2> QED BY <1>0, <1>1, <1>8, <2>1, <2>2 DEF FetchPendingCert
<1> QED BY <1>2, <1>3, <1>4, <1>5, <1>6, <1>7, <1>8 DEF Certify

-----------------------------------------------------------------------------
(* The end of a process.                                                    *)

\* After a start on database d and tip t the record of the epoch before can be
\* found: certified, or as the newest pending one.
LEMMA NewestPending ==
    ASSUME NEW d \in Database, NEW t \in Nat, NEW p,
           p = {r \in d.pend : \A s \in d.pend : s.epoch <= r.epoch},
           \A r \in d.pend : 1 <= r.epoch /\ r.epoch <= t + 1, PendClosed(d), Certified(d, 0),
           \A e \in 1..t : Kept(d, e) \/ (e = t /\ Row(d.cp, e) # {})
    PROVE  /\ Kept(d, t) => Near(d, p, t + 1)
           /\ ~Kept(d, t) => t > 0 /\ Before(d, p, t)
<1>0. \A r \in d.pend : r.epoch \in Nat
  BY DEF Database, Rec
<1>1. ASSUME Kept(d, t) PROVE Near(d, p, t + 1)
  <2>1. CASE Certified(d, t)
    BY <2>1, NearNext, Zenon
  <2>2. CASE \E r \in d.pend : r.epoch = t + 1
    <3>1. PICK r \in d.pend : r.epoch = t + 1
      BY <2>2
    <3>2. r \in p
      BY <1>0, <3>1
    <3>3. Row(p, t + 1) # {} /\ Row(d.pend, t + 1) # {}
      BY <3>1, <3>2 DEF Row
    <3> QED BY <3>3 DEF Near, Kept
  <2>3. CASE ~Certified(d, t) /\ ~\E r \in d.pend : r.epoch = t + 1
    <3>1. PICK r \in d.pend : r.epoch = t
      BY <1>1, <2>3 DEF Kept, Row
    <3>2. r \in p
      BY <1>0, <2>3, <3>1
    <3>3. Row(p, t) # {}
      BY <3>1, <3>2 DEF Row
    <3> QED BY <3>3, NearNext, Zenon
  <2> QED BY <2>1, <2>2, <2>3
<1>2. ASSUME ~Kept(d, t) PROVE t > 0 /\ Before(d, p, t)
  <2>1. t > 0
    BY <1>2 DEF Kept
  <2>2. \A r \in d.pend : r.epoch < t
    <3> SUFFICES ASSUME NEW r \in d.pend, r.epoch >= t PROVE FALSE
      BY <1>0
    <3>1. CASE r.epoch = t
      BY <1>2, <3>1 DEF Kept, Row
    <3>2. CASE r.epoch > t
      <4>1. t \in 1..(r.epoch - 1)
        BY <1>0, <2>1, <3>2
      <4> QED BY <1>2, <4>1 DEF PendClosed
    <3> QED BY <1>0, <3>1, <3>2
  <2>3. CASE Certified(d, t - 1)
    BY <2>1, <2>3 DEF Before
  <2>4. CASE ~Certified(d, t - 1)
    <3>1. t - 1 \in 1..t
      BY <2>1, <2>4
    <3>2. PICK r \in d.pend : r.epoch = t - 1
      BY <2>4, <3>1 DEF Kept, Row
    <3>3. r \in p
      BY <1>0, <2>2, <3>2
    <3> QED BY <2>1, <3>2, <3>3 DEF Before, Row
  <2> QED BY <2>1, <2>3, <2>4
<1> QED BY <1>1, <1>2

\* The process ends and starts again on database d and tip t.
LEMMA ExitKeeps ==
    ASSUME IInv, NEW d \in Database, NEW t \in Nat, Exit(d, t), UNCHANGED ghosts,
           \A c, o \in d.cp : c = o, \A c \in d.cp : t <= c.epoch /\ c.epoch <= t + 1,
           \A r \in d.pend : 1 <= r.epoch /\ r.epoch <= t + 1, PendClosed(d), Records(d),
           \A e \in 1..t : Kept(d, e) \/ (e = t /\ Row(d.cp, e) # {})
    PROVE  IInv'
<1>1. /\ db' = d /\ disk' = {d} /\ evm' = [tip |-> t, disk |-> t] /\ pc' = "boot"
      /\ epoch' = t + 1 /\ rec' = {} /\ states' = {} /\ signed' = signed /\ torn' = torn
      /\ prev' = {r \in d.pend : \A s \in d.pend : s.epoch <= r.epoch}
  BY DEF Exit, Persist, ghosts
<1>2. evm'.tip = t /\ evm'.disk = t
  BY <1>1
<1>3. Typed'
  BY <1>1, <1>2, SMTT(30) DEF Typed, Closing, Recover, Database
<1>4. DiskOk(d)'
  <2>1. Checkpoints(d)' /\ PendBound(d)'
    BY <1>2, SMTT(30) DEF Checkpoints, PendBound
  <2>2. PendClosed(d)' /\ Records(d)'
    BY <1>1, SMTT(30) DEF PendClosed, Records, Kept, Certified
  <2>3. Settled(d)'
    BY <1>2, SMTT(30) DEF Settled, Kept, Certified
  <2> QED BY <2>1, <2>2, <2>3, SMTT(30) DEF DiskOk
<1>5. Resumable'
  <2>1. /\ Kept(d, t) => Near(d, prev', t + 1)
        /\ ~Kept(d, t) => t > 0 /\ Before(d, prev', t)
    BY <1>1, NewestPending, Zenon DEF Records
  <2>2. ~Kept(d, t) => Row(d.cp, t) # {}
    BY <2>1, SMTT(30)
  <2>3. Newest' = prev'
    BY <1>1, SMTT(30) DEF Newest
  <2> QED BY <1>1, <1>2, <2>1, <2>2, <2>3, Zenon DEF Resumable, Unrecorded, Near, Before, Kept, Certified
<1>6. ManagerOk'
  BY <1>1, <1>5, SMTT(30) DEF ManagerOk, Closing, Recover
<1>7. MemoryAgreed'
  BY <1>1 DEF IInv, MemoryAgreed, Records
<1> QED BY <1>1, <1>3, <1>4, <1>6, <1>7, SMTT(30) DEF IInv

\* Crashes and timeouts.
LEMMA StopKeeps ==
    ASSUME IInv, DrainTimeout \/ ExecutionTimeout \/ Crash
    PROVE  IInv'
<1>0. /\ disk \subseteq Database /\ db \in disk /\ evm.tip \in Nat /\ evm.disk \in Nat
      /\ \A d \in disk : DiskOk(d) /\ \A r \in d.pend : r.epoch \in Nat
      /\ \A d \in disk : \A c \in d.cp : c.epoch \in Nat
  BY SMTT(30) DEF IInv, Typed, Database, Rec, Checkpoint
<1>1. ASSUME DrainTimeout PROVE IInv'
  <2> DEFINE d == ClearCheckpoint(db, epoch)
  <2>1. d \in Database /\ d.cp = db.cp \ Row(db.cp, epoch) /\ d.pend = db.pend /\ d.cert = db.cert
    BY <1>0, ClearCheckpointFacts
  <2>2. Exit(d, evm.tip) /\ UNCHANGED ghosts /\ pc = "shutdown"
    BY <1>1, SMTT(30) DEF DrainTimeout
  <2> HIDE DEF d
  <2>3. d.cp = {} /\ AllKept(db) /\ evm.disk = evm.tip
    BY <1>0, <2>1, <2>2 DEF IInv, ManagerOk, Typed
  <2>4. DiskOk(db)
    BY <1>0, SMTT(30)
  <2>5. PendClosed(d) /\ Records(d)
    BY <2>1, <2>4 DEF DiskOk, PendClosed, Records, Kept, Certified
  <2>6. \A e \in 1..evm.tip : Kept(d, e)
    BY <2>1, <2>3 DEF AllKept, Kept, Certified
  <2>7. \A r \in d.pend : 1 <= r.epoch /\ r.epoch <= evm.tip + 1
    BY <2>1, <2>3, <2>4 DEF DiskOk, PendBound
  <2> QED BY <1>0, <2>1, <2>2, <2>3, <2>5, <2>6, <2>7, ExitKeeps, SMTT(30)
<1>2. ASSUME ExecutionTimeout PROVE IInv'
  <2>1. PICK t \in {evm.tip, epoch} : Exit(db, t) /\ UNCHANGED ghosts /\ pc = "execute"
    BY <1>2, SMTT(30) DEF ExecutionTimeout
  <2>2. /\ epoch = evm.tip + 1 /\ evm.disk = evm.tip /\ AllKept(db)
        /\ Row(db.cp, epoch) # {}
    BY <1>0, <2>1 DEF IInv, ManagerOk, Typed, Closing
  <2>3. DiskOk(db) /\ t \in Nat /\ db \in Database
    BY <1>0, <2>2
  <2>4. \A c \in db.cp : c.epoch = epoch
    BY <2>2, <2>3 DEF DiskOk, Checkpoints, Row
  <2>5. \A c, o \in db.cp : c = o
    BY <2>3 DEF DiskOk, Checkpoints
  <2>6. \A c \in db.cp : t <= c.epoch /\ c.epoch <= t + 1
    BY <1>0, <2>2, <2>4, SMTT(30)
  <2>7. \A r \in db.pend : 1 <= r.epoch /\ r.epoch <= t + 1
    BY <1>0, <2>2, <2>3 DEF DiskOk, PendBound
  <2>8. \A e \in 1..t : Kept(db, e) \/ (e = t /\ Row(db.cp, e) # {})
    BY <1>0, <2>2, SMTT(30) DEF AllKept
  <2> QED BY <2>1, <2>3, <2>5, <2>6, <2>7, <2>8, ExitKeeps DEF DiskOk
<1>3. ASSUME Crash PROVE IInv'
  <2>1. PICK d \in disk, t \in evm.disk..evm.tip : Exit(d, t)
    BY <1>3 DEF Crash
  <2>2. DiskOk(d) /\ d \in Database /\ t \in Nat /\ evm.tip <= evm.disk + 1
    BY <1>0 DEF IInv, Typed
  <2>3. \A c, o \in d.cp : c = o
    BY <2>2 DEF DiskOk, Checkpoints
  <2>4. \A c \in d.cp : t <= c.epoch /\ c.epoch <= t + 1
    BY <1>0, <2>2 DEF DiskOk, Checkpoints
  <2>5. \A r \in d.pend : 1 <= r.epoch /\ r.epoch <= t + 1
    BY <1>0, <2>2 DEF DiskOk, PendBound
  <2>6. \A e \in 1..t : Kept(d, e) \/ (e = t /\ Row(d.cp, e) # {})
    BY <1>0, <2>2 DEF DiskOk, Settled
  <2> QED BY <1>3, <2>1, <2>2, <2>3, <2>4, <2>5, <2>6, ExitKeeps DEF DiskOk, Crash
<1> QED BY <1>1, <1>2, <1>3

-----------------------------------------------------------------------------
(* The transition, up to the record.                                        *)

\* What every step of the manager starts from.
LEMMA StepFacts ==
    ASSUME IInv
    PROVE  /\ disk \subseteq Database /\ db \in disk /\ db \in Database
           /\ evm \in [tip : Nat, disk : Nat] /\ evm.tip \in Nat /\ evm.disk \in Nat /\ epoch \in Nat
           /\ epoch > 0 /\ evm.disk <= evm.tip /\ evm.tip <= evm.disk + 1
           /\ DiskOk(db) /\ \A d \in disk : DiskOk(d)
           /\ \A d \in disk : (\A r \in d.pend : r.epoch \in Nat) /\ (\A c \in d.cp : c.epoch \in Nat \ {0})
           /\ rec \subseteq Rec /\ prev \subseteq Rec /\ states \subseteq Rec
<1>1. \A d \in disk : (\A r \in d.pend : r.epoch \in Nat) /\ (\A c \in d.cp : c.epoch \in Nat \ {0})
  BY DEF IInv, Typed, Database, Rec, Checkpoint
<1> QED BY <1>1 DEF IInv, Typed

\* The checkpoint that starts a transition.
LEMMA DetectKeeps ==
    ASSUME IInv, DetectEpochBoundary
    PROVE  IInv'
<1> DEFINE s == SaveCheckpoint(db, epoch, "BoundaryDetected")
<1>0. /\ db' = s /\ disk' = disk \cup {s} /\ pc = "run" /\ pc' = "shutdown"
      /\ UNCHANGED <<evm, epoch, rec, prev, states, signed, torn>>
  BY DEF DetectEpochBoundary, Write, collector, ghosts
<1>1. /\ s \in Database /\ s.pend = db.pend /\ s.cert = db.cert
      /\ s.cp = (db.cp \ Row(db.cp, epoch)) \cup {[epoch |-> epoch, phase |-> "BoundaryDetected"]}
  <2>1. db \in Database /\ epoch \in Nat \ {0} /\ "BoundaryDetected" \in Phase
    BY StepFacts DEF Phase
  <2> QED BY <2>1, SaveCheckpointFacts
<1> HIDE DEF s
<1>2. /\ db.cp = {} /\ epoch = evm.tip + 1 /\ evm.disk = evm.tip
      /\ (\A d \in disk : AllKept(d)) /\ Near(db, prev, epoch)
  BY <1>0 DEF IInv, ManagerOk, Typed, Closing
<1>3. s.cp = {[epoch |-> epoch, phase |-> "BoundaryDetected"]}
  BY <1>1, <1>2 DEF Row
<1>4. Typed'
  BY <1>0, <1>1, SMTT(30) DEF IInv, Typed, Closing, Recover
<1>5. Checkpoints(s)
  BY <1>2, <1>3, StepFacts DEF Checkpoints
<1>6. AllKept(s)
  BY <1>1, <1>2, StepFacts DEF AllKept, Kept, Certified
<1>7. DiskOk(s)
  BY <1>1, <1>5, <1>6, StepFacts, SameRecords DEF Settled, AllKept
<1>8. \A d \in disk' : DiskOk(d)'
  BY <1>0, <1>7, DiskStable, SMTT(30) DEF IInv
<1>9. ManagerOk'
  <2>1. \A d \in disk' : AllKept(d)'
    BY <1>0, <1>2, <1>6, SMTT(30) DEF AllKept, Kept, Certified
  <2>2. Near(db, prev, epoch)'
    BY <1>0, <1>1, <1>2 DEF Near, Before, Kept, Certified
  <2>3. Row(s.cp, epoch) = s.cp
    BY <1>3 DEF Row
  <2> QED BY <1>0, <2>1, <2>2, <2>3 DEF ManagerOk, Closing, Recover
<1>10. MemoryAgreed'
  BY <1>0 DEF IInv, MemoryAgreed
<1> QED BY <1>4, <1>8, <1>9, <1>10 DEF IInv

\* The checkpoint is made durable before the boundary can be executed.
LEMMA ShutdownKeeps ==
    ASSUME IInv, ControlledShutdown
    PROVE  IInv'
<1> DEFINE u == SaveCheckpoint(db, epoch, "ConsensusShutdown")
           s == SaveCheckpoint(u, epoch, "Draining")
<1>0. /\ db' = s /\ disk' = {s} /\ pc = "shutdown" /\ pc' = "execute" /\ states' = {}
      /\ UNCHANGED <<epoch, rec, prev, signed, torn>>
      /\ evm' = [evm EXCEPT !.disk = evm.tip]
  BY SMTT(30) DEF ControlledShutdown, Persist, ghosts
<1>1. /\ u \in Database /\ u.pend = db.pend /\ u.cert = db.cert
      /\ u.cp = (db.cp \ Row(db.cp, epoch)) \cup {[epoch |-> epoch, phase |-> "ConsensusShutdown"]}
  <2>1. db \in Database /\ epoch \in Nat \ {0} /\ "ConsensusShutdown" \in Phase
    BY StepFacts, SMTT(30) DEF Phase
  <2> QED BY <2>1, SaveCheckpointFacts
<1>2. /\ s \in Database /\ s.pend = u.pend /\ s.cert = u.cert
      /\ s.cp = (u.cp \ Row(u.cp, epoch)) \cup {[epoch |-> epoch, phase |-> "Draining"]}
  <2>1. u \in Database /\ epoch \in Nat \ {0} /\ "Draining" \in Phase
    BY <1>1, StepFacts DEF Phase
  <2> HIDE DEF u
  <2> QED BY <2>1, SaveCheckpointFacts, SMTT(30)
<1> HIDE DEF s, u
<1>3. /\ Row(db.cp, epoch) = db.cp /\ epoch = evm.tip + 1 /\ evm.disk = evm.tip
      /\ AllKept(db) /\ Near(db, prev, epoch)
  BY <1>0, StepFacts, SMTT(30) DEF IInv, ManagerOk, Typed, Closing
<1>4. s.cp = {[epoch |-> epoch, phase |-> "Draining"]}
  BY <1>1, <1>2, <1>3 DEF Row
<1>5. evm' = evm
  BY <1>0, <1>3, StepFacts
<1>6. Typed'
  BY <1>0, <1>2, <1>5, SMTT(30) DEF IInv, Typed, Closing, Recover
<1>7. Checkpoints(s)
  BY <1>3, <1>4, StepFacts, SMTT(30) DEF Checkpoints
<1>8. AllKept(s)
  BY <1>1, <1>2, <1>3, SMTT(30) DEF AllKept, Kept, Certified
<1>9. DiskOk(s)
  BY <1>1, <1>2, <1>7, <1>8, StepFacts, SameRecords DEF Settled, AllKept
<1>10. \A d \in disk' : DiskOk(d)'
  BY <1>0, <1>5, <1>9, DiskStable
<1>11. ManagerOk'
  <2>1. \A d \in disk' : AllKept(d)'
    BY <1>0, <1>5, <1>8 DEF AllKept, Kept, Certified
  <2>2. Near(db, prev, epoch)'
    BY <1>0, <1>1, <1>2, <1>3 DEF Near, Before, Kept, Certified
  <2>3. Row(s.cp, epoch) = s.cp /\ Row(s.cp, epoch) # {}
    <3>1. Row(s.cp, epoch) = s.cp
      BY <1>4 DEF Row
    <3> QED BY <1>4, <3>1, Zenon
  <2> QED BY <1>0, <2>1, <2>2, <2>3 DEF ManagerOk, Closing, Recover
<1>12. MemoryAgreed'
  BY <1>0 DEF IInv, MemoryAgreed
<1> QED BY <1>6, <1>10, <1>11, <1>12 DEF IInv

\* The boundary is executed: an epoch closes at the tip, and every state of the
\* database that may be on disk has the checkpoint of its transition.
LEMMA ExecuteKeeps ==
    ASSUME IInv, ExecuteBoundary
    PROVE  IInv'
<1>0. /\ pc = "execute" /\ pc' = "executed" /\ evm' = [evm EXCEPT !.tip = epoch]
      /\ UNCHANGED <<db, disk, epoch, rec, prev, states, signed, torn>>
  BY DEF ExecuteBoundary, collector, ghosts
<1>1. /\ epoch = evm.tip + 1 /\ evm.disk = evm.tip /\ Near(db, prev, epoch)
      /\ \A d \in disk : AllKept(d) /\ Row(d.cp, epoch) # {}
      /\ Row(db.cp, epoch) = db.cp
  BY <1>0, StepFacts DEF IInv, ManagerOk, Typed, Closing
<1>2. evm'.tip = epoch /\ evm'.disk = evm.disk /\ evm' \in [tip : Nat, disk : Nat]
  BY <1>0, StepFacts
<1>3. Typed'
  BY <1>0, <1>1, <1>2, StepFacts DEF IInv, Typed, Closing, Recover
<1>4. ASSUME NEW d \in disk PROVE DiskOk(d)'
  <2>1. DiskOk(d) /\ AllKept(d) /\ Row(d.cp, epoch) # {}
    BY <1>1, StepFacts
  <2>2. \A c \in d.cp : c.epoch = epoch
    BY <2>1, SMTT(30) DEF DiskOk, Checkpoints, Row
  <2>3. Checkpoints(d)' /\ PendBound(d)'
    BY <1>1, <1>2, <2>1, <2>2, StepFacts DEF DiskOk, Checkpoints, PendBound
  <2>4. PendClosed(d)' /\ Records(d)'
    BY <1>0, <2>1 DEF DiskOk, PendClosed, Records, Kept, Certified
  <2>5. Settled(d)'
    BY <1>0, <1>1, <1>2, <2>1, StepFacts DEF Settled, AllKept, Kept, Certified
  <2> QED BY <2>3, <2>4, <2>5, SMTT(30) DEF DiskOk
<1>5. Near(db, prev, epoch)'
  BY <1>0, <1>1 DEF Near, Before, Kept, Certified
<1>6. ManagerOk'
  BY <1>0, <1>1, <1>5 DEF ManagerOk, Closing, Recover
<1>7. MemoryAgreed'
  BY <1>0 DEF IInv, MemoryAgreed
<1> QED BY <1>0, <1>3, <1>4, <1>6, <1>7 DEF IInv

\* The checkpoint of the executed boundary, written behind.
LEMMA ExecutedKeeps ==
    ASSUME IInv, SaveExecutionComplete
    PROVE  IInv'
<1> DEFINE s == SaveCheckpoint(db, epoch, "ExecutionComplete")
<1>0. /\ db' = s /\ disk' = disk \cup {s} /\ pc = "executed" /\ pc' = "flush"
      /\ UNCHANGED <<evm, epoch, rec, prev, states, signed, torn>>
  BY DEF SaveExecutionComplete, Write, collector, ghosts
<1>1. /\ s \in Database /\ s.pend = db.pend /\ s.cert = db.cert
      /\ s.cp = (db.cp \ Row(db.cp, epoch)) \cup {[epoch |-> epoch, phase |-> "ExecutionComplete"]}
  <2>1. db \in Database /\ epoch \in Nat \ {0} /\ "ExecutionComplete" \in Phase
    BY StepFacts, SMTT(30) DEF Phase
  <2> QED BY <2>1, SaveCheckpointFacts
<1> HIDE DEF s
<1>2. Row(db.cp, epoch) = db.cp /\ epoch = evm.tip /\ evm.tip = evm.disk + 1 /\ Near(db, prev, epoch)
  BY <1>0, SMTT(30) DEF IInv, ManagerOk, Typed, Closing
<1>3. s.cp = {[epoch |-> epoch, phase |-> "ExecutionComplete"]}
  BY <1>1, <1>2, SMTT(30) DEF Row
<1>4. Typed'
  BY <1>0, <1>1, SMTT(30) DEF IInv, Typed, Closing, Recover
<1>5. Checkpoints(s)
  BY <1>2, <1>3, StepFacts, SMTT(30) DEF Checkpoints
<1>6. Settled(s)
  BY <1>1, <1>2, <1>3, StepFacts, ZenonT(30) DEF DiskOk, Settled, Kept, Certified, Row
<1>7. DiskOk(s)
  BY <1>1, <1>5, <1>6, StepFacts, SameRecords
<1>8. \A d \in disk' : DiskOk(d)'
  BY <1>0, <1>7, DiskStable, SMTT(30) DEF IInv
<1>9. ManagerOk'
  <2>1. Near(db, prev, epoch)'
    BY <1>0, <1>1, <1>2, SMTT(30) DEF Near, Before, Kept, Certified
  <2>2. Row(s.cp, epoch) = s.cp
    BY <1>3 DEF Row
  <2> QED BY <1>0, <2>1, <2>2, SMTT(30) DEF ManagerOk, Closing, Recover
<1>10. MemoryAgreed'
  BY <1>0 DEF IInv, MemoryAgreed
<1> QED BY <1>4, <1>8, <1>9, <1>10 DEF IInv

\* The blocks are durable.
LEMMA FlushKeeps ==
    ASSUME IInv, FlushPersistence
    PROVE  IInv'
<1>0. /\ pc = "flush" /\ pc' = "record" /\ evm' = [evm EXCEPT !.disk = evm.tip]
      /\ UNCHANGED <<db, disk, epoch, rec, prev, states, signed, torn>>
  BY DEF FlushPersistence, collector, ghosts
<1>1. /\ epoch = evm.tip /\ evm.tip = evm.disk + 1 /\ Near(db, prev, epoch)
      /\ Row(db.cp, epoch) = db.cp
  BY <1>0 DEF IInv, ManagerOk, Typed, Closing
<1>2. evm'.tip = evm.tip /\ evm'.disk = evm.tip /\ evm' \in [tip : Nat, disk : Nat]
  BY <1>0, StepFacts
<1>3. Typed'
  BY <1>0, <1>1, <1>2 DEF IInv, Typed, Closing, Recover
<1>4. ASSUME NEW d \in disk PROVE DiskOk(d)'
  <2>1. DiskOk(d)
    BY StepFacts, SMTT(30)
  <2>2. Checkpoints(d)' /\ PendBound(d)'
    <3>1. Checkpoints(d)'
      BY <1>1, <1>2, <2>1, StepFacts, SMTT(30) DEF DiskOk, Checkpoints
    <3>2. PendBound(d)'
      BY <1>1, <1>2, <2>1, StepFacts, SMTT(30) DEF DiskOk, PendBound
    <3> QED BY <3>1, <3>2
  <2>3. PendClosed(d)' /\ Records(d)' /\ Settled(d)'
    BY <1>0, <1>2, <2>1 DEF DiskOk, PendClosed, Records, Settled, Kept, Certified
  <2> QED BY <2>2, <2>3 DEF DiskOk
<1>5. Near(db, prev, epoch)'
  BY <1>0, <1>1 DEF Near, Before, Kept, Certified
<1>6. ManagerOk'
  BY <1>0, <1>1, <1>5 DEF ManagerOk, Closing, Recover
<1>7. MemoryAgreed'
  BY <1>0, SMTT(30) DEF IInv, MemoryAgreed
<1> QED BY <1>0, <1>3, <1>4, <1>6, <1>7 DEF IInv

-----------------------------------------------------------------------------
(* The record and the end of the transition, in line or recovered.          *)

\* The epoch whose record is written: the one at the tip, or, in a torn
\* recovery, the one after it.  All epochs before it have their record.
LEMMA ClosingFacts ==
    ASSUME IInv, pc \in {"record", "save", "clear", "uncheck"} \cup Recover
    PROVE  /\ ClosingEpoch \in Nat /\ ClosingEpoch > 0 /\ evm.disk = evm.tip
           /\ Recovering <=> pc \in Recover
           /\ \/ ClosingEpoch = evm.tip
              \/ ClosingEpoch = evm.tip + 1 /\ ClosingEpoch \in torn
           /\ Row(db.cp, ClosingEpoch) = db.cp
           /\ \A e \in 1..(ClosingEpoch - 1) : Kept(db, e)
           /\ ~Recovering => epoch = evm.tip /\ ClosingEpoch = epoch
           /\ Recovering => epoch = evm.tip + 1 /\ db.cp # {}
<1>1. evm.disk = evm.tip /\ (Recovering <=> pc \in Recover)
  BY ZenonT(30) DEF IInv, Typed, Recovering, Recover
<1>2. CASE ~Recovering
  <2>1. ClosingEpoch = epoch /\ epoch = evm.tip /\ Row(db.cp, epoch) = db.cp
    BY <1>1, <1>2, ZenonT(30) DEF IInv, Typed, ManagerOk, ClosingEpoch, Closing
  <2>2. \A e \in 1..(epoch - 1) : Kept(db, e)
    BY <2>1, StepFacts, SMTT(30) DEF DiskOk, Settled
  <2> QED BY <1>1, <1>2, <2>1, <2>2, StepFacts, SMTT(30)
<1>3. CASE Recovering
  <2>1. PICK c \in db.cp : c.epoch > evm.tip => c.epoch \in torn
    BY <1>1, <1>3, ZenonT(30) DEF IInv, ManagerOk
  <2>2. db.cp = {c} /\ evm.tip <= c.epoch /\ c.epoch <= evm.tip + 1 /\ c.epoch \in Nat /\ c.epoch > 0
    BY <1>1, <2>1, StepFacts, SMTT(30) DEF DiskOk, Checkpoints
  <2>3. RecoveryCheckpoint = c
    BY <2>2, SMTT(30) DEF RecoveryCheckpoint
  <2>4. ClosingEpoch = c.epoch
    BY <1>3, <2>3, SMTT(30) DEF ClosingEpoch
  <2>5. Row(db.cp, c.epoch) = db.cp
    BY <2>2, SMTT(30) DEF Row
  <2>6. \A e \in 1..(c.epoch - 1) : Kept(db, e)
    <3> SUFFICES ASSUME NEW e \in 1..(c.epoch - 1) PROVE Kept(db, e)
      OBVIOUS
    <3>1. e \in 1..evm.tip /\ e # c.epoch
      BY <2>2, StepFacts
    <3>2. Row(db.cp, e) = {}
      BY <2>2, <3>1 DEF Row
    <3> QED BY <3>1, <3>2, StepFacts DEF DiskOk, Settled
  <2>7. epoch = evm.tip + 1
    BY <1>1, <1>3, ZenonT(30) DEF IInv, Typed, Closing, Recover
  <2>8. c.epoch = evm.tip \/ (c.epoch = evm.tip + 1 /\ c.epoch \in torn)
    BY <2>1, <2>2, StepFacts
  <2>9. db.cp # {}
    BY <2>1, SMTT(30)
  <2> QED BY <1>1, <1>3, <2>2, <2>4, <2>5, <2>6, <2>7, <2>8, <2>9, Zenon
<1> QED BY <1>2, <1>3

\* Once the closing epoch has its record, all closed epochs have one, and the
\* next record can be built on it.
LEMMA ClosedThen ==
    ASSUME IInv, pc \in {"record", "save", "clear", "uncheck"} \cup Recover,
           NEW s, \A e \in Nat : Kept(db, e) => Kept(s, e), NEW p,
           Kept(s, ClosingEpoch), Certified(s, ClosingEpoch) \/ Row(p, ClosingEpoch) # {}
    PROVE  AllKept(s) /\ Near(s, p, evm.tip + 1)
<1>1. AllKept(s)
  BY ClosingFacts, StepFacts, SMTT(30) DEF AllKept
<1>2. CASE ClosingEpoch = evm.tip
  BY <1>1, <1>2, StepFacts, NearNext, ZenonT(30)
<1>3. CASE ClosingEpoch = evm.tip + 1
  BY <1>1, <1>3 DEF Near
<1> QED BY <1>2, <1>3, ClosingFacts, SMTT(30)

\* The closing epoch e against the tip t.
LEMMA AtOrAfter ==
    ASSUME NEW e \in Nat, NEW t \in Nat
    PROVE  /\ e = t => \A x \in 1..t : x = e \/ x \in 1..(e - 1)
           /\ e = t + 1 => e # t /\ \A x \in 1..t : x \in 1..(e - 1)
OBVIOUS

\* write_epoch_record finds the record before, unless the record is there.
LEMMA PrevFound ==
    ASSUME IInv, pc \in {"record", "recover record"}, ~Certified(db, ClosingEpoch),
           ResolveLocalPrev(ClosingEpoch) = {}
    PROVE  AllKept(db) /\ Near(db, prev, evm.tip + 1)
<1> DEFINE e == ClosingEpoch
<1>1. ~Before(db, prev, e)
  BY Zenon DEF Before, ResolveLocalPrev, Certified
<1>f. /\ e \in Nat /\ (e = evm.tip \/ e = evm.tip + 1) /\ evm.tip \in Nat
      /\ \A x \in 1..(e - 1) : Kept(db, x)
      /\ Recovering <=> pc \in Recover
      /\ ~Recovering => e = epoch
  BY ClosingFacts, StepFacts, Zenon DEF Recover
<1>a. e \in Nat /\ evm.tip \in Nat
  BY <1>f, Zenon
<1>2. CASE pc = "record"
  <2>1. Near(db, prev, e) /\ e = epoch
    BY <1>f, <1>2 DEF IInv, ManagerOk, Recover
  <2>2. Kept(db, e) /\ Row(prev, e) # {}
    BY <1>1, <2>1, Zenon DEF Near
  <2> QED BY <1>2, <2>2, ClosedThen, SMTT(30)
<1>3. CASE pc = "recover record"
  <2>1. Resumable /\ rec = {} /\ Newest = prev
    BY <1>3, ClosingFacts, Zenon DEF IInv, ManagerOk, Newest, Recover
  <2>2. CASE e = evm.tip
    <3>1. ~Unrecorded
      BY <1>1, <2>1, <2>2, Zenon DEF Resumable
    <3>2. Near(db, prev, evm.tip + 1)
      BY <2>1, <3>1, Zenon DEF Resumable
    <3>3. Kept(db, e)
      <4>1. Row(db.cp, e) # {}
        BY <1>3, ClosingFacts, Zenon DEF Recover
      <4> QED BY <2>2, <3>1, <4>1, Zenon DEF Unrecorded
    <3>4. AllKept(db)
      <4> SUFFICES ASSUME NEW x \in 1..evm.tip PROVE Kept(db, x)
        BY Zenon DEF AllKept
      <4>1. x = e \/ x \in 1..(e - 1)
        BY <1>a, <2>2, AtOrAfter, Zenon
      <4> QED BY <1>f, <3>3, <4>1, Zenon
    <3> QED BY <3>2, <3>4, Zenon
  <2>3. CASE e = evm.tip + 1
    <3>1. AllKept(db)
      <4> SUFFICES ASSUME NEW x \in 1..evm.tip PROVE Kept(db, x)
        BY Zenon DEF AllKept
      <4>1. x \in 1..(e - 1)
        BY <1>a, <2>3, AtOrAfter, Zenon
      <4> QED BY <1>f, <4>1, Zenon
    <3>2. Row(db.cp, evm.tip) = {}
      <4>1. Row(db.cp, e) = db.cp
        BY <1>3, ClosingFacts, Zenon DEF Recover
      <4>2. e # evm.tip
        BY <1>a, <2>3, AtOrAfter, Zenon
      <4> QED BY <4>1, <4>2, Zenon DEF Row
    <3>3. Near(db, prev, evm.tip + 1)
      BY <2>1, <3>2, Zenon DEF Resumable, Unrecorded
    <3> QED BY <3>1, <3>3, Zenon
  <2> QED BY <1>f, <2>2, <2>3, ZenonT(30)
<1> QED BY <1>2, <1>3, Zenon

\* The step from building to saving a record: the database may have grown by
\* the record before.
LEMMA BuiltKeeps ==
    ASSUME IInv, pc \in {"record", "recover record"}, GoTo("save", "recover save"),
           NEW s \in Database, db' = s, disk' = disk \cup {s}, s.cp = db.cp, DiskOk(s),
           NEW r \in Rec, rec' = {r}, r.epoch = ClosingEpoch, torn = {} => r = Agreed(r.epoch),
           UNCHANGED <<evm, epoch, prev, collector, ghosts>>
    PROVE  IInv'
<1>0. UNCHANGED <<evm, epoch, prev, states, signed, torn>>
  BY Zenon DEF collector, ghosts
<1>1. /\ pc = "record" => pc' = "save"
      /\ pc = "recover record" => pc' = "recover save"
      /\ ClosingEpoch' = ClosingEpoch
  BY <1>0, Zenon DEF GoTo, Recovering, ClosingEpoch, RecoveryCheckpoint
<1>2. Typed'
  BY <1>0, <1>1, Zenon DEF IInv, Typed, Closing, Recover
<1>3. \A d \in disk' : DiskOk(d)'
  BY <1>0, DiskStable, ZenonT(30) DEF IInv
<1>4. ManagerOk'
  BY <1>0, <1>1, ZenonT(30) DEF IInv, ManagerOk, Closing, Recover
<1>5. MemoryAgreed'
  BY <1>0, Zenon DEF IInv, MemoryAgreed
<1> QED BY <1>2, <1>3, <1>4, <1>5, Zenon DEF IInv

\* The step from a record that is there to the clear of the live tables.
LEMMA FoundKeeps ==
    ASSUME IInv, pc \in {"record", "recover record"}, GoTo("clear", "recover clear"),
           UNCHANGED <<db, disk>>, rec' \subseteq Rec, AllKept(db),
           Near(db, IF rec' # {} THEN rec' ELSE prev, evm.tip + 1),
           torn = {} => \A r \in rec' : r = Agreed(r.epoch),
           UNCHANGED <<evm, epoch, prev, collector, ghosts>>
    PROVE  IInv'
<1>0. UNCHANGED <<evm, epoch, prev, states, signed, torn>>
  BY Zenon DEF collector, ghosts
<1>1. /\ pc = "record" => pc' = "clear"
      /\ pc = "recover record" => pc' = "recover clear"
  BY Zenon DEF GoTo, Recovering
<1>2. Typed'
  BY <1>0, <1>1, Zenon DEF IInv, Typed, Closing, Recover
<1>3. \A d \in disk' : DiskOk(d)'
  BY <1>0, DiskStable, Zenon DEF IInv
<1>4. AllKept(db)' /\ Near(db, Newest, evm.tip + 1)'
  BY <1>0, ZenonT(30) DEF AllKept, Near, Before, Newest, Kept, Certified
<1>5. ManagerOk'
  BY <1>0, <1>1, <1>4, Zenon DEF IInv, ManagerOk, Closing, Recover
<1>6. MemoryAgreed'
  BY <1>0, Zenon DEF IInv, MemoryAgreed
<1> QED BY <1>2, <1>3, <1>5, <1>6, Zenon DEF IInv

\* write_epoch_record up to its last await.
LEMMA BuildKeeps ==
    ASSUME IInv, BuildEpochRecord
    PROVE  IInv'
<1> DEFINE e == ClosingEpoch
           Built(p) == Record(e, evm.tip < e, p # Agreed(e - 1))
<1>0. /\ pc \in {"record", "recover record"} /\ pc \in {"record", "save", "clear", "uncheck"} \cup Recover
      /\ UNCHANGED <<evm, epoch, prev, collector, ghosts>>
  BY Zenon DEF BuildEpochRecord, Recover
<1>1. /\ e \in Nat /\ e > 0 /\ e - 1 \in Nat /\ evm.tip \in Nat
      /\ e = evm.tip \/ (e = evm.tip + 1 /\ e \in torn)
      /\ db \in Database /\ db \in disk /\ DiskOk(db) /\ prev \subseteq Rec
      /\ evm \in [tip : Nat, disk : Nat] /\ \A r \in db.pend : r.epoch \in Nat
  <2>1. /\ e \in Nat /\ e > 0
        /\ e = evm.tip \/ (e = evm.tip + 1 /\ e \in torn)
    BY <1>0, ClosingFacts, Zenon
  <2>2. e - 1 \in Nat
    BY <2>1
  <2>3. /\ evm.tip \in Nat /\ db \in Database /\ db \in disk /\ DiskOk(db) /\ prev \subseteq Rec
        /\ evm \in [tip : Nat, disk : Nat] /\ \A r \in db.pend : r.epoch \in Nat
    BY StepFacts, SMTT(30)
  <2> QED BY <2>1, <2>2, <2>3
<1>2. ASSUME NEW p, p = Agreed(e - 1) \/ (torn # {})
      PROVE  /\ Built(p) \in Rec /\ Built(p).epoch = e
             /\ torn = {} => Built(p) = Agreed(Built(p).epoch)
  <2> DEFINE early == evm.tip < e
             orphan == p # Agreed(e - 1)
  <2>1. early \in BOOLEAN /\ orphan \in BOOLEAN
    OBVIOUS
  <2>2. torn = {} => early = FALSE /\ orphan = FALSE
    BY <1>1, <1>2
  <2>3. e \in Nat
    BY <1>1
  <2> HIDE DEF early, orphan, e
  <2>4. Record(e, early, orphan) \in Rec /\ Record(e, early, orphan).epoch = e
    BY <2>1, <2>3 DEF Record, Rec
  <2>5. torn = {} => Record(e, early, orphan) = Agreed(e)
    BY <2>2, Zenon DEF Agreed
  <2> QED BY <2>4, <2>5 DEF early, orphan
<1>3. CASE Certified(db, e) /\ rec' = Row(db.cert, e) /\ GoTo("clear", "recover clear")
           /\ UNCHANGED <<db, disk>>
  <2>1. rec' \subseteq Rec /\ rec' # {} /\ \A r \in rec' : r = Agreed(r.epoch)
    BY <1>1, <1>3, Zenon DEF Row, Database, Certified, DiskOk, Records
  <2>2. AllKept(db) /\ Near(db, rec', evm.tip + 1)
    BY <1>0, <1>3, ClosedThen, Zenon DEF Kept
  <2> QED BY <1>0, <1>3, <2>1, <2>2, FoundKeeps, Zenon
<1>4. CASE (\E p \in ResolveLocalPrev(e) : rec' = {Built(p)}) /\ GoTo("save", "recover save")
           /\ UNCHANGED <<db, disk>>
  <2>1. PICK p \in ResolveLocalPrev(e) : rec' = {Built(p)}
    BY <1>4, Zenon
  <2>2. p \in db.cert \/ p \in prev
    BY DEF ResolveLocalPrev, Row
  <2>3. p.epoch = e - 1
    BY SMTT(30) DEF ResolveLocalPrev, Row
  <2>4. p = Agreed(e - 1) \/ torn # {}
    BY <1>1, <2>2, <2>3, SMTT(30) DEF DiskOk, Records, IInv, MemoryAgreed
  <2>5. disk' = disk \cup {db} /\ db' = db
    BY <1>1, <1>4, ZenonT(30)
  <2>6. /\ Built(p) \in Rec /\ Built(p).epoch = e
        /\ torn = {} => Built(p) = Agreed(Built(p).epoch)
    BY <1>2, <2>4, SMTT(30)
  <2> HIDE DEF Built
  <2> QED BY <1>0, <1>1, <1>4, <2>1, <2>5, <2>6, BuiltKeeps, Zenon
<1>5. CASE /\ rec' = {Built(Agreed(e - 1))} /\ GoTo("save", "recover save")
           /\ Write(SaveWithCert(db, Agreed(e - 1)))
  <2> DEFINE s == SaveWithCert(db, Agreed(e - 1))
  <2>1. Agreed(e - 1) \in Rec /\ Agreed(e - 1) = Agreed(Agreed(e - 1).epoch)
    BY <1>1, SMTT(30) DEF Agreed, Record, Rec
  <2>2. s \in Database /\ Grows(db, s)
    BY <1>1, <2>1, SaveWithCertFacts
  <2>3. db' = s /\ disk' = disk \cup {s}
    BY <1>5, ZenonT(30) DEF Write
  <2> HIDE DEF s
  <2>4. DiskOk(s) /\ s.cp = db.cp
    BY <1>1, <2>2, GrowsOk, SMTT(30) DEF Grows
  <2>5. /\ Built(Agreed(e - 1)) \in Rec /\ Built(Agreed(e - 1)).epoch = e
        /\ torn = {} => Built(Agreed(e - 1)) = Agreed(Built(Agreed(e - 1)).epoch)
    BY <1>2
  <2> HIDE DEF Built
  <2> QED BY <1>0, <1>5, <2>2, <2>3, <2>4, <2>5, BuiltKeeps, ZenonT(30)
<1>6. CASE /\ ~Certified(db, e) /\ ResolveLocalPrev(e) = {} /\ rec' = {}
           /\ GoTo("clear", "recover clear") /\ UNCHANGED <<db, disk>>
  <2>1. AllKept(db) /\ Near(db, prev, evm.tip + 1)
    BY <1>0, <1>6, PrevFound, Zenon
  <2> QED BY <1>0, <1>6, <2>1, FoundKeeps, Zenon
<1> QED BY <1>3, <1>4, <1>5, <1>6, Zenon DEF BuildEpochRecord

\* save_pending_epoch_record.
LEMMA SaveKeeps ==
    ASSUME IInv, SavePendingRecord
    PROVE  IInv'
<1>0. /\ pc \in {"save", "recover save"} /\ GoTo("clear", "recover clear")
      /\ pc \in {"record", "save", "clear", "uncheck"} \cup Recover
      /\ UNCHANGED <<evm, epoch, rec, prev, states, signed, torn>>
  BY Zenon DEF SavePendingRecord, collector, ghosts, Recover
<1>1. PICK r \in rec : rec = {r} /\ r.epoch = ClosingEpoch
  BY <1>0, Zenon DEF IInv, ManagerOk
<1> DEFINE s == SavePending(db, r)
<1>2. db' = s /\ disk' = disk \cup {s} /\ r \in Rec
  BY <1>1, StepFacts, ZenonT(30) DEF SavePendingRecord, Write
<1>3. /\ s \in Database /\ s.cp = db.cp /\ s.cert = db.cert
      /\ \A x \in s.pend : x \in db.pend \/ x = r
      /\ \A e : (Certified(db, e) <=> Certified(s, e)) /\ (Kept(db, e) => Kept(s, e))
      /\ Kept(s, r.epoch)
  BY <1>2, StepFacts, SavePendingFacts
<1> HIDE DEF s
<1>4. /\ pc = "save" => pc' = "clear"
      /\ pc = "recover save" => pc' = "recover clear"
  BY <1>0, Zenon DEF GoTo, Recovering
<1>5. Typed'
  BY <1>0, <1>2, <1>3, <1>4, ZenonT(30) DEF IInv, Typed, Closing, Recover
<1>6. DiskOk(s)
  <2>1. Checkpoints(s) /\ Settled(s)
    BY <1>3, StepFacts, SMTT(30) DEF DiskOk, Checkpoints, Settled
  <2>2. PendBound(s)
    <3>1. PendBound(db)
      BY StepFacts DEF DiskOk
    <3>2. 1 <= ClosingEpoch /\ ClosingEpoch <= evm.disk + 1
      <4>1. /\ ClosingEpoch \in Nat /\ ClosingEpoch > 0 /\ evm.disk = evm.tip
            /\ ClosingEpoch = evm.tip \/ ClosingEpoch = evm.tip + 1
        BY <1>0, ClosingFacts, Zenon
      <4>2. evm.tip \in Nat
        BY StepFacts, SMTT(30)
      <4> QED BY <4>1, <4>2
    <3> QED BY <1>1, <1>3, <3>1, <3>2, SMTT(30) DEF PendBound
  <2>3. PendClosed(s)
    BY <1>0, <1>1, <1>3, StepFacts, ClosingFacts, ZenonT(30) DEF DiskOk, PendClosed
  <2>4. Records(s)
    BY <1>3, StepFacts DEF DiskOk, Records, IInv, MemoryAgreed
  <2> QED BY <2>1, <2>2, <2>3, <2>4, SMTT(30) DEF DiskOk
<1>7. \A d \in disk' : DiskOk(d)'
  BY <1>0, <1>2, <1>6, DiskStable, Zenon DEF IInv
<1>8. AllKept(s) /\ Near(s, rec, evm.tip + 1)
  <2>1. Row(rec, ClosingEpoch) # {}
    BY <1>1, SMTT(30) DEF Row
  <2> QED BY <1>0, <1>1, <1>3, <2>1, ClosedThen, Zenon
<1>9. AllKept(db)' /\ Near(db, Newest, evm.tip + 1)'
  BY <1>0, <1>1, <1>2, <1>8, ZenonT(30) DEF AllKept, Near, Before, Newest, Kept, Certified
<1>10. ManagerOk'
  BY <1>0, <1>2, <1>3, <1>4, <1>9, Zenon DEF IInv, ManagerOk, Closing, Recover
<1>11. MemoryAgreed'
  BY <1>0, Zenon DEF IInv, MemoryAgreed
<1> QED BY <1>5, <1>7, <1>10, <1>11 DEF IInv

\* clear_consensus_db_for_next_epoch.
LEMMA ClearKeeps ==
    ASSUME IInv, ClearConsensusDb
    PROVE  IInv'
<1> DEFINE s == ClearTables(db, ClosingEpoch)
<1>0. /\ pc \in {"clear", "recover clear"} /\ GoTo("uncheck", "recover uncheck") /\ db' = s
      /\ pc \in {"record", "save", "clear", "uncheck"} \cup Recover
      /\ disk' = IF Recovering THEN {s} ELSE disk \cup {s}
      /\ UNCHANGED <<evm, epoch, rec, prev, states, signed, torn>>
  BY Zenon DEF ClearConsensusDb, Persist, Write, collector, ghosts, Recover
<1>1. s \in Database /\ s.cp = db.cp /\ s.pend = db.pend /\ s.cert = db.cert
  BY <1>0, StepFacts, ClosingFacts, ClearTablesFacts, Zenon
<1> HIDE DEF s
<1>2. /\ pc = "clear" => pc' = "uncheck" /\ disk' = disk \cup {s}
      /\ pc = "recover clear" => pc' = "recover uncheck" /\ disk' = {s}
  BY <1>0, Zenon DEF GoTo, Recovering
<1>3. Typed'
  BY <1>0, <1>1, <1>2, Zenon DEF IInv, Typed, Closing, Recover
<1>4. DiskOk(s)
  <2>1. DiskOk(db)
    BY StepFacts
  <2>2. Checkpoints(s)
    BY <1>1, <2>1, SMTT(30) DEF DiskOk, Checkpoints
  <2>3. Settled(s)
    BY <1>1, <2>1, SMTT(30) DEF DiskOk, Settled, Kept, Certified
  <2> QED BY <1>1, <2>1, <2>2, <2>3, SameRecords, SMTT(30)
<1>5. \A d \in disk' : DiskOk(d)'
  BY <1>0, <1>2, <1>4, StepFacts, DiskStable, Zenon
<1>6. AllKept(db)' /\ Near(db, Newest, evm.tip + 1)'
  <2>1. AllKept(db) /\ Near(db, Newest, evm.tip + 1)
    BY <1>0, Zenon DEF IInv, ManagerOk
  <2>2. AllKept(db)'
    BY <1>0, <1>1, <2>1, Zenon DEF AllKept, Kept, Certified
  <2>3. Newest' = Newest
    BY <1>0, ZenonT(30) DEF Newest
  <2> QED BY <1>0, <1>1, <2>1, <2>2, <2>3, ZenonT(30) DEF Near, Before, Kept, Certified
<1>7. ManagerOk'
  BY <1>0, <1>1, <1>2, <1>6, Zenon DEF IInv, ManagerOk, Closing, Recover
<1>8. MemoryAgreed'
  BY <1>0, Zenon DEF IInv, MemoryAgreed
<1> QED BY <1>3, <1>5, <1>7, <1>8 DEF IInv

\* The transition is complete and its checkpoint goes.
LEMMA FinishKeeps ==
    ASSUME IInv, FinishTransition
    PROVE  IInv'
<1> DEFINE s == ClearCheckpoint(db, ClosingEpoch)
<1>0. /\ pc \in {"uncheck", "recover uncheck"} /\ db' = s /\ epoch' = evm.tip + 1
      /\ pc \in {"record", "save", "clear", "uncheck"} \cup Recover
      /\ disk' = IF Recovering THEN disk \cup {s} ELSE {s}
      /\ pc' = IF Recovering THEN "start" ELSE "boot"
      /\ UNCHANGED <<evm, rec, prev, states, signed, torn>>
  BY ZenonT(30) DEF FinishTransition, Persist, Write, collector, ghosts, Recover
<1>1. s \in Database /\ s.cp = db.cp \ Row(db.cp, ClosingEpoch) /\ s.pend = db.pend /\ s.cert = db.cert
  BY StepFacts, ClearCheckpointFacts, SMTT(30)
<1> HIDE DEF s
<1>2. /\ pc = "uncheck" => pc' = "boot" /\ disk' = {s}
      /\ pc = "recover uncheck" => pc' = "start" /\ disk' = disk \cup {s}
      /\ s.cp = {} /\ evm.disk = evm.tip
  BY <1>0, <1>1, ClosingFacts, Zenon DEF Recovering
<1>3. Typed'
  BY <1>0, <1>1, <1>2, ZenonT(30) DEF IInv, Typed, Closing, Recover
<1>4. AllKept(db) /\ AllKept(s)
  BY <1>0, <1>1, StepFacts, ZenonT(30) DEF IInv, ManagerOk, AllKept, Kept, Certified
<1>5. DiskOk(s)
  BY <1>1, <1>2, <1>4, StepFacts, SameRecords, ZenonT(30) DEF Checkpoints, Settled, AllKept
<1>6. \A d \in disk' : DiskOk(d)'
  BY <1>0, <1>2, <1>5, StepFacts, DiskStable, ZenonT(30)
<1>7. Near(db, Newest, evm.tip + 1)'
  BY <1>0, <1>1, ZenonT(30) DEF IInv, ManagerOk, Near, Before, Newest, Kept, Certified
<1>8. Resumable'
  BY <1>0, <1>2, <1>7, ZenonT(30) DEF Resumable, Unrecorded, Row
<1>9. pc = "recover uncheck" => \A d \in disk' : AllKept(d)'
  BY <1>0, <1>2, <1>4, ZenonT(30) DEF IInv, ManagerOk, AllKept, Kept, Certified
<1>10. ManagerOk'
  BY <1>0, <1>2, <1>7, <1>8, <1>9, Zenon DEF ManagerOk, Closing, Recover
<1>11. MemoryAgreed'
  BY <1>0, Zenon DEF IInv, MemoryAgreed
<1> QED BY <1>3, <1>6, <1>10, <1>11 DEF IInv

-----------------------------------------------------------------------------
(* The start of an epoch.                                                   *)

\* recover_partial_transition: a start without a checkpoint, the recovery of an
\* executed boundary, or the removal of the checkpoint of one that was not.
LEMMA RecoverKeeps ==
    ASSUME IInv, RecoverPartialTransition
    PROVE  IInv'
<1>0. pc = "boot" /\ UNCHANGED <<evm, epoch, rec, prev, states, signed>>
  BY ZenonT(30) DEF RecoverPartialTransition, collector
<1>1. /\ Resumable /\ (\A d \in disk : AllKept(d) \/ d.cp = db.cp) /\ (db.cp # {} => rec = {})
      /\ evm.tip \in Nat /\ evm.disk = evm.tip /\ epoch = evm.tip + 1
  BY <1>0, StepFacts, ZenonT(30) DEF IInv, ManagerOk, Typed, Closing
<1>k. \A d : AllKept(d)' <=> AllKept(d)
  BY <1>0, SMTT(30) DEF AllKept, Kept, Certified
<1>2. CASE db.cp = {} /\ pc' = "start" /\ UNCHANGED <<db, disk, torn>>
  <2>1. Typed'
    BY <1>0, <1>2, SMTT(30) DEF IInv, Typed, Closing, Recover
  <2>2. \A d \in disk' : DiskOk(d)'
    BY <1>0, <1>2, StepFacts, DiskStable
  <2>3. \A d \in disk' : AllKept(d)'
    <3> SUFFICES ASSUME NEW d \in disk, d.cp = {} PROVE AllKept(d)
      BY <1>1, <1>2, <1>k, SMTT(30)
    <3>1. Settled(d)
      BY StepFacts, SMTT(30) DEF DiskOk
    <3> QED BY <3>1, SMTT(30) DEF Settled, AllKept, Row
  <2>4. Near(db, Newest, evm.tip + 1)
    BY <1>1, <1>2, SMTT(30) DEF Resumable, Unrecorded, Row
  <2>5. Near(db, Newest, evm.tip + 1)'
    <3>1. Newest' = Newest
      BY <1>0, SMTT(30) DEF Newest
    <3> QED BY <1>0, <1>2, <2>4, <3>1 DEF Near, Before, Kept, Certified
  <2>6. ManagerOk'
    BY <1>2, <2>3, <2>5, SMTT(30) DEF ManagerOk, Closing, Recover
  <2>7. MemoryAgreed'
    BY <1>0, <1>2, SMTT(30) DEF IInv, MemoryAgreed
  <2> QED BY <2>1, <2>2, <2>6, <2>7 DEF IInv
<1>3. ASSUME db.cp # {} PROVE IInv'
  <2> DEFINE c == RecoveryCheckpoint
  <2>1. c \in db.cp /\ db.cp = {c} /\ c.epoch \in Nat /\ evm.tip <= c.epoch /\ c.epoch <= evm.tip + 1
    <3>1. PICK o \in db.cp : db.cp = {o}
      BY <1>3, StepFacts, SMTT(30) DEF DiskOk, Checkpoints
    <3>2. o.epoch \in Nat /\ evm.tip <= o.epoch /\ o.epoch <= evm.tip + 1
      BY <1>1, StepFacts, SMTT(30) DEF DiskOk, Checkpoints
    <3>3. c = o
      BY <3>1, <3>2 DEF RecoveryCheckpoint
    <3> QED BY <3>1, <3>2, <3>3, SMTT(30)
  <2>2. CASE ExecutionDone(c) /\ pc' = "recover record" /\ UNCHANGED <<db, disk>>
             /\ torn' = IF evm.tip < c.epoch /\ c.phase = "ExecutionComplete"
                        THEN torn \cup {c.epoch} ELSE torn
    <3>1. torn \subseteq torn' /\ (c.epoch > evm.tip => c.epoch \in torn')
      <4>1. torn \subseteq torn'
        BY <2>2, Zenon
      <4>2. ASSUME c.epoch > evm.tip PROVE c.epoch \in torn'
        <5>1. evm.tip < c.epoch /\ ~(evm.tip + 1 > c.epoch)
          BY <1>1, <2>1, <4>2
        <5>2. c.phase = "ExecutionComplete"
          BY <2>2, <5>1, Zenon DEF ExecutionDone
        <5>3. torn' = torn \cup {c.epoch}
          BY <2>2, <5>1, <5>2, Zenon
        <5> QED BY <5>3
      <4> QED BY <4>1, <4>2
    <3>2. Typed'
      BY <1>0, <2>2, Zenon DEF IInv, Typed, Closing, Recover
    <3>3. \A d \in disk' : DiskOk(d)'
      BY <1>0, <2>2, <3>1, StepFacts, DiskStable, ZenonT(30)
    <3>4. Resumable'
      BY <1>0, <1>1, <2>2, Zenon DEF Resumable, Unrecorded, Newest, Near, Before, Kept, Certified
    <3>5. rec' = {} /\ db' = db /\ evm' = evm
      BY <1>0, <1>1, <1>3, <2>2, ZenonT(30)
    <3>6. \E o \in db'.cp : o.epoch > evm'.tip => o.epoch \in torn'
      BY <2>1, <3>1, <3>5, SMTT(30)
    <3>7. ManagerOk'
      BY <2>2, <3>4, <3>5, <3>6, Zenon DEF ManagerOk, Closing, Recover
    <3>8. MemoryAgreed'
      BY <1>0, <3>1 DEF IInv, MemoryAgreed
    <3> QED BY <3>2, <3>3, <3>7, <3>8 DEF IInv
  <2>3. CASE ~ExecutionDone(c) /\ pc' = "start" /\ Write(ClearCheckpoint(db, c.epoch)) /\ UNCHANGED torn
    <3> DEFINE s == ClearCheckpoint(db, c.epoch)
    <3>1. db' = s /\ disk' = disk \cup {s} /\ torn' = torn
      BY <2>3, SMTT(30) DEF Write
    <3>2. s \in Database /\ s.cp = db.cp \ Row(db.cp, c.epoch) /\ s.pend = db.pend /\ s.cert = db.cert
      BY StepFacts, ClearCheckpointFacts
    <3> HIDE DEF s
    <3>3. s.cp = {} /\ c.epoch = evm.tip + 1 /\ Row(db.cp, evm.tip) = {}
      <4>1. c.epoch = evm.tip + 1
        BY <1>1, <2>1, <2>3, SMTT(30) DEF ExecutionDone
      <4>2. s.cp = {}
        BY <2>1, <3>2 DEF Row
      <4>3. c.epoch # evm.tip
        BY <1>1, <4>1, SMTT(30)
      <4> QED BY <2>1, <4>1, <4>2, <4>3, SMTT(30) DEF Row
    <3>4. \A d \in disk : AllKept(d)
      <4> SUFFICES ASSUME NEW d \in disk, d.cp = db.cp PROVE AllKept(d)
        BY <1>1, SMTT(30)
      <4>1. Settled(d)
        BY StepFacts, SMTT(30) DEF DiskOk
      <4> QED BY <3>3, <4>1 DEF Settled, AllKept
    <3>5. AllKept(s)
      BY <3>2, <3>4, StepFacts, SMTT(30) DEF AllKept, Kept, Certified
    <3>6. DiskOk(s)
      <4>1. Checkpoints(s) /\ Settled(s)
        BY <3>3, <3>5, SMTT(30) DEF Checkpoints, Settled, AllKept
      <4> QED BY <3>2, <4>1, StepFacts, SameRecords, SMTT(30)
    <3>7. \A d \in disk' : DiskOk(d)' /\ AllKept(d)'
      BY <1>0, <1>k, <3>1, <3>4, <3>5, <3>6, StepFacts, DiskStable, SMTT(30)
    <3>8. Typed'
      BY <1>0, <2>3, <3>1, <3>2, SMTT(30) DEF IInv, Typed, Closing, Recover
    <3>9. Near(db, Newest, evm.tip + 1)'
      <4>1. Near(db, Newest, evm.tip + 1)
        <5>1. ~Unrecorded
          BY <3>3, Zenon DEF Unrecorded
        <5> QED BY <1>1, <5>1, Zenon DEF Resumable
      <4>2. Newest' = Newest
        BY <1>0, Zenon DEF Newest
      <4>3. db'.pend = db.pend /\ db'.cert = db.cert /\ evm' = evm
        BY <1>0, <3>1, <3>2, Zenon
      <4> QED BY <4>1, <4>2, <4>3, Zenon DEF Near, Before, Kept, Certified
    <3>10. ManagerOk'
      BY <2>3, <3>1, <3>3, <3>7, <3>9, Zenon DEF ManagerOk, Closing, Recover
    <3>11. MemoryAgreed'
      BY <1>0, <3>1 DEF IInv, MemoryAgreed
    <3> QED BY <3>7, <3>8, <3>10, <3>11 DEF IInv
  <2> QED BY <1>3, <2>2, <2>3, ZenonT(30) DEF RecoverPartialTransition
<1> QED BY <1>2, <1>3, Zenon DEF RecoverPartialTransition

\* What resume_pending_certification writes: stale pending rows go, fetched ones
\* move to the certified table.
LEMMA ResumeGrows ==
    ASSUME IInv, NEW got, got \subseteq db.pend, \A r \in got : r = Agreed(r.epoch),
           NEW open, open = db.pend \ {r \in db.pend : Certified(db, r.epoch)}
    PROVE  LET s == [db EXCEPT !.pend = open \ got, !.cert = @ \cup got]
           IN  s \in Database /\ Grows(db, s)
<1> DEFINE s == [db EXCEPT !.pend = open \ got, !.cert = @ \cup got]
<1>1. /\ s \in Database /\ s.cp = db.cp /\ s.pend = open \ got /\ s.cert = db.cert \cup got
  BY StepFacts, Zenon DEF Database
<1> HIDE DEF s
<1>2. \A e : Certified(db, e) => Certified(s, e)
  BY <1>1, SMTT(30) DEF Certified, Row
<1>3. ASSUME NEW e, Kept(db, e) PROVE Kept(s, e)
  <2>1. CASE Certified(db, e)
    BY <1>2, <2>1 DEF Kept
  <2>2. CASE ~Certified(db, e)
    <3>1. PICK r \in db.pend : r.epoch = e
      BY <1>3, <2>2, SMTT(30) DEF Kept, Row
    <3>2. r \in s.pend \/ r \in s.cert
      BY <1>1, <2>2, <3>1, SMTT(30)
    <3> QED BY <3>1, <3>2 DEF Kept, Certified, Row
  <2> QED BY <2>1, <2>2, SMTT(30)
<1>4. Grows(db, s)
  BY <1>1, <1>2, <1>3 DEF Grows
<1> QED BY <1>1, <1>4, SMTT(30) DEF s

\* An epoch starts: the newest record becomes the previous one, pending records
\* are signed again.
LEMMA StartKeeps ==
    ASSUME IInv, StartEpoch
    PROVE  IInv'
<1> DEFINE open == db.pend \ {r \in db.pend : Certified(db, r.epoch)}
<1>0. PICK got \in SUBSET db.pend :
        /\ \A r \in got : r = Agreed(r.epoch)
        /\ Write([db EXCEPT !.pend = open \ got, !.cert = @ \cup got])
        /\ states' = open \ got /\ signed' = signed \cup (open \ got)
  BY ZenonT(30) DEF StartEpoch, ResumePendingCertification
<1> DEFINE s == [db EXCEPT !.pend = open \ got, !.cert = @ \cup got]
<1>1. /\ pc = "start" /\ pc' = "run" /\ prev' = Newest /\ rec' = {}
      /\ UNCHANGED <<evm, epoch, torn>> /\ db' = s /\ disk' = disk \cup {s}
  BY <1>0, ZenonT(30) DEF StartEpoch, Write, Newest
<1>2. s \in Database /\ Grows(db, s)
  BY <1>0, ResumeGrows, Zenon
<1>3. states' \subseteq db.pend /\ \A r \in signed' : r \in signed \/ r \in db.pend
  BY <1>0, SMTT(30)
<1> HIDE DEF s, open
<1>4. /\ db.cp = {} /\ (\A d \in disk : AllKept(d)) /\ Near(db, Newest, evm.tip + 1)
      /\ epoch = evm.tip + 1 /\ evm.tip \in Nat
  BY <1>1, StepFacts, ZenonT(30) DEF IInv, ManagerOk, Typed, Closing
<1>5. DiskOk(s) /\ AllKept(s) /\ s.cp = {}
  BY <1>2, <1>4, StepFacts, GrowsOk, ZenonT(30) DEF Grows
<1>6. Typed'
  <2>1. Newest \subseteq Rec /\ db.pend \subseteq Rec
    BY StepFacts, SMTT(30) DEF Newest, Database
  <2> QED BY <1>1, <1>2, <1>3, <2>1 DEF IInv, Typed, Closing, Recover
<1>7. \A d \in disk' : DiskOk(d)' /\ AllKept(d)'
  <2>1. \A d : AllKept(d)' <=> AllKept(d)
    BY <1>1, SMTT(30) DEF AllKept, Kept, Certified
  <2> QED BY <1>1, <1>4, <1>5, <2>1, StepFacts, DiskStable, ZenonT(30)
<1>8. Near(db, prev, epoch)'
  <2>1. Near(s, Newest, evm.tip + 1)
    BY <1>2, <1>4, GrowsNear, SMTT(30)
  <2> QED BY <1>1, <1>4, <2>1, SMTT(30) DEF Near, Before, Kept, Certified
<1>9. ManagerOk'
  BY <1>1, <1>5, <1>7, <1>8, SMTT(30) DEF ManagerOk, Closing, Recover
<1>10. MemoryAgreed'
  <2>1. torn = {} => \A r \in db.pend : r = Agreed(r.epoch)
    BY StepFacts, SMTT(30) DEF DiskOk, Records
  <2>2. Newest \subseteq rec \cup prev
    BY DEF Newest
  <2> QED BY <1>1, <1>3, <2>1, <2>2, SMTT(30) DEF IInv, MemoryAgreed
<1> QED BY <1>6, <1>7, <1>9, <1>10, SMTT(30) DEF IInv

\* A mode change runs the same epoch again.
LEMMA ModeKeeps ==
    ASSUME IInv, ModeTransition
    PROVE  IInv'
<1>0. /\ pc = "run" /\ pc' = "boot" /\ states' = {} /\ evm' = [evm EXCEPT !.disk = evm.tip]
      /\ UNCHANGED <<db, disk, epoch, rec, prev, signed, torn>>
  BY DEF ModeTransition, ghosts
<1>1. /\ db.cp = {} /\ rec = {} /\ (\A d \in disk : AllKept(d)) /\ Near(db, prev, epoch)
      /\ epoch = evm.tip + 1 /\ evm.disk = evm.tip
  BY <1>0 DEF IInv, ManagerOk, Typed, Closing
<1>2. evm' = evm
  BY <1>0, <1>1, StepFacts
<1>3. Typed'
  BY <1>0, <1>2 DEF IInv, Typed, Closing, Recover
<1>4. \A d \in disk' : DiskOk(d)'
  BY <1>0, <1>2, StepFacts, DiskStable
<1>5. \A d \in disk' : AllKept(d)'
  BY <1>0, <1>1, <1>2 DEF AllKept, Kept, Certified
<1>6. Resumable'
  <2>1. Newest' = prev /\ ~Unrecorded'
    BY <1>0, <1>1 DEF Newest, Unrecorded, Row
  <2> QED BY <1>0, <1>1, <1>2, <2>1 DEF Resumable, Near, Before, Kept, Certified
<1>7. ManagerOk'
  BY <1>0, <1>1, <1>5, <1>6 DEF ManagerOk, Closing, Recover
<1>8. MemoryAgreed'
  BY <1>0, SMTT(30) DEF IInv, MemoryAgreed
<1> QED BY <1>3, <1>4, <1>7, <1>8 DEF IInv

\* The certificates of the running epoch are no record.
LEMMA StoreKeeps ==
    ASSUME IInv, StoreCertificates
    PROVE  IInv'
<1> DEFINE s == [db EXCEPT !.live = TRUE]
<1>1. s \in Database /\ s.cp = db.cp /\ s.pend = db.pend /\ s.cert = db.cert
  BY StepFacts, Zenon DEF Database
<1>2. Write(s) /\ UNCHANGED <<evm, manager, ghosts>> /\ states' \subseteq Rec
  BY StepFacts, SMTT(30) DEF StoreCertificates, collector
<1> HIDE DEF s
<1>3. Grows(db, s)
  BY <1>1 DEF Grows, Kept, Certified
<1> QED BY <1>1, <1>2, <1>3, GrowKeeps

-----------------------------------------------------------------------------
\* The inductive invariant holds at the first start and survives every step of
\* the manager, the certification, the timeouts and the crashes.
LEMMA IInvInvariant == Spec => []IInv
<1>1. Init => IInv
  <2> SUFFICES ASSUME Init PROVE IInv
    OBVIOUS
  <2>0. /\ db = [cp |-> {}, live |-> FALSE, tail |-> 0, pend |-> {}, cert |-> {Agreed(0)}]
        /\ disk = {db} /\ evm = [tip |-> 0, disk |-> 0] /\ pc = "run" /\ epoch = 1
        /\ rec = {} /\ prev = {} /\ states = {} /\ signed = {} /\ torn = {}
    BY DEF Init
  <2>1. Agreed(0) \in Rec /\ Agreed(0).epoch = 0
    BY SMTT(30) DEF Agreed, Record, Rec
  <2>2. db \in Database /\ db.cp = {} /\ db.pend = {} /\ db.cert = {Agreed(0)}
    BY <2>0, <2>1, SMTT(30) DEF Database
  <2>3. Certified(db, 0)
    BY <2>1, <2>2, SMTT(30) DEF Certified, Row
  <2>4. Typed
    BY <2>0, <2>2, SMTT(30) DEF Typed, Closing, Recover
  <2>5. DiskOk(db) /\ AllKept(db)
    BY <2>0, <2>1, <2>2, <2>3, SMTT(30)
       DEF DiskOk, Checkpoints, PendBound, PendClosed, Records, Settled, AllKept
  <2>6. Near(db, prev, epoch)
    BY <2>0, <2>3, SMTT(30) DEF Near, Before
  <2>7. ManagerOk
    BY <2>0, <2>2, <2>5, <2>6, SMTT(30) DEF ManagerOk, Closing, Recover
  <2> QED BY <2>0, <2>4, <2>5, <2>7 DEF IInv, MemoryAgreed
<1>2. IInv /\ [Next]_vars => IInv'
  <2> SUFFICES ASSUME IInv, [Next]_vars PROVE IInv'
    OBVIOUS
  <2>1. CASE UNCHANGED vars
    <3>1. UNCHANGED <<db, disk, evm, manager, ghosts>> /\ states' = states
      BY <2>1, SMTT(30) DEF vars, collector
    <3> QED BY <3>1, StepFacts, NoWriteKeeps, Zenon
  <2>2. CASE Manager
    BY <2>2, ShutdownKeeps, ExecuteKeeps, ExecutedKeeps, FlushKeeps, BuildKeeps, SaveKeeps,
       ClearKeeps, FinishKeeps, RecoverKeeps, StartKeeps, SMTT(30) DEF Manager
  <2>3. CASE StoreCertificates \/ DetectEpochBoundary \/ ModeTransition
    BY <2>3, StoreKeeps, DetectKeeps, ModeKeeps
  <2>4. CASE DrainTimeout \/ ExecutionTimeout \/ Crash
    BY <2>4, StopKeeps
  <2>5. CASE \/ \E e \in Epochs : PeersCertify(e) \/ ResolveForeignDigest(e)
                                  \/ CollectEpochRecord(e) \/ CollectPastHole(e)
             \/ \E p \in Peer, r \in states : CountVote(p, r)
             \/ DropCertified \/ WakeCollector \/ Certify
    BY <2>5, CertificationKeeps
  <2> QED BY <2>1, <2>2, <2>3, <2>4, <2>5 DEF Next
<1> QED BY <1>1, <1>2, PTL DEF Spec

\* A closed epoch keeps its record, certified or pending, in every state of the
\* database a crash may leave (run_epoch_transition, recover_partial_transition,
\* write_epoch_record).
THEOREM ClosedKeptTheorem == Spec => []ClosedKept
<1>1. IInv => ClosedKept
  <2> SUFFICES ASSUME IInv, pc = "run", NEW d \in disk, NEW e \in 1..(epoch - 1)
               PROVE  Row(d.pend, e) # {} \/ Certified(d, e)
    BY SMTT(30) DEF ClosedKept
  <2>1. AllKept(d) /\ epoch = evm.tip + 1 /\ evm.tip \in Nat
    BY StepFacts, Zenon DEF IInv, ManagerOk, Typed, Closing
  <2>2. e \in 1..evm.tip
    BY <2>1
  <2> QED BY <2>1, <2>2 DEF AllKept, Kept
<1> QED BY <1>1, IInvInvariant, PTL

\* The validator signs only the records its peers build, unless a recovery took
\* a lost boundary block for executed (write_epoch_record,
\* resume_pending_certification).
THEOREM SignsAgreedTheorem == Spec => []SignsAgreed
<1>1. IInv => SignsAgreed
  BY DEF IInv, MemoryAgreed, SignsAgreed
<1> QED BY <1>1, IInvInvariant, PTL
=============================================================================
