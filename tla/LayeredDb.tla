------------------------------- MODULE LayeredDb -------------------------------
(***************************************************************************)
(* One table of the consensus database (storage/src/layered_db.rs and      *)
(* mem_db.rs): a cache of rows in front of a persistent tier.  A write     *)
(* changes the cache and queues a message under one lock; one background   *)
(* thread, db_run, applies the messages in order, and a row may leave the  *)
(* cache once no queued message is about it.  A failure of the persistent  *)
(* tier poisons the database: nothing is applied from then on.             *)
(*                                                                         *)
(* The queue is kept with its past: log holds every message since the      *)
(* database was opened, head counts those the writer has taken, and base   *)
(* those whose rows it has released.  A row's in-flight count is then the  *)
(* number of messages about it after base.                                 *)
(***************************************************************************)
EXTENDS Integers, Sequences, FiniteSets

CONSTANTS Key, Value,
          None,     \* no value
          Empty,    \* the empty bytes of a tombstone for a key not in the cache
          MaxLog,   \* messages queued in the life of one process,
          MaxLogGet \* and those queued before a get has ended

ASSUME ValueAssumption == /\ None \notin Value /\ Empty \notin Value /\ None # Empty
                          /\ None \notin Key
ASSUME BoundAssumption == MaxLog \in Nat /\ MaxLogGet \in Nat

VARIABLES mem,       \* the cached rows
          clearing,  \* a clear is queued and not yet applied
          log,       \* the messages queued since the database was opened
          head,      \* messages the writer has taken
          base,      \* messages released: applied, and committed if in a txn
          settling,  \* the writer has landed its message, and now releases it
          open,      \* the writer has a write transaction open
          view,      \* what that transaction would commit
          disk,      \* the persistent tier
          fatal,     \* the database is poisoned
          late,      \* a producer passed the check for poison just before it
          held,      \* a LayeredDbTxMut holds the lock of the cache
          kv,        \* the table as its callers wrote it
          start,     \* the persistent tier when the database was opened
          acked,     \* messages before the last persist that succeeded
          read       \* a LayeredDatabase::get in progress

memVars == <<mem, clearing, kv, read>>
writerVars == <<head, base, settling, open, view, disk, fatal>>
vars == <<mem, clearing, log, head, base, settling, open, view, disk, fatal,
          late, held, kv, start, acked, read>>

Content == Value \cup {None}
StoreEntry == [cached : BOOLEAN, value : Content \cup {Empty},
               tombstoned : BOOLEAN, in_flight : Nat]

Entry(value, tombstoned, in_flight) ==
    [cached |-> TRUE, value |-> value, tombstoned |-> tombstoned, in_flight |-> in_flight]
NoEntry == [cached |-> FALSE, value |-> None, tombstoned |-> FALSE, in_flight |-> 0]
NoRead == [at |-> "idle", key |-> None, seen |-> {}, result |-> None]

Live(k) == mem[k].cached /\ ~mem[k].tombstoned
Cached == {k \in Key : mem[k].cached}

(***************************************************************************)
(* What a message does to the persistent tier, and which rows it holds in  *)
(* the cache.                                                              *)
(***************************************************************************)
InsertOf(k, v) == [op |-> "Insert", key |-> k, val |-> v, keys |-> {}]
RemoveOf(k) == [op |-> "Remove", key |-> k, val |-> None, keys |-> {}]
ClearOf(ks) == [op |-> "Clear", key |-> None, val |-> None, keys |-> ks]
Control(op) == [op |-> op, key |-> None, val |-> None, keys |-> {}]

Message ==
    {InsertOf(k, v) : k \in Key, v \in Value} \cup {RemoveOf(k) : k \in Key}
      \cup {ClearOf(ks) : ks \in SUBSET Key}
      \cup {Control(op) : op \in {"StartTxn", "CommitTxn", "CaughtUp"}}

Applied(msg, d) ==
    CASE msg.op \in {"Insert", "Remove"} -> [d EXCEPT ![msg.key] = msg.val]
      [] msg.op = "Clear" -> [k \in Key |-> None]
      [] OTHER -> d

Counts(msg, k) == msg.key = k \/ k \in msg.keys

\* The messages after base that are about k.
InFlight(k) == {i \in (base + 1)..Len(log) : Counts(log[i], k)}

(***************************************************************************)
(* Producers.  A write checks for poison before it takes the lock, so one  *)
(* may get through just after the database was poisoned.                   *)
(***************************************************************************)
\* The read in progress could now answer with what its key holds.
Witness == read' = [read EXCEPT !.seen =
                        IF read.at = "idle" THEN @ ELSE @ \cup {kv'[read.key]}]

Enqueue(msg) ==
    /\ \/ Len(log) < (IF read.at = "idle" THEN MaxLog ELSE MaxLogGet)
       \/ msg.op = "CommitTxn"
    /\ ~fatal \/ late
    /\ late' = FALSE
    /\ log' = Append(log, msg)

insert_impl(k, v) ==
    /\ mem' = [mem EXCEPT ![k] = Entry(v, FALSE, @.in_flight + 1)]
    /\ kv' = [kv EXCEPT ![k] = v]
    /\ UNCHANGED clearing
    /\ Witness

remove_impl(k) ==
    /\ mem' = [mem EXCEPT ![k] = Entry(IF @.cached THEN @.value ELSE Empty, TRUE,
                                       @.in_flight + 1)]
    /\ kv' = [kv EXCEPT ![k] = None]
    /\ UNCHANGED clearing
    /\ Witness

clear_table_implNoFlag ==
    /\ mem' = [k \in Key |-> IF mem[k].cached
                             THEN Entry(mem[k].value, TRUE, mem[k].in_flight + 1)
                             ELSE mem[k]]
    /\ kv' = [k \in Key |-> None]
    /\ UNCHANGED clearing
    /\ Witness

clear_table_impl ==
    /\ mem' = [k \in Key |-> IF mem[k].cached
                             THEN Entry(mem[k].value, TRUE, mem[k].in_flight + 1)
                             ELSE mem[k]]
    /\ clearing' = TRUE
    /\ kv' = [k \in Key |-> None]
    /\ Witness

\* The same writes are made by LayeredDatabase, which takes the lock for each,
\* and by a LayeredDbTxMut, which holds it from write_txn to commit.
Insert(k, v) ==
    /\ Enqueue(InsertOf(k, v))
    /\ insert_impl(k, v)
    /\ UNCHANGED <<writerVars, held, start, acked>>

Remove(k) ==
    /\ Enqueue(RemoveOf(k))
    /\ remove_impl(k)
    /\ UNCHANGED <<writerVars, held, start, acked>>

ClearTable ==
    /\ Enqueue(ClearOf(Cached))
    /\ clear_table_impl
    /\ UNCHANGED <<writerVars, held, start, acked>>

WriteTxn ==
    /\ ~held /\ held' = TRUE
    /\ Enqueue(Control("StartTxn"))
    /\ UNCHANGED <<memVars, writerVars, start, acked>>

CommitTxnMut ==
    /\ held /\ held' = FALSE
    /\ Enqueue(Control("CommitTxn"))
    /\ UNCHANGED <<memVars, writerVars, start, acked>>

\* A write or the commit of a transaction fails on a poisoned database; the
\* closure of with_write_txn returns the error and the transaction is dropped.
DropTxnMut ==
    /\ held /\ held' = FALSE
    /\ fatal
    /\ UNCHANGED <<memVars, writerVars, log, late, start, acked>>

\* persist and sync_persist: no lock is taken.
Persist ==
    /\ Enqueue(Control("CaughtUp"))
    /\ UNCHANGED <<memVars, writerVars, held, start, acked>>

(***************************************************************************)
(* The background writer, db_run.  To release a message it takes the lock  *)
(* of the cache, as it does to look whether a removed key was written      *)
(* again.                                                                  *)
(***************************************************************************)
Taken == log[head + 1]
IsWrite(msg) == msg.op \in {"Insert", "Remove", "Clear"}
Take == ~settling /\ head < Len(log) /\ head' = head + 1

\* KeyRemove::remove outside a transaction leaves the persistent row alone when
\* the key is live in the cache: it was written again.
RemoveSkipped(msg) == msg.op = "Remove" /\ Live(msg.key)
LockFree(msg) == msg.op = "Remove" /\ ~open => ~held

Trip == fatal' = TRUE /\ late' \in BOOLEAN

DiscardStops ==
    /\ Take /\ fatal
    /\ Taken.op # "CaughtUp"
    /\ UNCHANGED <<memVars, log, base, settling, open, view, disk, fatal, late, held,
                   start, acked>>

Discard ==
    /\ Take /\ fatal
    /\ UNCHANGED <<memVars, log, base, settling, open, view, disk, fatal, late, held,
                   start, acked>>

\* The persistent tier fails: write_txn, a commit or a write.
Fail ==
    /\ Take /\ ~fatal
    /\ Taken.op # "CaughtUp"
    /\ LockFree(Taken)
    /\ ~open => ~RemoveSkipped(Taken)
    /\ Trip
    /\ open' = (open /\ Taken.op # "CommitTxn")
    /\ UNCHANGED <<memVars, log, base, settling, view, disk, held, start, acked>>

\* The writer also trips on a StartTxn inside a transaction and on a CommitTxn
\* outside of one.  By InTxnOrder neither is ever taken.
StartTxn ==
    /\ Take /\ ~fatal /\ ~open
    /\ Taken.op = "StartTxn"
    /\ open' = TRUE
    /\ view' = disk
    /\ UNCHANGED <<memVars, log, base, settling, disk, fatal, late, held, start, acked>>

CommitTxn ==
    /\ Take /\ ~fatal /\ open
    /\ Taken.op = "CommitTxn"
    /\ open' = FALSE
    /\ disk' = view
    /\ settling' = TRUE
    /\ UNCHANGED <<memVars, log, base, view, fatal, late, held, start, acked>>

ApplyInTxnDirect ==
    /\ Take /\ ~fatal /\ open
    /\ IsWrite(Taken)
    /\ view' = Applied(Taken, view)
    /\ disk' = Applied(Taken, disk)
    /\ UNCHANGED <<memVars, log, base, settling, open, fatal, late, held, start, acked>>

ApplyInTxn ==
    /\ Take /\ ~fatal /\ open
    /\ IsWrite(Taken)
    /\ view' = Applied(Taken, view)
    /\ UNCHANGED <<memVars, log, base, settling, open, disk, fatal, late, held, start,
                   acked>>

Apply ==
    /\ Take /\ ~fatal /\ ~open
    /\ IsWrite(Taken)
    /\ LockFree(Taken)
    /\ disk' = IF RemoveSkipped(Taken) THEN disk ELSE Applied(Taken, disk)
    /\ settling' = TRUE
    /\ UNCHANGED <<memVars, log, base, open, view, fatal, late, held, start, acked>>

\* on_op_applied and on_clear_applied, one message at a time: after its write,
\* or for every message of a transaction after the commit.
Release ==
    LET msg == log[base + 1] IN
    /\ settling /\ base < head
    /\ ~held
    /\ base' = base + 1
    /\ mem' = [k \in Key |-> IF mem[k].cached /\ Counts(msg, k)
                             THEN Entry(mem[k].value, mem[k].tombstoned, mem[k].in_flight - 1)
                             ELSE mem[k]]
    /\ clearing' = (clearing /\ msg.op # "Clear")
    /\ UNCHANGED <<log, head, settling, open, view, disk, fatal, late, held, kv, start,
                   acked, read>>

\* evict_if_needed takes settled rows out of the cache; its size and the age of
\* the rows, which decide which ones, are left open.
Evictable(E) == \A k \in E : mem[k].cached /\ mem[k].in_flight = 0

Evict(E) ==
    /\ Evictable(E)
    /\ E # {} => ~held
    /\ mem' = [k \in Key |-> IF k \in E THEN NoEntry ELSE mem[k]]
    /\ UNCHANGED <<clearing, kv, read>>

Settled ==
    /\ settling /\ base = head
    /\ \E E \in SUBSET Key : Evict(E)
    /\ settling' = FALSE
    /\ UNCHANGED <<log, head, base, open, view, disk, fatal, late, held, start, acked>>

\* A barrier: it succeeds once it is reached, even inside a transaction that is
\* not committed yet.  acked leaves those out, as the comment of the code does.
CaughtUp ==
    /\ Take /\ ~fatal
    /\ Taken.op = "CaughtUp"
    /\ \/ /\ open
          /\ UNCHANGED <<memVars, base, acked>>
       \/ /\ ~open
          /\ \E E \in SUBSET Key : Evict(E)
          /\ base' = base + 1
          /\ acked' = head'
    /\ UNCHANGED <<log, settling, open, view, disk, fatal, late, held, start>>

Writer ==
    \/ Discard \/ Fail \/ StartTxn \/ CommitTxn \/ ApplyInTxn \/ Apply \/ Release
    \/ Settled \/ CaughtUp

(***************************************************************************)
(* LayeredDatabase::get, which takes the lock of the cache three times and *)
(* then reads the persistent tier.  read.seen holds what the key has held  *)
(* since the call.                                                         *)
(***************************************************************************)
Answer(v) == read' = [read EXCEPT !.at = "done", !.result = v]
GoOn(at) == read' = [read EXCEPT !.at = at]

Get(k) ==
    /\ read.at = "idle"
    /\ Len(log) <= MaxLogGet
    /\ read' = [at |-> "is_tombstoned", key |-> k, seen |-> {kv[k]}, result |-> None]

IsTombstoned ==
    /\ read.at = "is_tombstoned" /\ ~held
    /\ IF mem[read.key].cached /\ mem[read.key].tombstoned
       THEN Answer(None)
       ELSE GoOn("get_marked")

\* decode panics on the empty bytes of a tombstone.
GetMarked ==
    /\ read.at = "get_marked" /\ ~held
    /\ LET row == mem[read.key] IN
       CASE ~row.cached -> GoOn("is_clearing")
         [] row.cached /\ row.value = Empty -> GoOn("panic")
         [] OTHER -> Answer(row.value)

IsClearingIgnored ==
    /\ read.at = "is_clearing" /\ ~held
    /\ GoOn("db_get")

IsClearing ==
    /\ read.at = "is_clearing" /\ ~held
    /\ IF clearing THEN Answer(None) ELSE GoOn("db_get")

DbGet ==
    /\ read.at = "db_get"
    /\ Answer(disk[read.key])

Return ==
    /\ read.at = "done"
    /\ read' = NoRead

Reader ==
    /\ (\E k \in Key : Get(k)) \/ IsTombstoned \/ GetMarked \/ IsClearing \/ DbGet \/ Return
    /\ UNCHANGED <<mem, clearing, kv, writerVars, log, late, held, start, acked>>

(***************************************************************************)
(* The process dies: what was committed to the persistent tier survives,   *)
(* and the database is opened on it with an empty cache.                   *)
(***************************************************************************)
Init ==
    /\ disk \in [Key -> Content]
    /\ mem = [k \in Key |-> NoEntry] /\ clearing = FALSE
    /\ log = <<>> /\ head = 0 /\ base = 0 /\ acked = 0
    /\ settling = FALSE /\ open = FALSE /\ fatal = FALSE /\ late = FALSE /\ held = FALSE
    /\ view = disk /\ kv = disk /\ start = disk
    /\ read = NoRead

Crash ==
    /\ UNCHANGED disk
    /\ mem' = [k \in Key |-> NoEntry] /\ clearing' = FALSE
    /\ log' = <<>> /\ head' = 0 /\ base' = 0 /\ acked' = 0
    /\ settling' = FALSE /\ open' = FALSE /\ fatal' = FALSE /\ late' = FALSE /\ held' = FALSE
    /\ view' = disk /\ kv' = disk /\ start' = disk
    /\ read' = NoRead

Producer ==
    \/ \E k \in Key, v \in Value : Insert(k, v)
    \/ \E k \in Key : Remove(k)
    \/ ClearTable \/ WriteTxn \/ CommitTxnMut \/ DropTxnMut \/ Persist

Next == Producer \/ Writer \/ Reader \/ Crash

Spec == Init /\ [][Next]_vars

-----------------------------------------------------------------------------
TypeOK ==
    /\ mem \in [Key -> StoreEntry] /\ clearing \in BOOLEAN
    /\ log \in Seq(Message)
    /\ head \in 0..Len(log) /\ base \in 0..head /\ acked \in 0..Len(log)
    /\ settling \in BOOLEAN /\ open \in BOOLEAN /\ fatal \in BOOLEAN
    /\ late \in BOOLEAN /\ held \in BOOLEAN
    /\ disk \in [Key -> Content] /\ view \in [Key -> Content]
    /\ kv \in [Key -> Content] /\ start \in [Key -> Content]

\* LayeredDbTx::get, which reads one snapshot of the cache.
TxGet(k) ==
    CASE Live(k) -> mem[k].value
      [] mem[k].cached /\ mem[k].tombstoned -> None
      [] ~mem[k].cached /\ clearing -> None
      [] OTHER -> disk[k]

\* Every key reads as it was last written, whatever the writer has applied,
\* evicted or failed to apply: no queued, cleared or evicted row shows through
\* as an older value (LayeredDbTx::get).
ReadsLatest == \A k \in Key : TxGet(k) = kv[k]

\* The in-flight count of a cached row is the number of messages about it that
\* are not released, and there is none about a key outside the cache: dropping
\* a row with count zero loses nothing (StoreEntry, on_op_applied).
CountsExact ==
    \A k \in Key : IF mem[k].cached THEN mem[k].in_flight = Cardinality(InFlight(k))
                   ELSE InFlight(k) = {}

\* The writer meets a StartTxn only outside and a CommitTxn only inside a
\* transaction: the lock held by a LayeredDbTxMut keeps transactions apart in
\* the queue.
InTxnOrder ==
    ~fatal /\ head < Len(log) =>
        /\ Taken.op = "StartTxn" => ~open
        /\ Taken.op = "CommitTxn" => open

\* The messages whose effect is in the persistent tier.
Landed == IF settling THEN head ELSE base

\* The table after the first n messages.
After[n \in Nat] == IF n = 0 THEN start ELSE Applied(log[n], After[n - 1])

\* A removal the writer skipped, and the write that will replace the row.
Replaced(k, n) == \E i \in 1..n, j \in (n + 1)..Len(log) :
                      /\ log[i] = RemoveOf(k)
                      /\ log[j].op = "Insert" /\ log[j].key = k

\* The persistent tier holds the table as it was after some message, never
\* between two writes of a transaction, and a successful persist has landed all
\* messages before it; only a key whose removal was skipped may hold an older
\* value, until the write queued after the removal lands (db_run, KeyRemove).
\* The writer never meets a transaction inside another, for which db_run would
\* poison the database.
CommittedPrefix ==
    /\ InTxnOrder
    /\ acked <= Landed
    /\ \A k \in Key : disk[k] = After[Landed][k] \/ Replaced(k, Landed)
    /\ ~settling /\ base > 0 =>
          Cardinality({i \in 1..base : log[i].op = "StartTxn"})
            = Cardinality({i \in 1..base : log[i].op = "CommitTxn"})

\* A get answers with a value its key held between the call and the answer,
\* though it looks at the cache three times and at the persistent tier once
\* while writers and the background thread run (LayeredDatabase::get).
ReadLinearizable == read.at = "done" => read.result \in read.seen

\* While messages are queued the writer can go on as soon as no transaction
\* holds the lock, poisoned or not: nobody waits for ever for a persist, or for
\* the lock (db_run goes on to reject barriers after a failure).
WriterNeverStuck ==
    ~held /\ (settling \/ head < Len(log)) => ENABLED Writer

=============================================================================
