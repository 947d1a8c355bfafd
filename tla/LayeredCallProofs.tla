------------------------- MODULE LayeredCallProofs -------------------------
(***************************************************************************)
(* What the callers of the database may rely on, for every set of keys and *)
(* values and every number of messages: LayeredDatabase::get is            *)
(* linearizable, transactions reach the writer one after the other, and a  *)
(* persist that succeeds has landed all messages before it.                *)
(*                                                                         *)
(* Get: once the get has found no row in the cache, what the persistent    *)
(* tier holds, or an open transaction is about to commit, has been the     *)
(* value of the key since the call, and so is what every message not yet   *)
(* taken will write (PastCache); unless a clear from before is still to    *)
(* land: then the flag is up and the get answers None.  That the tier may  *)
(* be trusted when the row is missing comes from the invariant of          *)
(* LayeredDbProofs.                                                        *)
(*                                                                         *)
(* Transactions: between the writer and the end of the queue the messages  *)
(* open and close transactions in turn, from where the writer stands to    *)
(* who holds the lock now (TxnQueue).                                      *)
(***************************************************************************)
EXTENDS LayeredDbProofs

Steps == {"idle", "is_tombstoned", "get_marked", "is_clearing", "db_get", "done", "panic"}
ReadTyped ==
    /\ read \in [at : Steps, key : Key \cup {None}, seen : SUBSET Content,
                 result : Content \cup {Empty}]
    /\ read.at # "idle" => read.key \in Key /\ kv[read.key] \in read.seen

\* Message msg changes the persistent row of k.
Changes(msg, k) == msg.op = "Clear" \/ Counts(msg, k)

\* No clear from before the get is still to reach the tier, or the transaction.
DiskKnown ==
    ~clearing \/ read.at = "db_get" \/ (settling /\ Clears(base, head) # {})
ViewKnown ==
    open /\ ~fatal /\ (~clearing \/ read.at = "db_get" \/ Clears(base, head) # {})

PastCache ==
    /\ DiskKnown => disk[read.key] \in read.seen
    /\ ViewKnown => view[read.key] \in read.seen
    /\ \A i \in (head + 1)..Len(log) : Changes(log[i], read.key) => log[i].val \in read.seen

ReadOk ==
    /\ ReadTyped
    /\ read.at = "get_marked" /\ mem[read.key].cached => mem[read.key].value \in read.seen \cup {Empty}
    /\ read.at = "is_clearing" /\ clearing => None \in read.seen
    /\ read.at \in {"is_clearing", "db_get"} => PastCache
    /\ read.at = "done" => read.result \in read.seen

\* A write, or a message that writes nothing, adds the value it leaves to what
\* the get may answer.
LEMMA QueuedRead ==
    ASSUME IInv, ReadOk, NEW m \in Message, log' = Append(log, m), UNCHANGED writerVars, ReadTyped',
           read'.at = read.at, read'.key = read.key, read'.result = read.result,
           read.seen \subseteq read'.seen,
           \A k \in Key : Changes(m, k) => m.val = kv'[k],
           \A k \in Key : mem'[k].cached =>
               \/ mem[k].cached /\ mem'[k].value = mem[k].value
               \/ mem'[k].value \in {kv'[k], Empty},
           clearing \in BOOLEAN, clearing => clearing',
           clearing' => clearing \/ \A k \in Key : kv'[k] = None
    PROVE  ReadOk'
<1>0. /\ UNCHANGED <<head, base, settling, open, view, disk, fatal>> /\ Typed
      /\ read'.at # "idle" => read.key \in Key /\ kv'[read.key] \in read'.seen
  BY DEF writerVars, IInv, ReadTyped
<1>1. read.at = "get_marked" /\ mem'[read.key].cached => mem'[read.key].value \in read'.seen \cup {Empty}
  BY <1>0 DEF ReadOk
<1>2. read.at = "is_clearing" /\ clearing' => None \in read'.seen
  BY <1>0 DEF ReadOk
<1>3. ASSUME read.at \in {"is_clearing", "db_get"} PROVE PastCache'
  <2>1. PastCache /\ read.key \in Key /\ kv'[read.key] \in read'.seen
    BY <1>0, <1>3 DEF ReadOk
  <2>2. Clears(base, head)' = Clears(base, head)
    BY <1>0, QueuedClears
  <2>3. (DiskKnown' => DiskKnown) /\ (ViewKnown' => ViewKnown)
    BY <1>0, <2>2, Zenon DEF DiskKnown, ViewKnown
  <2>4. ASSUME NEW i \in (head' + 1)..Len(log'), Changes(log'[i], read.key)
        PROVE  log'[i].val \in read'.seen
    <3>1. /\ Len(log') = Len(log) + 1 /\ Len(log) \in Nat /\ log'[Len(log) + 1] = m
          /\ \A j \in 1..Len(log) : log'[j] = log[j]
      BY <1>0, Queued
    <3>2. head \in Nat /\ head <= Len(log)
      BY <1>0 DEF Typed
    <3>3. i = Len(log) + 1 \/ (i \in (head + 1)..Len(log) /\ i \in 1..Len(log))
      BY <1>0, <3>1, <3>2
    <3>4. CASE i = Len(log) + 1
      BY <2>1, <2>4, <3>1, <3>4, Zenon
    <3>5. CASE i \in (head + 1)..Len(log) /\ i \in 1..Len(log)
      <4>1. log'[i] = log[i]
        BY <3>1, <3>5
      <4>2. log[i].val \in read.seen
        BY <2>1, <2>4, <3>5, <4>1, Zenon DEF PastCache
      <4> QED BY <4>1, <4>2
    <3> QED BY <3>3, <3>4, <3>5
  <2>5. /\ DiskKnown' => disk'[read'.key] \in read'.seen
        /\ ViewKnown' => view'[read'.key] \in read'.seen
    BY <1>0, <2>1, <2>3, Zenon DEF PastCache
  <2>6. \A i \in (head' + 1)..Len(log') : Changes(log'[i], read'.key) => log'[i].val \in read'.seen
    BY <2>4, Zenon
  <2> QED BY <2>5, <2>6, Zenon DEF PastCache, Changes, Counts
<1>4. read.at = "done" => read'.result \in read'.seen
  BY DEF ReadOk
<1> QED BY <1>1, <1>2, <1>3, <1>4, Zenon DEF ReadOk

\* What Witness does to the get in progress.
LEMMA WitnessFacts ==
    ASSUME ReadTyped, Witness, kv' \in [Key -> Content]
    PROVE  /\ ReadTyped' /\ read'.at = read.at /\ read'.key = read.key
           /\ read'.result = read.result /\ read.seen \subseteq read'.seen
<1>1. CASE read.at = "idle"
  <2>1. read' = read
    BY <1>1 DEF Witness, ReadTyped
  <2> QED BY <1>1, <2>1 DEF ReadTyped
<1>2. CASE read.at # "idle"
  <2>1. read' = [read EXCEPT !.seen = @ \cup {kv'[read.key]}] /\ read.key \in Key
    BY <1>2 DEF Witness, ReadTyped
  <2>2. /\ read'.at = read.at /\ read'.key = read.key /\ read'.result = read.result
        /\ read'.seen = read.seen \cup {kv'[read.key]}
    BY <2>1 DEF ReadTyped
  <2>3. kv'[read.key] \in Content
    BY <2>1
  <2>4. read' \in [at : Steps, key : Key \cup {None}, seen : SUBSET Content, result : Content \cup {Empty}]
    BY <2>1, <2>3 DEF ReadTyped
  <2> QED BY <2>1, <2>2, <2>4 DEF ReadTyped
<1> QED BY <1>1, <1>2

\* Producers.
LEMMA ProducerRead ==
    ASSUME IInv, ReadOk, Producer
    PROVE  ReadOk'
<1>0. /\ Typed /\ ReadTyped /\ mem \in [Key -> StoreEntry] /\ kv \in [Key -> Content]
      /\ clearing \in BOOLEAN /\ None \notin Key
  BY ValueAssumption DEF IInv, Typed, ReadOk
<1>1. ASSUME NEW k \in Key, NEW v \in Value, Insert(k, v) PROVE ReadOk'
  <2>1. /\ log' = Append(log, InsertOf(k, v)) /\ UNCHANGED writerVars /\ clearing' = clearing /\ Witness
        /\ mem' = [mem EXCEPT ![k] = Entry(v, FALSE, @.in_flight + 1)] /\ kv' = [kv EXCEPT ![k] = v]
    BY <1>1 DEF Insert, Enqueue, insert_impl
  <2>2. kv' \in [Key -> Content] /\ InsertOf(k, v) \in Message
    BY <1>0, <2>1, IsMessage DEF Content
  <2>3. \A j \in Key : Changes(InsertOf(k, v), j) => InsertOf(k, v).val = kv'[j]
    BY <1>0, <2>1 DEF Changes, Counts, InsertOf
  <2>4. \A j \in Key : mem'[j].cached => \/ mem[j].cached /\ mem'[j].value = mem[j].value
                                         \/ mem'[j].value \in {kv'[j], Empty}
    BY <1>0, <2>1 DEF Entry
  <2> QED BY <1>0, <2>1, <2>2, <2>3, <2>4, WitnessFacts, QueuedRead, Zenon
<1>2. ASSUME NEW k \in Key, Remove(k) PROVE ReadOk'
  <2>1. /\ log' = Append(log, RemoveOf(k)) /\ UNCHANGED writerVars /\ clearing' = clearing /\ Witness
        /\ mem' = [mem EXCEPT ![k] = Entry(IF @.cached THEN @.value ELSE Empty, TRUE, @.in_flight + 1)]
        /\ kv' = [kv EXCEPT ![k] = None]
    BY <1>2 DEF Remove, Enqueue, remove_impl
  <2>2. kv' \in [Key -> Content] /\ RemoveOf(k) \in Message
    BY <1>0, <2>1, IsMessage DEF Content
  <2>3. \A j \in Key : Changes(RemoveOf(k), j) => RemoveOf(k).val = kv'[j]
    BY <1>0, <2>1 DEF Changes, Counts, RemoveOf
  <2>4. \A j \in Key : mem'[j].cached => \/ mem[j].cached /\ mem'[j].value = mem[j].value
                                         \/ mem'[j].value \in {kv'[j], Empty}
    BY <1>0, <2>1 DEF Entry
  <2> QED BY <1>0, <2>1, <2>2, <2>3, <2>4, WitnessFacts, QueuedRead, Zenon
<1>3. CASE ClearTable
  <2>1. /\ log' = Append(log, ClearOf(Cached)) /\ UNCHANGED writerVars /\ clearing' = TRUE /\ Witness
        /\ mem' = [k \in Key |-> IF mem[k].cached THEN Entry(mem[k].value, TRUE, mem[k].in_flight + 1)
                                 ELSE mem[k]]
        /\ kv' = [k \in Key |-> None]
    BY <1>3 DEF ClearTable, Enqueue, clear_table_impl
  <2>2. kv' \in [Key -> Content] /\ ClearOf(Cached) \in Message /\ \A j \in Key : kv'[j] = None
    BY <2>1, IsMessage DEF Content, Cached
  <2>3. \A j \in Key : Changes(ClearOf(Cached), j) => ClearOf(Cached).val = kv'[j]
    BY <2>2 DEF ClearOf
  <2>4. \A j \in Key : mem'[j].cached => \/ mem[j].cached /\ mem'[j].value = mem[j].value
                                         \/ mem'[j].value \in {kv'[j], Empty}
    BY <1>0, <2>1 DEF Entry
  <2> QED BY <1>0, <2>1, <2>2, <2>3, <2>4, WitnessFacts, QueuedRead, Zenon
<1>4. CASE WriteTxn \/ CommitTxnMut \/ Persist
  <2>1. PICK op \in {"StartTxn", "CommitTxn", "CaughtUp"} :
            log' = Append(log, Control(op)) /\ UNCHANGED <<memVars, writerVars>>
    BY <1>4 DEF WriteTxn, CommitTxnMut, Persist, Enqueue
  <2>2. UNCHANGED <<mem, clearing, kv, read, writerVars>> /\ Control(op) \in Message
    BY <2>1, IsMessage DEF memVars
  <2>3. \A j \in Key : ~Changes(Control(op), j)
    BY <1>0 DEF Changes, Counts, Control
  <2>4. ReadTyped'
    BY <1>0, <2>2 DEF ReadTyped
  <2> QED BY <1>0, <2>1, <2>2, <2>3, <2>4, QueuedRead
<1>5. CASE DropTxnMut
  <2>1. UNCHANGED <<mem, clearing, kv, read, log, head, base, settling, open, view, disk, fatal>>
    BY <1>5 DEF DropTxnMut, memVars, writerVars
  <2> QED BY <2>1, Zenon DEF ReadOk, ReadTyped, PastCache, DiskKnown, ViewKnown, Clears, Changes, Counts
<1> QED BY <1>1, <1>2, <1>3, <1>4, <1>5 DEF Producer

\* A step of the writer: rows only leave the cache, the flag only goes down.
LEMMA WriterFrame ==
    ASSUME ReadOk, UNCHANGED <<kv, read>>, clearing' => clearing,
           \A k \in Key : mem'[k].cached => mem[k].cached /\ mem'[k].value = mem[k].value,
           read.at \in {"is_clearing", "db_get"} => PastCache'
    PROVE  ReadOk'
<1>1. ReadTyped' /\ (read.at # "idle" => read.key \in Key)
  BY DEF ReadOk, ReadTyped
<1> QED BY <1>1, Zenon DEF ReadOk

\* The writer takes a message: what it has not taken is less, and what lands is
\* what was known before or what the message writes.
LEMMA TakeRead ==
    ASSUME IInv, ReadOk, Take, log' = log, base' = base, UNCHANGED memVars,
           read.at \in {"is_clearing", "db_get"} /\ DiskKnown' =>
               \/ DiskKnown /\ disk'[read.key] = disk[read.key]
               \/ ViewKnown /\ disk'[read.key] = view[read.key]
               \/ Changes(Taken, read.key) /\ disk'[read.key] = Taken.val,
           read.at \in {"is_clearing", "db_get"} /\ ViewKnown' =>
               \/ ViewKnown /\ view'[read.key] = view[read.key]
               \/ DiskKnown /\ view'[read.key] = disk[read.key]
               \/ Changes(Taken, read.key) /\ view'[read.key] = Taken.val
    PROVE  ReadOk'
<1>1. /\ UNCHANGED <<mem, clearing, kv, read>> /\ Typed
      /\ head' = head + 1 /\ head + 1 \in (head + 1)..Len(log) /\ log[head + 1] = Taken
      /\ \A i : i \in (head' + 1)..Len(log) => i \in (head + 1)..Len(log)
  <2>1. Typed /\ UNCHANGED <<mem, clearing, kv, read>>
    BY DEF IInv, memVars
  <2>2. head' = head + 1 /\ Len(log) \in Nat /\ log[head + 1] = Taken /\ head < Len(log) /\ head \in Nat
    BY <2>1, TakeFacts, Zenon DEF Take, Typed
  <2> QED BY <2>1, <2>2
<1>2. ASSUME read.at \in {"is_clearing", "db_get"} PROVE PastCache'
  <2>1. PastCache
    BY <1>2, Zenon DEF ReadOk
  <2>2. Changes(Taken, read.key) => Taken.val \in read.seen
    BY <1>1, <2>1, Zenon DEF PastCache
  <2>3. DiskKnown' => disk'[read.key] \in read.seen
    BY <1>2, <2>1, <2>2, Zenon DEF PastCache
  <2>4. ViewKnown' => view'[read.key] \in read.seen
    BY <1>2, <2>1, <2>2, Zenon DEF PastCache
  <2>5. \A i \in (head' + 1)..Len(log) : Changes(log[i], read.key) => log[i].val \in read.seen
    BY <1>1, <2>1, Zenon DEF PastCache
  <2> QED BY <1>1, <2>3, <2>4, <2>5, Zenon DEF PastCache, Changes, Counts
<1> QED BY <1>1, <1>2, WriterFrame, Zenon

\* Taking a message that changes the key, or one that does not.
LEMMA TakenWrite ==
    ASSUME IInv, Take, log' = log, base' = base, IsWrite(Taken), NEW d \in [Key -> Content],
           NEW k \in Key
    PROVE  \/ Changes(Taken, k) /\ Applied(Taken, d)[k] = Taken.val
           \/ /\ Taken.op # "Clear" /\ Clears(base, head)' = Clears(base, head)
              /\ Applied(Taken, d)[k] = d[k]
<1>1. /\ Taken \in Message
      /\ Taken.op # "Clear" => Clears(base, head)' = Clears(base, head)
  BY TakeFacts DEF IInv
<1>2. Taken.op = "Clear" => Taken.val = None
  BY <1>1, MessageFacts
<1> QED BY <1>1, <1>2, AppliedFacts, Zenon DEF Changes

\* The writer.
LEMMA WriterRead ==
    ASSUME IInv, ReadOk, Writer
    PROVE  ReadOk'
<1>0. /\ Typed /\ Lifecycle /\ ReadTyped /\ disk \in [Key -> Content] /\ view \in [Key -> Content]
      /\ read.at \in {"is_clearing", "db_get"} => read.key \in Key
  BY DEF IInv, Typed, ReadOk, ReadTyped
<1>1. ASSUME Take, log' = log, base' = base, Taken.op # "Clear"
      PROVE  Clears(base, head)' = Clears(base, head)
  BY <1>0, <1>1, TakeFacts
<1>2. CASE Discard \/ Fail
  <2>1. /\ Take /\ log' = log /\ base' = base /\ UNCHANGED memVars /\ ~settling
        /\ disk' = disk /\ view' = view /\ settling' = settling /\ fatal' = TRUE
    BY <1>2 DEF Discard, Fail, Trip, Take, IInv, Typed
  <2>2. clearing' = clearing /\ read' = read
    BY <2>1 DEF memVars
  <2>3. (DiskKnown' => DiskKnown) /\ ~ViewKnown'
    BY <2>1, <2>2, Zenon DEF DiskKnown, ViewKnown
  <2> QED BY <2>1, <2>3, TakeRead, Zenon
<1>3. CASE StartTxn
  <2>1. /\ Take /\ log' = log /\ base' = base /\ UNCHANGED memVars /\ ~settling /\ ~open /\ ~fatal
        /\ disk' = disk /\ view' = disk /\ settling' = settling /\ Taken.op # "Clear"
    BY <1>3 DEF StartTxn, Take
  <2>2. clearing' = clearing /\ read' = read /\ base = head /\ Clears(base, head) = {}
    BY <1>0, <2>1 DEF memVars, Lifecycle, Clears, Typed
  <2>3. Clears(base, head)' = {}
    BY <1>1, <2>1, <2>2, Zenon
  <2>4. (DiskKnown' => DiskKnown) /\ (ViewKnown' => DiskKnown)
    BY <2>1, <2>2, <2>3, Zenon DEF DiskKnown, ViewKnown
  <2> QED BY <2>1, <2>4, TakeRead, Zenon
<1>4. CASE CommitTxn
  <2>1. /\ Take /\ log' = log /\ base' = base /\ UNCHANGED memVars /\ open /\ ~fatal
        /\ disk' = view /\ open' = FALSE /\ Taken.op # "Clear"
    BY <1>4 DEF CommitTxn
  <2>2. clearing' = clearing /\ read' = read /\ Clears(base, head)' = Clears(base, head)
    BY <1>1, <2>1, Zenon DEF memVars
  <2>3. (DiskKnown' => ViewKnown) /\ ~ViewKnown'
    BY <2>1, <2>2, Zenon DEF DiskKnown, ViewKnown
  <2> QED BY <2>1, <2>3, TakeRead, Zenon
<1>5. CASE ApplyInTxn
  <2>1. /\ Take /\ log' = log /\ base' = base /\ UNCHANGED memVars /\ open /\ ~fatal /\ ~settling
        /\ disk' = disk /\ open' = open /\ fatal' = fatal /\ settling' = settling
        /\ view' = Applied(Taken, view) /\ IsWrite(Taken)
    BY <1>5 DEF ApplyInTxn, Take
  <2>2. clearing' = clearing /\ read' = read
    BY <2>1 DEF memVars
  <2>3. DiskKnown' => DiskKnown
    BY <2>1, <2>2, Zenon DEF DiskKnown
  <2>4. ASSUME read.at \in {"is_clearing", "db_get"}, ViewKnown'
        PROVE  \/ ViewKnown /\ view'[read.key] = view[read.key]
               \/ Changes(Taken, read.key) /\ view'[read.key] = Taken.val
    <3>1. Clears(base, head)' = Clears(base, head) => ViewKnown
      BY <2>1, <2>2, <2>4, Zenon DEF ViewKnown
    <3> QED BY <1>0, <2>1, <2>4, <3>1, TakenWrite, Zenon
  <2> QED BY <2>1, <2>3, <2>4, TakeRead, Zenon
<1>6. CASE Apply
  <2>1. /\ Take /\ log' = log /\ base' = base /\ UNCHANGED memVars /\ ~open /\ ~fatal /\ ~settling
        /\ disk' = (IF RemoveSkipped(Taken) THEN disk ELSE Applied(Taken, disk))
        /\ open' = open /\ IsWrite(Taken)
    BY <1>6 DEF Apply, Take
  <2>2. clearing' = clearing /\ read' = read /\ base = head /\ Clears(base, head) = {}
    BY <1>0, <2>1 DEF memVars, Lifecycle, Clears, Typed
  <2>3. ~ViewKnown'
    BY <2>1, Zenon DEF ViewKnown
  <2>4. ASSUME read.at \in {"is_clearing", "db_get"}, DiskKnown'
        PROVE  \/ DiskKnown /\ disk'[read.key] = disk[read.key]
               \/ Changes(Taken, read.key) /\ disk'[read.key] = Taken.val
    <3>1. Clears(base, head)' = Clears(base, head) => DiskKnown
      BY <2>2, <2>4, Zenon DEF DiskKnown
    <3>2. CASE RemoveSkipped(Taken)
      <4>1. Taken.op # "Clear"
        BY <3>2 DEF RemoveSkipped
      <4> QED BY <1>1, <2>1, <3>1, <3>2, <4>1, Zenon
    <3>3. CASE ~RemoveSkipped(Taken)
      BY <1>0, <2>1, <2>4, <3>1, <3>3, TakenWrite, Zenon
    <3> QED BY <3>2, <3>3
  <2> QED BY <2>1, <2>3, <2>4, TakeRead, Zenon
<1>7. CASE Release
  <2>1. /\ settling /\ ~open /\ base < head /\ base' = base + 1
        /\ UNCHANGED <<log, head, settling, open, view, disk, fatal, kv, read>>
        /\ clearing' = (clearing /\ log[base + 1].op # "Clear")
        /\ \A k \in Key : mem'[k].cached => mem[k].cached /\ mem'[k].value = mem[k].value
    BY <1>0, <1>7, ZenonT(30) DEF Release, Entry, Lifecycle
  <2>2. /\ Clears(base, head)' = Clears(base, head) \ {base + 1}
        /\ log[base + 1].op = "Clear" => base + 1 \in Clears(base, head)
    BY <1>0, <2>1, ReleaseFacts
  <2>3. (DiskKnown' => DiskKnown) /\ ~ViewKnown'
    BY <2>1, <2>2, Zenon DEF DiskKnown, ViewKnown
  <2>4. read.at \in {"is_clearing", "db_get"} => PastCache'
    BY <2>1, <2>3, Zenon DEF ReadOk, PastCache, Changes, Counts
  <2>5. clearing' => clearing
    BY <2>1, Zenon
  <2> QED BY <2>1, <2>4, <2>5, WriterFrame, Zenon
<1>8. ASSUME NEW E \in SUBSET Key, Evict(E)
      PROVE  /\ UNCHANGED <<clearing, kv, read>>
             /\ \A k \in Key : mem'[k].cached => mem[k].cached /\ mem'[k].value = mem[k].value
  BY <1>8 DEF Evict, NoEntry
<1>9. CASE Settled
  <2>1. PICK E \in SUBSET Key : Evict(E)
    BY <1>9 DEF Settled
  <2>2. settling /\ ~open /\ settling' = FALSE /\ UNCHANGED <<log, head, base, open, view, disk, fatal>>
    BY <1>0, <1>9 DEF Settled, Lifecycle
  <2>3. (DiskKnown' => DiskKnown) /\ ~ViewKnown'
    BY <1>8, <2>1, <2>2, Zenon DEF DiskKnown, ViewKnown
  <2>4. read.at \in {"is_clearing", "db_get"} => PastCache'
    BY <1>8, <2>1, <2>2, <2>3, Zenon DEF ReadOk, PastCache, Changes, Counts
  <2> QED BY <1>8, <2>1, <2>4, WriterFrame, Zenon
<1>10. CASE CaughtUp /\ open
  <2>1. /\ Take /\ log' = log /\ base' = base /\ UNCHANGED memVars /\ Taken.op # "Clear"
        /\ UNCHANGED <<settling, open, view, disk, fatal>>
    BY <1>10 DEF CaughtUp
  <2>2. clearing' = clearing /\ read' = read /\ Clears(base, head)' = Clears(base, head)
    BY <1>1, <2>1, Zenon DEF memVars
  <2>3. (DiskKnown' => DiskKnown) /\ (ViewKnown' => ViewKnown)
    BY <2>1, <2>2, Zenon DEF DiskKnown, ViewKnown
  <2> QED BY <2>1, <2>3, TakeRead, Zenon
<1>11. CASE CaughtUp /\ ~open
  <2>1. PICK E \in SUBSET Key : Evict(E)
    BY <1>11 DEF CaughtUp
  <2>2. ~settling /\ head' = head + 1 /\ UNCHANGED <<log, settling, open, view, disk, fatal>>
    BY <1>11 DEF CaughtUp, Take
  <2>3. (DiskKnown' => DiskKnown) /\ ~ViewKnown'
    BY <1>8, <1>11, <2>1, <2>2, Zenon DEF DiskKnown, ViewKnown
  <2>4. \A i : i \in (head' + 1)..Len(log) => i \in (head + 1)..Len(log)
    BY <1>0, <2>2, LenProperties DEF Typed
  <2>5. read.at \in {"is_clearing", "db_get"} => PastCache'
    BY <1>8, <2>1, <2>2, <2>3, <2>4, Zenon DEF ReadOk, PastCache, Changes, Counts
  <2> QED BY <1>8, <2>1, <2>5, WriterFrame, Zenon
<1> QED BY <1>2, <1>3, <1>4, <1>5, <1>6, <1>7, <1>9, <1>10, <1>11 DEF Writer

\* What the get finds when its key is not in the cache.
LEMMA Uncached ==
    ASSUME IInv, ReadTyped, read.at = "get_marked", ~mem[read.key].cached
    PROVE  /\ clearing => None \in read.seen
           /\ ~clearing \/ (settling /\ Clears(base, head) # {}) => disk[read.key] \in read.seen
           /\ open /\ ~fatal /\ (~clearing \/ Clears(base, head) # {}) => view[read.key] \in read.seen
           /\ \A i \in (head + 1)..Len(log) : Changes(log[i], read.key) => log[i].val \in read.seen
<1> DEFINE k == read.key
<1>1. k \in Key /\ kv[k] \in read.seen
  BY DEF ReadTyped
<1>2. RowInv(k) /\ ClearPending /\ Typed
  BY <1>1 DEF IInv
<1>3. /\ InFlight(k) = {} /\ (Clears(base, Len(log)) # {} => kv[k] = None)
      /\ ~clearing => disk[k] = kv[k]
      /\ settling /\ Clears(base, head) # {} => disk[k] = None
      /\ open /\ ~fatal => view[k] = IF Clears(base, head) # {} THEN None ELSE disk[k]
  BY <1>2, Zenon DEF RowInv, CountOk, ClearEmpties, DiskRight, ViewRight
<1>4. Clears(base, head) # {} => Clears(base, Len(log)) # {}
  <2>1. \A i \in (base + 1)..head : i \in (base + 1)..Len(log)
    BY <1>2, LenProperties DEF Typed
  <2> QED BY <2>1, Zenon DEF Clears
<1>5. clearing => kv[k] = None
  BY <1>2, <1>3 DEF ClearPending
<1>6. ASSUME NEW i \in (head + 1)..Len(log), Changes(log[i], k) PROVE log[i].val \in read.seen
  <2>1. i \in (base + 1)..Len(log) /\ i \in 1..Len(log)
    BY <1>2, LenProperties DEF Typed
  <2>2. ~Counts(log[i], k)
    BY <1>3, <2>1, Zenon DEF InFlight
  <2>3. log[i].op = "Clear"
    BY <1>6, <2>2 DEF Changes
  <2>4. Clears(base, Len(log)) # {}
    BY <2>1, <2>3, Zenon DEF Clears
  <2>5. log[i] \in Message
    BY <1>2, <2>1, ElementOfSeq DEF Typed
  <2>6. log[i].val = None
    BY <2>3, <2>5, MessageFacts
  <2> QED BY <1>1, <1>3, <2>4, <2>6
<1> QED BY <1>1, <1>3, <1>4, <1>5, <1>6, Zenon

\* The get itself.
LEMMA ReaderRead ==
    ASSUME IInv, ReadOk, Reader
    PROVE  ReadOk'
<1>0. /\ UNCHANGED <<mem, clearing, kv, log, head, base, settling, open, view, disk, fatal>>
      /\ ReadTyped /\ Typed /\ mem \in [Key -> StoreEntry]
      /\ kv \in [Key -> Content] /\ disk \in [Key -> Content]
      /\ read.at # "idle" => read.key \in Key /\ kv[read.key] \in read.seen
      /\ read \in [at : Steps, key : Key \cup {None}, seen : SUBSET Content, result : Content \cup {Empty}]
  BY DEF Reader, writerVars, IInv, Typed, ReadOk, ReadTyped
<1>1. ASSUME NEW at \in Steps, at # "idle", read.at # "idle", GoOn(at)
      PROVE  /\ ReadTyped' /\ read'.at = at /\ read'.key = read.key /\ read'.seen = read.seen
  <2>1. /\ read'.at = at /\ read'.key = read.key /\ read'.seen = read.seen
        /\ read' \in [at : Steps, key : Key \cup {None}, seen : SUBSET Content, result : Content \cup {Empty}]
    BY <1>0, <1>1 DEF GoOn
  <2> QED BY <1>0, <1>1, <2>1 DEF ReadTyped
<1>2. ASSUME NEW v \in Content \cup {Empty}, read.at # "idle", v \in read.seen, Answer(v)
      PROVE  ReadOk'
  <2>1. /\ read'.at = "done" /\ read'.key = read.key /\ read'.seen = read.seen /\ read'.result = v
        /\ read' \in [at : Steps, key : Key \cup {None}, seen : SUBSET Content, result : Content \cup {Empty}]
    BY <1>0, <1>2, Zenon DEF Answer, Steps
  <2>2. ReadTyped'
    BY <1>0, <1>2, <2>1 DEF ReadTyped
  <2> QED BY <1>2, <2>1, <2>2 DEF ReadOk
<1>s. None \in Content
  BY DEF Content
<1>3. ASSUME NEW k \in Key, Get(k) PROVE ReadOk'
  <2>1. read' = [at |-> "is_tombstoned", key |-> k, seen |-> {kv[k]}, result |-> None] /\ kv[k] \in Content
    BY <1>0, <1>3 DEF Get
  <2>2. ReadTyped' /\ read'.at = "is_tombstoned"
    BY <1>0, <1>s, <2>1 DEF ReadTyped, Steps
  <2> QED BY <2>2 DEF ReadOk
<1>4. CASE IsTombstoned
  <2>1. CASE mem[read.key].cached /\ mem[read.key].tombstoned
    <3>1. Answer(None) /\ read.at # "idle" /\ read.key \in Key
      BY <1>0, <1>4, <2>1 DEF IsTombstoned
    <3>2. kv[read.key] = None
      BY <2>1, <3>1 DEF IInv, RowInv, RowOk
    <3> QED BY <1>0, <1>2, <1>s, <3>1, <3>2
  <2>2. CASE ~(mem[read.key].cached /\ mem[read.key].tombstoned)
    <3>1. GoOn("get_marked") /\ read.at # "idle" /\ read.key \in Key
      BY <1>0, <1>4, <2>2 DEF IsTombstoned
    <3>2. ReadTyped' /\ read'.at = "get_marked" /\ read'.key = read.key /\ read'.seen = read.seen
      BY <1>1, <3>1 DEF Steps
    <3>3. mem[read.key].cached => mem[read.key].value = kv[read.key]
      BY <2>2, <3>1 DEF IInv, RowInv, RowOk
    <3> QED BY <1>0, <3>1, <3>2, <3>3 DEF ReadOk
  <2> QED BY <2>1, <2>2
<1>5. CASE GetMarked
  <2>0. read.at = "get_marked" /\ read.key \in Key /\ mem[read.key].cached \in BOOLEAN
    BY <1>0, <1>5 DEF GetMarked, StoreEntry
  <2>1. CASE ~mem[read.key].cached
    <3>1. GoOn("is_clearing")
      BY <1>5, <2>0, <2>1 DEF GetMarked
    <3>2. ReadTyped' /\ read'.at = "is_clearing" /\ read'.key = read.key /\ read'.seen = read.seen
      BY <1>1, <2>0, <3>1 DEF Steps
    <3>3. Clears(base, head)' = Clears(base, head)
      BY <1>0 DEF Clears
    <3>4. PastCache'
      BY <1>0, <2>0, <2>1, <3>2, <3>3, Uncached, Zenon
         DEF PastCache, DiskKnown, ViewKnown, Changes, Counts
    <3>5. clearing' => None \in read'.seen
      BY <1>0, <2>0, <2>1, <3>2, Uncached, Zenon
    <3> QED BY <3>2, <3>4, <3>5 DEF ReadOk
  <2>2. CASE mem[read.key].cached /\ mem[read.key].value = Empty
    <3>1. GoOn("panic")
      BY <1>5, <2>0, <2>2 DEF GetMarked
    <3>2. ReadTyped' /\ read'.at = "panic"
      BY <1>1, <2>0, <3>1 DEF Steps
    <3> QED BY <3>2 DEF ReadOk
  <2>3. CASE mem[read.key].cached /\ mem[read.key].value # Empty
    <3>1. Answer(mem[read.key].value)
      BY <1>5, <2>0, <2>3 DEF GetMarked
    <3>2. mem[read.key].value \in read.seen /\ mem[read.key].value \in Content \cup {Empty}
      BY <1>0, <2>0, <2>3 DEF ReadOk, StoreEntry
    <3> QED BY <1>2, <2>0, <3>1, <3>2
  <2> QED BY <2>1, <2>2, <2>3
<1>6. CASE IsClearing
  <2>0. read.at = "is_clearing" /\ clearing \in BOOLEAN
    BY <1>0, <1>6 DEF IsClearing, Typed
  <2>1. CASE clearing
    <3>1. Answer(None) /\ None \in read.seen
      BY <1>6, <2>0, <2>1 DEF IsClearing, ReadOk
    <3> QED BY <1>2, <1>s, <2>0, <3>1
  <2>2. CASE ~clearing
    <3>1. GoOn("db_get")
      BY <1>6, <2>0, <2>2 DEF IsClearing
    <3>2. ReadTyped' /\ read'.at = "db_get" /\ read'.key = read.key /\ read'.seen = read.seen
      BY <1>1, <2>0, <3>1 DEF Steps
    <3>3. PastCache /\ DiskKnown /\ (open /\ ~fatal => ViewKnown)
      BY <2>0, <2>2, Zenon DEF ReadOk, DiskKnown, ViewKnown
    <3>4. PastCache'
      BY <1>0, <3>2, <3>3, Zenon DEF PastCache, ViewKnown, Changes, Counts
    <3> QED BY <3>2, <3>4 DEF ReadOk
  <2> QED BY <2>0, <2>1, <2>2
<1>7. CASE DbGet
  <2>1. read.at = "db_get" /\ Answer(disk[read.key]) /\ read.key \in Key
    BY <1>0, <1>7 DEF DbGet
  <2>2. disk[read.key] \in read.seen
    BY <2>1, Zenon DEF ReadOk, PastCache, DiskKnown
  <2> QED BY <1>0, <1>2, <2>1, <2>2
<1>8. CASE Return
  <2>1. read' = NoRead
    BY <1>8 DEF Return
  <2> QED BY <1>s, <2>1 DEF ReadOk, ReadTyped, NoRead, Steps
<1> QED BY <1>3, <1>4, <1>5, <1>6, <1>7, <1>8 DEF Reader

\* A get that looks at the cache three times and at the persistent tier once
\* answers with a value its key held between the call and the answer, whatever
\* writers, the background thread, evictions, clears and failures do meanwhile,
\* for every set of keys and values (LayeredDatabase::get).
THEOREM GetLinearizable == Spec => []ReadLinearizable
<1>1. Init => IInv /\ ReadOk
  <2>1. Init => IInv
    BY OpenedKeeps DEF Init, Opened
  <2>2. Init => ReadOk
    BY DEF Init, ReadOk, ReadTyped, NoRead, Steps, Content
  <2> QED BY <2>1, <2>2
<1>2. IInv /\ ReadOk /\ [Next]_vars => IInv' /\ ReadOk'
  <2> SUFFICES ASSUME IInv, ReadOk, [Next]_vars PROVE ReadOk'
    BY NextKeeps
  <2>1. CASE UNCHANGED vars
    <3>1. UNCHANGED <<mem, clearing, kv, read, log, head, base, settling, open, view, disk, fatal>>
      BY <2>1 DEF vars
    <3> QED BY <3>1, Zenon DEF ReadOk, ReadTyped, PastCache, DiskKnown, ViewKnown, Clears, Changes, Counts
  <2>2. CASE Crash
    <3>1. read' = NoRead
      BY <2>2 DEF Crash
    <3> QED BY <3>1 DEF ReadOk, ReadTyped, NoRead, Steps, Content
  <2> QED BY <2>1, <2>2, ProducerRead, WriterRead, ReaderRead DEF Next
<1>3. ReadOk => ReadLinearizable
  BY DEF ReadOk, ReadLinearizable
<1> QED BY <1>1, <1>2, <1>3, PTL DEF Spec

-----------------------------------------------------------------------------
(* Transactions and barriers.                                               *)

\* From a to b a message opens a transaction, ends one, or does neither.
Stepped(op, a, b) ==
    CASE op = "StartTxn" -> ~a /\ b
      [] op = "CommitTxn" -> a /\ ~b
      [] OTHER -> a = b

\* The queue leads from the transaction the writer has open to the lock that a
\* LayeredDbTxMut holds: f tells whether one is open after each message.
TxnQueue ==
    ~fatal => \E f \in [Nat -> BOOLEAN] :
        /\ f[head] = open /\ f[Len(log)] = held
        /\ \A i \in (head + 1)..Len(log) : Stepped(log[i].op, f[i - 1], f[i])

OrderOk == TxnQueue /\ held \in BOOLEAN /\ acked \in Nat /\ acked <= base

\* A message joins the queue and moves the lock as it will move the writer.
LEMMA QueuedTxn ==
    ASSUME Typed, OrderOk, NEW m \in Message, log' = Append(log, m), head' = head, open' = open,
           fatal' = fatal, held' \in BOOLEAN, Stepped(m.op, held, held')
    PROVE  TxnQueue'
<1> SUFFICES ASSUME ~fatal PROVE TxnQueue'
  BY DEF TxnQueue
<1>1. PICK f \in [Nat -> BOOLEAN] :
        /\ f[head] = open /\ f[Len(log)] = held
        /\ \A i \in (head + 1)..Len(log) : Stepped(log[i].op, f[i - 1], f[i])
  BY DEF OrderOk, TxnQueue
<1>2. /\ Len(log) \in Nat /\ Len(log') = Len(log) + 1 /\ log'[Len(log) + 1] = m
      /\ \A i \in 1..Len(log) : log'[i] = log[i]
      /\ head \in Nat /\ head <= Len(log)
  BY AppendProperties, LenProperties DEF Typed
<1> DEFINE n == Len(log) + 1
           g == [f EXCEPT ![n] = held']
<1>3. /\ g \in [Nat -> BOOLEAN] /\ g[n] = held' /\ n \in Nat
      /\ \A i \in Nat : i # n => g[i] = f[i]
  BY <1>1, <1>2
<1> HIDE DEF g
<1>4. g[head'] = open' /\ g[Len(log')] = held'
  BY <1>1, <1>2, <1>3
<1>5. ASSUME NEW i \in (head' + 1)..Len(log') PROVE Stepped(log'[i].op, g[i - 1], g[i])
  <2>1. i = n \/ i \in (head + 1)..Len(log)
    BY <1>2
  <2>2. CASE i = n
    <3>1. i - 1 = Len(log) /\ Len(log) # n
      BY <1>2, <2>2
    <3>2. g[i - 1] = held /\ g[i] = held' /\ log'[i] = m
      BY <1>1, <1>2, <1>3, <2>2, <3>1
    <3> QED BY <3>2
  <2>3. CASE i \in (head + 1)..Len(log)
    <3>1. i \in 1..Len(log) /\ i \in Nat /\ i - 1 \in Nat /\ i # n /\ i - 1 # n
      BY <1>2, <2>3
    <3>2. g[i - 1] = f[i - 1] /\ g[i] = f[i] /\ log'[i] = log[i]
      BY <1>2, <1>3, <3>1
    <3> QED BY <1>1, <2>3, <3>2
  <2> QED BY <2>1, <2>2, <2>3
<1> QED BY <1>3, <1>4, <1>5, Zenon DEF TxnQueue

\* The writer takes a message and does what it says.
LEMMA TakenTxn ==
    ASSUME Typed, OrderOk, Take, log' = log, held' = held, ~fatal,
           Taken.op = "StartTxn" => open' = TRUE,
           Taken.op = "CommitTxn" => open' = FALSE,
           Taken.op \notin {"StartTxn", "CommitTxn"} => open' = open
    PROVE  TxnQueue'
<1>1. PICK f \in [Nat -> BOOLEAN] :
        /\ f[head] = open /\ f[Len(log)] = held
        /\ \A i \in (head + 1)..Len(log) : Stepped(log[i].op, f[i - 1], f[i])
  BY DEF OrderOk, TxnQueue
<1>2. /\ head \in Nat /\ Len(log) \in Nat /\ head' = head + 1 /\ head + 1 \in (head + 1)..Len(log)
      /\ (head + 1) - 1 = head /\ head + 1 \in Nat
      /\ \A i : i \in (head' + 1)..Len(log) => i \in (head + 1)..Len(log)
  BY LenProperties DEF Typed, Take
<1>3. Stepped(Taken.op, open, f[head + 1])
  BY <1>1, <1>2, Zenon DEF Taken
<1>4. open \in BOOLEAN /\ f[head + 1] \in BOOLEAN
  BY <1>1, <1>2 DEF Typed
<1>5. f[head'] = open'
  <2>1. CASE Taken.op = "StartTxn"
    BY <1>2, <1>3, <1>4, <2>1, Zenon DEF Stepped
  <2>2. CASE Taken.op = "CommitTxn"
    <3>1. Taken.op # "StartTxn"
      BY <2>2
    <3>2. ~f[head + 1]
      BY <1>3, <2>2, <3>1 DEF Stepped
    <3> QED BY <1>2, <1>4, <2>2, <3>2, Zenon
  <2>3. CASE Taken.op \notin {"StartTxn", "CommitTxn"}
    BY <1>2, <1>3, <2>3 DEF Stepped
  <2> QED BY <2>1, <2>2, <2>3
<1> QED BY <1>1, <1>2, <1>5, Zenon DEF TxnQueue

\* Every step keeps the queue of transactions in order, and the barriers.
LEMMA OrderKeeps ==
    ASSUME IInv, OrderOk, [Next]_vars
    PROVE  OrderOk'
<1>0. /\ Typed /\ Lifecycle /\ held \in BOOLEAN /\ acked \in Nat /\ acked <= base
      /\ base \in Nat /\ head \in Nat
  BY DEF IInv, Typed, OrderOk
<1>1. ASSUME NEW m \in Message, log' = Append(log, m), UNCHANGED <<writerVars, acked>>,
             held' \in BOOLEAN, Stepped(m.op, held, held')
      PROVE  OrderOk'
  <2>1. head' = head /\ open' = open /\ fatal' = fatal /\ base' = base /\ acked' = acked
    BY <1>1 DEF writerVars
  <2>2. TxnQueue'
    BY <1>0, <1>1, <2>1, QueuedTxn, Zenon
  <2> QED BY <1>0, <1>1, <2>1, <2>2 DEF OrderOk
<1>2. CASE Producer
  <2>1. ASSUME NEW k \in Key, NEW v \in Value, Insert(k, v) PROVE OrderOk'
    BY <1>0, <1>1, <2>1, IsMessage DEF Insert, Enqueue, InsertOf, Stepped
  <2>2. ASSUME NEW k \in Key, Remove(k) PROVE OrderOk'
    BY <1>0, <1>1, <2>2, IsMessage DEF Remove, Enqueue, RemoveOf, Stepped
  <2>3. CASE ClearTable
    <3>1. Cached \in SUBSET Key
      BY DEF Cached
    <3> QED BY <1>0, <1>1, <2>3, <3>1, IsMessage DEF ClearTable, Enqueue, ClearOf, Stepped
  <2>4. CASE WriteTxn
    <3>1. /\ log' = Append(log, Control("StartTxn")) /\ UNCHANGED <<writerVars, acked>>
          /\ ~held /\ held' = TRUE
      BY <2>4 DEF WriteTxn, Enqueue
    <3>2. Control("StartTxn").op = "StartTxn" /\ Control("StartTxn") \in Message
      BY IsMessage DEF Control
    <3>3. Stepped("StartTxn", held, held')
      BY <3>1 DEF Stepped
    <3> QED BY <1>1, <3>1, <3>2, <3>3, Zenon
  <2>5. CASE CommitTxnMut
    <3>1. /\ log' = Append(log, Control("CommitTxn")) /\ UNCHANGED <<writerVars, acked>>
          /\ held /\ held' = FALSE
      BY <2>5 DEF CommitTxnMut, Enqueue
    <3>2. Control("CommitTxn").op = "CommitTxn" /\ Control("CommitTxn") \in Message
      BY IsMessage DEF Control
    <3>3. Stepped("CommitTxn", held, held')
      BY <3>1 DEF Stepped
    <3> QED BY <1>1, <3>1, <3>2, <3>3, Zenon
  <2>6. CASE Persist
    <3>1. log' = Append(log, Control("CaughtUp")) /\ UNCHANGED <<writerVars, acked>> /\ held' = held
      BY <2>6 DEF Persist, Enqueue
    <3>2. Control("CaughtUp").op = "CaughtUp" /\ Control("CaughtUp") \in Message
      BY IsMessage DEF Control
    <3>3. Stepped("CaughtUp", held, held')
      BY <3>1 DEF Stepped
    <3> QED BY <1>0, <1>1, <3>1, <3>2, <3>3, Zenon
  <2>7. CASE DropTxnMut
    BY <1>0, <2>7 DEF DropTxnMut, writerVars, OrderOk, TxnQueue
  <2> QED BY <1>2, <2>1, <2>2, <2>3, <2>4, <2>5, <2>6, <2>7 DEF Producer
<1>3. CASE Discard \/ Fail
  <2>1. fatal' = TRUE /\ UNCHANGED <<held, base, acked>>
    BY <1>3 DEF Discard, Fail, Trip, IInv, Typed
  <2> QED BY <1>0, <2>1 DEF OrderOk, TxnQueue
<1>4. CASE StartTxn \/ CommitTxn \/ ApplyInTxn \/ Apply
  <2>1. /\ Take /\ log' = log /\ ~fatal /\ UNCHANGED <<held, base, acked>>
        /\ Taken.op = "StartTxn" => open' = TRUE
        /\ Taken.op = "CommitTxn" => open' = FALSE
        /\ Taken.op \notin {"StartTxn", "CommitTxn"} => open' = open
    BY <1>4 DEF StartTxn, CommitTxn, ApplyInTxn, Apply, IsWrite
  <2>2. TxnQueue'
    BY <1>0, <2>1, TakenTxn, Zenon
  <2> QED BY <1>0, <2>1, <2>2 DEF OrderOk
<1>5. CASE CaughtUp
  <2>1. /\ Take /\ log' = log /\ ~fatal /\ held' = held /\ open' = open /\ Taken.op = "CaughtUp"
    BY <1>5 DEF CaughtUp
  <2>2. TxnQueue'
    BY <1>0, <2>1, TakenTxn
  <2>3. acked' \in Nat /\ acked' <= base'
    <3>1. CASE UNCHANGED <<base, acked>>
      BY <1>0, <3>1
    <3>2. CASE ~open /\ base' = base + 1 /\ acked' = head'
      <4>1. base = head /\ head' = head + 1
        BY <1>0, <2>1, <3>2 DEF Take, Lifecycle
      <4> QED BY <1>0, <3>2, <4>1
    <3> QED BY <1>5, <3>1, <3>2 DEF CaughtUp
  <2> QED BY <1>0, <2>1, <2>2, <2>3 DEF OrderOk
<1>6. CASE Release
  <2>1. base' = base + 1 /\ UNCHANGED <<log, head, open, fatal, held, acked>>
    BY <1>6 DEF Release
  <2>2. TxnQueue'
    BY <2>1, Zenon DEF OrderOk, TxnQueue
  <2> QED BY <1>0, <2>1, <2>2 DEF OrderOk
<1>7. CASE Settled \/ Reader \/ UNCHANGED vars
  <2>1. UNCHANGED <<log, head, base, open, fatal, held, acked>>
    BY <1>7 DEF Settled, Reader, vars, writerVars
  <2> QED BY <2>1, Zenon DEF OrderOk, TxnQueue
<1>8. CASE Crash
  <2>1. /\ log' = <<>> /\ head' = 0 /\ base' = 0 /\ acked' = 0 /\ open' = FALSE /\ held' = FALSE
    BY <1>8 DEF Crash
  <2> DEFINE f == [n \in Nat |-> FALSE]
  <2>2. f \in [Nat -> BOOLEAN] /\ f[head'] = open' /\ f[Len(log')] = held'
    BY <2>1, EmptySeq
  <2>3. (head' + 1)..Len(log') = {}
    BY <2>1, EmptySeq
  <2>4. TxnQueue'
    BY <2>2, <2>3, Zenon DEF TxnQueue
  <2>5. held' \in BOOLEAN
    BY <2>1, Zenon
  <2>6. acked' \in Nat /\ acked' <= base'
    BY <2>1, SMT
  <2> QED BY <2>4, <2>5, <2>6, Zenon DEF OrderOk
<1> QED BY <1>2, <1>3, <1>4, <1>5, <1>6, <1>7, <1>8 DEF Next, Writer

\* The writer never meets a transaction inside another, for which db_run would
\* poison the database, and a persist that succeeded outside of a transaction
\* has landed all messages before it, for any number of keys, values, messages
\* and transactions (LayeredDbTxMut, db_run, persist).
THEOREM TransactionsInOrder == Spec => [](InTxnOrder /\ acked <= Landed)
<1>1. Init => IInv /\ OrderOk
  <2>1. Init => IInv
    BY OpenedKeeps DEF Init, Opened
  <2>2. ASSUME Init PROVE OrderOk
    <3>1. /\ log = <<>> /\ head = 0 /\ base = 0 /\ acked = 0 /\ open = FALSE /\ held = FALSE
      BY <2>2 DEF Init
    <3> DEFINE f == [n \in Nat |-> FALSE]
    <3>2. f \in [Nat -> BOOLEAN] /\ f[head] = open /\ f[Len(log)] = held
      BY <3>1, EmptySeq
    <3>3. (head + 1)..Len(log) = {}
      BY <3>1, EmptySeq
    <3>4. TxnQueue
      BY <3>2, <3>3, Zenon DEF TxnQueue
    <3>5. held \in BOOLEAN
      BY <3>1, Zenon
    <3>6. acked \in Nat /\ acked <= base
      BY <3>1, SMT
    <3> QED BY <3>4, <3>5, <3>6, Zenon DEF OrderOk
  <2> QED BY <2>1, <2>2
<1>2. IInv /\ OrderOk /\ [Next]_vars => IInv' /\ OrderOk'
  BY NextKeeps, OrderKeeps
<1>3. IInv /\ OrderOk => InTxnOrder /\ acked <= Landed
  <2> SUFFICES ASSUME IInv, OrderOk PROVE InTxnOrder /\ acked <= Landed
    OBVIOUS
  <2>1. Typed /\ head \in Nat /\ base \in Nat /\ base <= head /\ Len(log) \in Nat
    BY LenProperties DEF IInv, Typed
  <2>2. acked <= Landed
    BY <2>1 DEF OrderOk, Landed
  <2>3. ASSUME ~fatal, head < Len(log)
        PROVE  (Taken.op = "StartTxn" => ~open) /\ (Taken.op = "CommitTxn" => open)
    <3>1. PICK f \in [Nat -> BOOLEAN] :
            f[head] = open /\ \A i \in (head + 1)..Len(log) : Stepped(log[i].op, f[i - 1], f[i])
      BY <2>3 DEF OrderOk, TxnQueue
    <3>2. head + 1 \in (head + 1)..Len(log) /\ (head + 1) - 1 = head
      BY <2>1, <2>3
    <3>3. Stepped(Taken.op, open, f[head + 1])
      BY <3>1, <3>2, Zenon DEF Taken
    <3>4. Taken.op = "StartTxn" => ~open
      BY <3>3 DEF Stepped
    <3>5. Taken.op = "CommitTxn" => open
      BY <3>3 DEF Stepped
    <3> QED BY <3>4, <3>5
  <2> QED BY <2>2, <2>3 DEF InTxnOrder
<1> QED BY <1>1, <1>2, <1>3, PTL DEF Spec

-----------------------------------------------------------------------------
(* The persistent tier holds a prefix of the log.                           *)

\* A set of natural numbers that is not empty has a least element.
LEMMA LeastNatural ==
    ASSUME NEW T, T \subseteq Nat, T # {}
    PROVE  \E x \in T : \A y \in T : x <= y
<1> DEFINE R == OpToRel(<, Nat)
<1>1. IsWellFoundedOn(R, Nat)
  BY NatLessThanWellFounded
<1>2. \E x \in T : \A y \in T : ~(<<y, x>> \in R)
  <2> HIDE DEF R
  <2> QED BY <1>1, WFMin
<1>3. \A x, y \in Nat : x < y => <<x, y>> \in R
  BY DEF OpToRel
<1> HIDE DEF R
<1>4. PICK x \in T : \A y \in T : ~(<<y, x>> \in R)
  BY <1>2
<1>5. \A y \in T : y \in Nat /\ x \in Nat /\ ~(y < x)
  BY <1>3, <1>4
<1>6. \A y \in T : x <= y
  BY <1>5
<1> QED BY <1>6

\* f tells the table after each of the first n messages of L, from s on.
Tables(s, L, f, n) ==
    f[0] = s /\ \A i \in 1..n : f[i] = Applied(L[i], f[i - 1])

\* There is one for every n, by the least n for which there is none.
LEMMA TablesExist ==
    ASSUME NEW s, NEW L, NEW n \in Nat
    PROVE  \E f : Tables(s, L, f, n)
<1> DEFINE T == {m \in Nat : ~\E f : Tables(s, L, f, m)}
<1> SUFFICES ASSUME T # {} PROVE FALSE
  OBVIOUS
<1>1. PICK m \in T : \A y \in T : m <= y
  BY LeastNatural
<1>2. m \in Nat /\ ~\E f : Tables(s, L, f, m)
  BY <1>1
<1>3. CASE m = 0
  <2> DEFINE f == [i \in Nat |-> s]
  <2>1. f[0] = s /\ 1..m = {}
    BY <1>3
  <2>2. Tables(s, L, f, m)
    BY <2>1, Zenon DEF Tables
  <2> QED BY <1>2, <2>2, Zenon
<1>4. CASE m # 0
  <2>1. m - 1 \in Nat /\ m - 1 \notin T
    BY <1>1, <1>2, <1>4
  <2>2. PICK f : Tables(s, L, f, m - 1)
    BY <2>1, Zenon
  <2> DEFINE g == [i \in Nat |-> IF i = m THEN Applied(L[m], f[m - 1]) ELSE f[i]]
  <2>3. g[0] = f[0] /\ g[m] = Applied(L[m], f[m - 1])
    BY <1>2, <1>4, SMT
  <2>4. \A i \in 1..m : i - 1 \in Nat /\ i \in Nat /\ i - 1 # m
    BY <1>2
  <2>5. \A i \in 1..m : g[i - 1] = f[i - 1]
    BY <2>4, Zenon
  <2>6. \A i \in 1..m : i # m => i \in 1..(m - 1) /\ g[i] = f[i]
    BY <1>2, SMT
  <2> HIDE DEF g
  <2>7. ASSUME NEW i \in 1..m PROVE g[i] = Applied(L[i], g[i - 1])
    <3>1. CASE i = m
      BY <2>3, <2>5, <3>1, Zenon
    <3>2. CASE i # m
      BY <2>2, <2>5, <2>6, <3>2, Zenon DEF Tables
    <3> QED BY <3>1, <3>2
  <2>8. Tables(s, L, g, m)
    BY <2>2, <2>3, <2>7, Zenon DEF Tables
  <2> QED BY <1>2, <2>8, Zenon
<1> QED BY <1>3, <1>4

\* Two of them agree.
LEMMA TablesAgree ==
    ASSUME NEW s, NEW L, NEW f, NEW g, NEW m \in Nat, NEW n \in Nat,
           Tables(s, L, f, m), Tables(s, L, g, m), n <= m
    PROVE  f[n] = g[n]
<1> DEFINE T == {i \in 0..m : f[i] # g[i]}
<1> SUFFICES ASSUME T # {} PROVE FALSE
  OBVIOUS
<1>0. T \subseteq Nat
  OBVIOUS
<1>1. PICK i \in T : \A y \in T : i <= y
  BY <1>0, LeastNatural
<1>2. i \in 0..m /\ f[i] # g[i]
  BY <1>1
<1>3. i # 0
  BY <1>2, Zenon DEF Tables
<1>4. i \in 1..m /\ i - 1 \in 0..m /\ i - 1 \notin T
  BY <1>1, <1>2, <1>3
<1>5. f[i - 1] = g[i - 1]
  BY <1>4, Zenon
<1> QED BY <1>2, <1>4, <1>5, Zenon DEF Tables

\* After is such a table.
LEMMA AfterTables ==
    ASSUME NEW s, NEW L, NEW F,
           F = CHOOSE f : f = [n \in Nat |-> IF n = 0 THEN s ELSE Applied(L[n], f[n - 1])],
           NEW n \in Nat
    PROVE  Tables(s, L, F, n)
<1> DEFINE G(m) == CHOOSE f : Tables(s, L, f, m)
           H == [m \in Nat |-> G(m)[m]]
<1>1. ASSUME NEW m \in Nat PROVE Tables(s, L, G(m), m)
  BY TablesExist, Zenon
<1>2. ASSUME NEW m \in Nat, m # 0 PROVE H[m] = Applied(L[m], H[m - 1])
  <2>1. m - 1 \in Nat /\ m \in 1..m /\ m - 1 <= m /\ \A i \in 1..(m - 1) : i \in 1..m
    BY <1>2
  <2>2. Tables(s, L, G(m), m - 1) /\ Tables(s, L, G(m - 1), m - 1)
    BY <1>1, <2>1, Zenon DEF Tables
  <2>3. m - 1 <= m - 1
    BY <2>1
  <2> HIDE DEF G
  <2>4. G(m)[m - 1] = G(m - 1)[m - 1]
    <3>1. ASSUME NEW p \in Nat, NEW f, NEW g, Tables(s, L, f, p), Tables(s, L, g, p), p <= p
          PROVE  f[p] = g[p]
      BY <3>1, TablesAgree
    <3> QED BY <2>1, <2>2, <2>3, <3>1, Zenon
  <2>5. G(m)[m] = Applied(L[m], G(m)[m - 1])
    BY <1>1, <1>2, <2>1, Zenon DEF Tables
  <2> QED BY <1>2, <2>1, <2>4, <2>5, Zenon
<1>3. H[0] = s
  BY <1>1, Zenon DEF Tables
<1> HIDE DEF G
<1>4. H = [m \in Nat |-> IF m = 0 THEN s ELSE Applied(L[m], H[m - 1])]
  <2>1. \A m \in Nat : G(m)[m] = IF m = 0 THEN s ELSE Applied(L[m], H[m - 1])
    BY <1>2, <1>3, Zenon
  <2> QED BY <2>1, Zenon
<1> HIDE DEF H
<1>5. F = [m \in Nat |-> IF m = 0 THEN s ELSE Applied(L[m], F[m - 1])]
  BY <1>4, Zenon
<1>6. \A m \in Nat : F[m] = IF m = 0 THEN s ELSE Applied(L[m], F[m - 1])
  BY <1>5, Zenon
<1>7. F[0] = s
  BY <1>6, Zenon
<1>8. \A i \in 1..n : i \in Nat /\ i # 0
  OBVIOUS
<1> QED BY <1>6, <1>7, <1>8, Zenon DEF Tables

\* A message takes a table to a table.
LEMMA AppliedType ==
    ASSUME NEW m \in Message, NEW d \in [Key -> Content]
    PROVE  Applied(m, d) \in [Key -> Content] /\ (~IsWrite(m) => Applied(m, d) = d)
<1>1. CASE IsWrite(m)
  BY <1>1, AppliedFacts
<1>2. CASE ~IsWrite(m)
  BY <1>2 DEF IsWrite, Applied
<1> QED BY <1>1, <1>2

\* Every table is a table of the keys.
LEMMA TablesType ==
    ASSUME NEW s \in [Key -> Content], NEW L \in Seq(Message), NEW f, NEW m \in Nat, m <= Len(L),
           Tables(s, L, f, m), NEW n \in 0..m
    PROVE  f[n] \in [Key -> Content]
<1> DEFINE T == {i \in 0..m : f[i] \notin [Key -> Content]}
<1> SUFFICES ASSUME T # {} PROVE FALSE
  OBVIOUS
<1>0. T \subseteq Nat
  OBVIOUS
<1>1. PICK i \in T : \A y \in T : i <= y
  BY <1>0, LeastNatural
<1>2. i \in 0..m /\ f[i] \notin [Key -> Content]
  BY <1>1
<1>3. i # 0
  BY <1>2, Zenon DEF Tables
<1>4. i \in 1..m /\ i - 1 \in 0..m /\ i - 1 \notin T /\ i \in 1..Len(L)
  BY <1>1, <1>2, <1>3, LenProperties
<1>5. f[i - 1] \in [Key -> Content]
  BY <1>4, Zenon
<1>6. L[i] \in Message
  BY <1>4, ElementOfSeq, Zenon
<1>7. f[i] = Applied(L[i], f[i - 1])
  BY <1>4, Zenon DEF Tables
<1> QED BY <1>2, <1>5, <1>6, <1>7, AppliedType, Zenon

\* d holds the table A tells after n messages of L, but for the keys whose
\* removal was skipped and whose next write is still to come.
StoredIn(d, A, L, n) ==
    \A k \in Key :
        \/ d[k] = A[n][k]
        \/ \E i \in 1..n, j \in (n + 1)..Len(L) :
               L[i] = RemoveOf(k) /\ L[j].op = "Insert" /\ L[j].key = k

\* A message that joins the queue changes nothing of this.
LEMMA StoredAppend ==
    ASSUME NEW L \in Seq(Message), NEW m \in Message, NEW n \in 0..Len(L), NEW A, NEW B, NEW d,
           A[n] = B[n], StoredIn(d, A, L, n)
    PROVE  StoredIn(d, B, Append(L, m), n)
<1>1. /\ Len(L) \in Nat /\ Len(Append(L, m)) = Len(L) + 1
      /\ \A i \in 1..Len(L) : Append(L, m)[i] = L[i]
  BY AppendProperties, LenProperties
<1>2. \A i \in 1..n : Append(L, m)[i] = L[i]
  BY <1>1
<1>3. \A j \in (n + 1)..Len(L) : j \in (n + 1)..Len(Append(L, m)) /\ Append(L, m)[j] = L[j]
  BY <1>1
<1>4. ASSUME NEW k \in Key
      PROVE  \/ d[k] = B[n][k]
             \/ \E i \in 1..n, j \in (n + 1)..Len(Append(L, m)) :
                    /\ Append(L, m)[i] = RemoveOf(k)
                    /\ Append(L, m)[j].op = "Insert" /\ Append(L, m)[j].key = k
  <2>1. CASE d[k] = A[n][k]
    BY <2>1, Zenon
  <2>2. ASSUME NEW i \in 1..n, NEW j \in (n + 1)..Len(L),
               L[i] = RemoveOf(k) /\ L[j].op = "Insert" /\ L[j].key = k
        PROVE  \E i2 \in 1..n, j2 \in (n + 1)..Len(Append(L, m)) :
                    /\ Append(L, m)[i2] = RemoveOf(k)
                    /\ Append(L, m)[j2].op = "Insert" /\ Append(L, m)[j2].key = k
    <3>1. /\ Append(L, m)[i] = RemoveOf(k) /\ Append(L, m)[j].op = "Insert"
          /\ Append(L, m)[j].key = k /\ j \in (n + 1)..Len(Append(L, m))
      BY <1>2, <1>3, <2>2, Zenon
    <3> QED BY <3>1, Zenon
  <2> QED BY <2>1, <2>2, Zenon DEF StoredIn
<1> QED BY <1>4, Zenon DEF StoredIn

\* A message that lands.
LEMMA StoredNext ==
    ASSUME NEW L \in Seq(Message), NEW n \in Nat, n < Len(L), NEW A,
           A[n + 1] = Applied(L[n + 1], A[n]), A[n] \in [Key -> Content],
           NEW d \in [Key -> Content], StoredIn(d, A, L, n)
    PROVE  StoredIn(Applied(L[n + 1], d), A, L, n + 1)
<1> DEFINE m == L[n + 1]
<1>1. Len(L) \in Nat /\ n + 1 \in 1..Len(L)
  BY LenProperties
<1>2. m \in Message
  BY <1>1, ElementOfSeq, Zenon
<1>3. /\ \A i \in 1..n : i \in 1..(n + 1)
      /\ \A j \in (n + 1)..Len(L) : j = n + 1 \/ j \in ((n + 1) + 1)..Len(L)
  BY <1>1
<1>4. ASSUME NEW k \in Key
      PROVE  \/ Applied(m, d)[k] = Applied(m, A[n])[k]
             \/ /\ Applied(m, d)[k] = d[k] /\ Applied(m, A[n])[k] = A[n][k]
                /\ ~(m.op = "Insert" /\ m.key = k)
  <2>1. CASE ~IsWrite(m)
    BY <1>2, <2>1, AppliedType DEF IsWrite
  <2>2. CASE IsWrite(m)
    <3> HIDE DEF m
    <3> QED BY <1>2, <2>2, AppliedFacts DEF Counts
  <2> QED BY <2>1, <2>2
<1>5. ASSUME NEW k \in Key
      PROVE  \/ Applied(m, d)[k] = A[n + 1][k]
             \/ \E i \in 1..(n + 1), j \in ((n + 1) + 1)..Len(L) :
                    L[i] = RemoveOf(k) /\ L[j].op = "Insert" /\ L[j].key = k
  <2>1. CASE Applied(m, d)[k] = Applied(m, A[n])[k]
    BY <2>1, Zenon
  <2>2. CASE /\ Applied(m, d)[k] = d[k] /\ Applied(m, A[n])[k] = A[n][k]
             /\ ~(m.op = "Insert" /\ m.key = k)
    BY <1>3, <2>2, Zenon DEF StoredIn
  <2> QED BY <1>4, <2>1, <2>2, Zenon
<1> QED BY <1>5, Zenon DEF StoredIn

\* A removal that is skipped because a later message writes the key again.
LEMMA StoredSkip ==
    ASSUME NEW L \in Seq(Message), NEW n \in Nat, n < Len(L), NEW A,
           A[n + 1] = Applied(L[n + 1], A[n]), A[n] \in [Key -> Content],
           NEW d \in [Key -> Content], StoredIn(d, A, L, n),
           NEW x \in Key, L[n + 1] = RemoveOf(x),
           \E j \in ((n + 1) + 1)..Len(L) : L[j].op = "Insert" /\ L[j].key = x
    PROVE  StoredIn(d, A, L, n + 1)
<1>1. StoredIn(Applied(L[n + 1], d), A, L, n + 1)
  BY StoredNext, Zenon
<1>2. Applied(L[n + 1], d) = [d EXCEPT ![x] = None]
  BY DEF Applied, RemoveOf
<1>3. \A k \in Key : k # x => Applied(L[n + 1], d)[k] = d[k]
  BY <1>2
<1>4. n + 1 \in 1..(n + 1)
  OBVIOUS
<1>5. ASSUME NEW k \in Key
      PROVE  \/ d[k] = A[n + 1][k]
             \/ \E i \in 1..(n + 1), j \in ((n + 1) + 1)..Len(L) :
                    L[i] = RemoveOf(k) /\ L[j].op = "Insert" /\ L[j].key = k
  <2>1. CASE k = x
    BY <1>4, <2>1, Zenon
  <2>2. CASE k # x
    BY <1>1, <1>3, <2>2, Zenon DEF StoredIn
  <2> QED BY <2>1, <2>2
<1> QED BY <1>5, Zenon DEF StoredIn

\* How many of the first n messages are op.
Count(L, n, op) == Cardinality({i \in 1..n : L[i].op = op})

\* b tells whether the first n messages leave a transaction open.
Balanced(L, n, b) ==
    Count(L, n, "StartTxn") = Count(L, n, "CommitTxn") + (IF b THEN 1 ELSE 0)

\* One more message is counted once.
LEMMA CountNext ==
    ASSUME NEW L, NEW n \in Nat, NEW op
    PROVE  /\ Count(L, n, op) \in Nat
           /\ Count(L, n + 1, op) = Count(L, n, op) + (IF L[n + 1].op = op THEN 1 ELSE 0)
<1> DEFINE S == {i \in 1..n : L[i].op = op}
           T == {i \in 1..(n + 1) : L[i].op = op}
<1>1. IsFiniteSet(1..n) /\ S \subseteq 1..n
  BY FS_Interval
<1>2. IsFiniteSet(S)
  BY <1>1, FS_Subset, Zenon
<1>3. Cardinality(S) \in Nat
  BY <1>2, FS_CardinalityType, Zenon
<1>4. \A i : i \in 1..(n + 1) <=> i \in 1..n \/ i = n + 1
  OBVIOUS
<1>5. n + 1 \notin S
  OBVIOUS
<1>6. CASE L[n + 1].op = op
  <2>1. T = S \cup {n + 1}
    BY <1>4, <1>6, Zenon
  <2>2. Cardinality(T) = Cardinality(S) + 1
    BY <1>2, <1>5, <2>1, FS_AddElement, Zenon
  <2> QED BY <1>3, <1>6, <2>2, Zenon DEF Count
<1>7. CASE L[n + 1].op # op
  <2>1. T = S
    BY <1>4, <1>7, Zenon
  <2>2. Count(L, n, op) \in Nat /\ Count(L, n + 1, op) = Count(L, n, op)
    BY <1>3, <2>1, Zenon DEF Count
  <2> QED BY <1>7, <2>2
<1> QED BY <1>6, <1>7

\* The writer takes a message.
LEMMA BalancedNext ==
    ASSUME NEW L, NEW n \in Nat, NEW b \in BOOLEAN, NEW c \in BOOLEAN,
           Stepped(L[n + 1].op, b, c), Balanced(L, n, b)
    PROVE  Balanced(L, n + 1, c)
<1> DEFINE x == Count(L, n, "StartTxn")
           y == Count(L, n, "CommitTxn")
           op == L[n + 1].op
<1>1. /\ x \in Nat /\ y \in Nat
      /\ Count(L, n + 1, "StartTxn") = x + (IF op = "StartTxn" THEN 1 ELSE 0)
      /\ Count(L, n + 1, "CommitTxn") = y + (IF op = "CommitTxn" THEN 1 ELSE 0)
  BY CountNext, Zenon
<1>2. x = y + (IF b THEN 1 ELSE 0)
  BY Zenon DEF Balanced
<1>3. Stepped(op, b, c)
  OBVIOUS
<1> HIDE DEF x, y, op
<1>4. CASE op = "StartTxn"
  BY <1>1, <1>2, <1>3, <1>4 DEF Stepped, Balanced
<1>5. CASE op = "CommitTxn"
  BY <1>1, <1>2, <1>3, <1>5 DEF Stepped, Balanced
<1>6. CASE op \notin {"StartTxn", "CommitTxn"}
  BY <1>1, <1>2, <1>3, <1>6 DEF Stepped, Balanced
<1> QED BY <1>4, <1>5, <1>6

\* A message joins the queue.
LEMMA BalancedAppend ==
    ASSUME NEW L \in Seq(Message), NEW m \in Message, NEW n \in 0..Len(L), NEW b,
           Balanced(L, n, b)
    PROVE  Balanced(Append(L, m), n, b)
<1>1. \A i \in 1..n : Append(L, m)[i] = L[i]
  BY AppendProperties, LenProperties
<1>2. ASSUME NEW op PROVE Count(Append(L, m), n, op) = Count(L, n, op)
  <2>1. {i \in 1..n : Append(L, m)[i].op = op} = {i \in 1..n : L[i].op = op}
    BY <1>1, Zenon
  <2> QED BY <2>1, Zenon DEF Count
<1> QED BY <1>2, Zenon DEF Balanced

\* The inductive invariant: what has landed is in the persistent tier, what
\* was taken is in the transaction that is open, and the released messages
\* leave no transaction open.
PrefixOk ==
    /\ start \in [Key -> Content]
    /\ StoredIn(disk, After, log, Landed)
    /\ open /\ ~fatal => StoredIn(view, After, log, head)
    /\ ~fatal => Balanced(log, head, open)
    /\ ~settling => Balanced(log, base, FALSE)

\* After is the table after each message, before a step and after it.
LEMMA AfterNow == ASSUME NEW n \in Nat PROVE Tables(start, log, After, n)
BY AfterTables, Zenon DEF After

\* The same after the step.
LEMMA AfterThen == ASSUME NEW n \in Nat PROVE Tables(start', log', After', n)
BY AfterTables, Zenon DEF After

\* The table after the message the writer takes next.
LEMMA AfterNext ==
    ASSUME Typed, PrefixOk, head < Len(log)
    PROVE  /\ After[head] \in [Key -> Content]
           /\ After[head + 1] = Applied(log[head + 1], After[head])
<1>1. head \in Nat /\ head + 1 \in Nat /\ head + 1 \in 1..(head + 1) /\ (head + 1) - 1 = head
      /\ head <= Len(log) /\ head \in 0..head
  BY DEF Typed
<1>2. Tables(start, log, After, head + 1) /\ Tables(start, log, After, head)
  BY <1>1, AfterNow, Zenon
<1>3. After[head + 1] = Applied(log[head + 1], After[head])
  BY <1>1, <1>2, Zenon DEF Tables
<1>4. After[head] \in [Key -> Content]
  BY <1>1, <1>2, TablesType, Zenon DEF Typed, PrefixOk
<1> QED BY <1>3, <1>4

\* A producer queues a message.
LEMMA QueuedPrefix ==
    ASSUME Typed, PrefixOk, NEW m \in Message, log' = Append(log, m), start' = start,
           UNCHANGED writerVars
    PROVE  PrefixOk'
<1>1. UNCHANGED <<head, base, settling, open, view, disk, fatal>> /\ Landed' = Landed
  BY DEF writerVars, Landed
<1>2. /\ Len(log) \in Nat /\ Len(log) <= Len(log) /\ Landed \in 0..Len(log) /\ head \in 0..Len(log)
      /\ base \in 0..Len(log) /\ log \in Seq(Message)
      /\ \A i \in 1..Len(log) : log[i] = log'[i]
  BY AppendProperties, LenProperties DEF Typed, Landed
<1>3. ASSUME NEW n \in 0..Len(log) PROVE After[n] = After'[n]
  <2>1. Tables(start, log, After, Len(log)) /\ Tables(start, log', After', Len(log))
    BY <1>2, AfterNow, AfterThen, Zenon
  <2>2. n \in Nat /\ n <= Len(log)
    BY <1>2
  <2>3. Tables(start, log, After', Len(log))
    BY <1>2, <2>1, Zenon DEF Tables
  <2> QED BY <1>2, <2>1, <2>2, <2>3, TablesAgree
<1>4. ASSUME NEW n \in 0..Len(log), NEW d, StoredIn(d, After, log, n)
      PROVE  StoredIn(d, After', log', n)
  BY <1>2, <1>3, <1>4, StoredAppend, Zenon
<1>5. ASSUME NEW n \in 0..Len(log), NEW b, Balanced(log, n, b) PROVE Balanced(log', n, b)
  BY <1>2, <1>5, BalancedAppend, Zenon
<1>6. StoredIn(disk', After', log', Landed')
  BY <1>1, <1>2, <1>4, Zenon DEF PrefixOk
<1>7. open' /\ ~fatal' => StoredIn(view', After', log', head')
  BY <1>1, <1>2, <1>4, Zenon DEF PrefixOk
<1>8. (~fatal' => Balanced(log', head', open')) /\ (~settling' => Balanced(log', base', FALSE))
  BY <1>1, <1>2, <1>5, Zenon DEF PrefixOk
<1> QED BY <1>6, <1>7, <1>8, Zenon DEF PrefixOk

\* While the log and the first table stay, After does.
LEMMA AfterSame == ASSUME log' = log, start' = start PROVE After' = After
BY Zenon DEF After

\* What the writer has taken is stored, and a message lands on it.
LEMMA TakenPrefix ==
    ASSUME Typed, PrefixOk, Take, log' = log, NEW d \in [Key -> Content],
           StoredIn(d, After, log, head)
    PROVE  /\ Taken \in Message /\ head \in Nat /\ head < Len(log) /\ head' = head + 1
           /\ StoredIn(Applied(Taken, d), After, log, head')
           /\ ~IsWrite(Taken) => StoredIn(d, After, log, head')
<1>1. head \in Nat /\ head < Len(log) /\ head' = head + 1 /\ log \in Seq(Message)
      /\ head + 1 \in 1..Len(log)
  BY LenProperties DEF Typed, Take
<1>2. Taken \in Message
  BY <1>1, ElementOfSeq, Zenon DEF Taken
<1>3. /\ After[head] \in [Key -> Content]
      /\ After[head + 1] = Applied(log[head + 1], After[head])
  BY <1>1, AfterNext, Zenon
<1>4. StoredIn(Applied(Taken, d), After, log, head + 1)
  BY <1>1, <1>3, StoredNext, Zenon DEF Taken
<1>5. ~IsWrite(Taken) => Applied(Taken, d) = d
  BY <1>2, AppliedType, Zenon
<1> QED BY <1>1, <1>2, <1>4, <1>5, Zenon

\* A live row was written by a message that is still queued: the removal the
\* writer skips is followed by it.
LEMMA SkippedPrefix ==
    ASSUME IInv, PrefixOk, Take, log' = log, ~open, ~fatal, RemoveSkipped(Taken),
           StoredIn(disk, After, log, head)
    PROVE  StoredIn(disk, After, log, head')
<1> DEFINE x == Taken.key
<1>1. /\ Typed /\ base = head /\ head \in Nat /\ head < Len(log) /\ head' = head + 1
      /\ log \in Seq(Message) /\ Len(log) \in Nat /\ disk \in [Key -> Content]
  BY LenProperties DEF IInv, Typed, Take, Lifecycle
<1>2. Taken \in Message /\ log[head + 1] = Taken
  <2>1. head + 1 \in 1..Len(log)
    BY <1>1
  <2> QED BY <1>1, <2>1, ElementOfSeq, Zenon DEF Taken
<1>3. x \in Key /\ Taken.val = None /\ Taken.op = "Remove" /\ Live(x)
  BY <1>2, MessageFacts DEF RemoveSkipped
<1>4. Taken = RemoveOf(x)
  BY <1>2, <1>3 DEF Message, InsertOf, RemoveOf, ClearOf, Control
<1>5. RowOk(x) /\ LastWins(x) /\ mem[x].cached /\ ~mem[x].tombstoned
  BY <1>3 DEF IInv, RowInv, Live
<1>6. kv[x] \in Value /\ kv[x] # None
  BY <1>5, ValueAssumption DEF RowOk
<1>7. head + 1 \in InFlight(x)
  <2>1. head + 1 \in (base + 1)..Len(log) /\ Counts(log[head + 1], x)
    BY <1>1, <1>2 DEF Counts
  <2> QED BY <2>1, Zenon DEF InFlight
<1>8. PICK j \in InFlight(x) : \A i \in InFlight(x) : i <= j
  <2> DEFINE T == {Len(log) - i : i \in InFlight(x)}
  <2>1. \A i \in InFlight(x) : i \in Nat /\ i <= Len(log)
    BY <1>1 DEF InFlight
  <2>2. T \subseteq Nat /\ T # {}
    BY <1>1, <1>7, <2>1
  <2>3. PICK t \in T : \A y \in T : t <= y
    BY <2>2, LeastNatural
  <2>4. PICK j \in InFlight(x) : t = Len(log) - j
    BY <2>3
  <2>5. \A i \in InFlight(x) : Len(log) - j <= Len(log) - i
    BY <2>3, <2>4
  <2>6. \A i \in InFlight(x) : i <= j
    BY <1>1, <2>1, <2>5
  <2> QED BY <2>6
<1>9. log[j].val = kv[x]
  BY <1>5, <1>8 DEF LastWins
<1>10. j \in (head + 1)..Len(log) /\ Counts(log[j], x) /\ j # head + 1
  BY <1>1, <1>2, <1>3, <1>6, <1>8, <1>9 DEF InFlight
<1>11. j \in ((head + 1) + 1)..Len(log) /\ j \in 1..Len(log)
  BY <1>1, <1>10
<1>12. log[j] \in Message
  BY <1>1, <1>11, ElementOfSeq, Zenon
<1>13. log[j].op = "Insert" /\ log[j].key = x
  <2> DEFINE m == log[j]
  <2>1. m \in Message /\ m.val # None /\ Counts(m, x) /\ x # None
    BY <1>3, <1>6, <1>9, <1>10, <1>12, ValueAssumption
  <2> HIDE DEF m, x
  <2>2. m.op = "Insert"
    BY <2>1, MessageFacts DEF IsWrite, Counts
  <2>3. m.keys = {}
    BY <2>1, <2>2, MessageFacts
  <2>4. m.key = x
    BY <2>1, <2>3 DEF Counts
  <2> QED BY <2>2, <2>4 DEF m
<1>14. /\ After[head] \in [Key -> Content]
       /\ After[head + 1] = Applied(log[head + 1], After[head])
  BY <1>1, AfterNext, Zenon
<1>15. log[head + 1] = RemoveOf(x)
  BY <1>2, <1>4
<1>16. \E i \in ((head + 1) + 1)..Len(log) : log[i].op = "Insert" /\ log[i].key = x
  BY <1>11, <1>13, Zenon
<1> HIDE DEF x
<1> QED BY <1>1, <1>3, <1>14, <1>15, <1>16, StoredSkip, Zenon

\* The persistent tier when the database is opened.
LEMMA OpenedPrefix ==
    ASSUME NEW d \in [Key -> Content], NEW F, Tables(d, <<>>, F, 0)
    PROVE  StoredIn(d, F, <<>>, 0) /\ Balanced(<<>>, 0, FALSE)
<1>1. F[0] = d
  BY Zenon DEF Tables
<1>2. ASSUME NEW op PROVE Count(<<>>, 0, op) = 0
  <2>1. {i \in 1..0 : <<>>[i].op = op} = {}
    OBVIOUS
  <2> QED BY <2>1, FS_EmptySet, Zenon DEF Count
<1> QED BY <1>1, <1>2 DEF StoredIn, Balanced

\* Every step of the background writer keeps the prefix.
LEMMA WriterPrefix ==
    ASSUME IInv, PrefixOk, Writer
    PROVE  PrefixOk'
<1>0. /\ Typed /\ Lifecycle /\ base \in Nat /\ head \in Nat /\ open \in BOOLEAN
      /\ fatal \in BOOLEAN /\ settling \in BOOLEAN
      /\ disk \in [Key -> Content] /\ view \in [Key -> Content]
  BY DEF IInv, Typed
<1>1. log' = log /\ start' = start
  BY DEF Writer, Discard, Fail, StartTxn, CommitTxn, ApplyInTxn, Apply, Release, Settled, CaughtUp
<1>2. After' = After /\ start' \in [Key -> Content]
  BY <1>1, AfterSame, Zenon DEF PrefixOk
<1>3. SUFFICES /\ StoredIn(disk', After, log, Landed')
               /\ open' /\ ~fatal' => StoredIn(view', After, log, head')
               /\ ~fatal' => Balanced(log, head', open')
               /\ ~settling' => Balanced(log, base', FALSE)
  BY <1>1, <1>2, Zenon DEF PrefixOk
<1>4. ~settling => Landed = base
  BY DEF Landed
<1>5. ~settling' => Landed' = base'
  BY DEF Landed
<1>6. ~settling /\ ~open /\ ~fatal => StoredIn(disk, After, log, head) /\ base = head
  <2>1. ~settling /\ ~open /\ ~fatal => base = head
    BY <1>0 DEF Lifecycle
  <2>2. StoredIn(disk, After, log, Landed)
    BY Zenon DEF PrefixOk
  <2> QED BY <1>4, <2>1, <2>2, Zenon
<1>7. ASSUME Take, ~fatal, NEW b \in BOOLEAN, Stepped(Taken.op, open, b)
      PROVE  Balanced(log, head', b)
  <2>1. Balanced(log, head, open) /\ head' = head + 1
    BY <1>7, Zenon DEF PrefixOk, Take
  <2> QED BY <1>0, <1>7, <2>1, BalancedNext, Zenon DEF Taken
<1>8. CASE Discard \/ Fail
  <2>1. ~settling /\ fatal' = TRUE /\ UNCHANGED <<base, settling, disk>>
    BY <1>8 DEF Discard, Fail, Trip, IInv, Typed, Take
  <2> QED BY <1>4, <1>5, <2>1, Zenon DEF PrefixOk
<1>9. CASE StartTxn
  <2>1. /\ Take /\ ~settling /\ ~open /\ ~fatal /\ Taken.op = "StartTxn" /\ open' = TRUE
        /\ view' = disk /\ UNCHANGED <<base, settling, disk, fatal>>
    BY <1>9 DEF StartTxn, Take
  <2>2. StoredIn(disk, After, log, head')
    BY <1>0, <1>1, <1>6, <2>1, TakenPrefix DEF IsWrite
  <2>3. Balanced(log, head', TRUE)
    BY <1>7, <2>1 DEF Stepped
  <2> QED BY <1>4, <1>5, <2>1, <2>2, <2>3, Zenon DEF PrefixOk
<1>10. CASE CommitTxn
  <2>1. /\ Take /\ open /\ ~fatal /\ Taken.op = "CommitTxn" /\ open' = FALSE
        /\ disk' = view /\ settling' = TRUE
    BY <1>10 DEF CommitTxn
  <2>2. StoredIn(view, After, log, head')
    BY <1>0, <1>1, <2>1, TakenPrefix DEF IsWrite, PrefixOk
  <2>3. Balanced(log, head', FALSE)
    BY <1>7, <2>1 DEF Stepped
  <2>4. Landed' = head'
    BY <2>1 DEF Landed
  <2> QED BY <2>1, <2>2, <2>3, <2>4, Zenon
<1>11. CASE ApplyInTxn
  <2>1. /\ Take /\ ~settling /\ open /\ ~fatal /\ IsWrite(Taken)
        /\ view' = Applied(Taken, view) /\ UNCHANGED <<base, settling, open, disk, fatal>>
    BY <1>11 DEF ApplyInTxn, Take
  <2>2. StoredIn(view', After, log, head')
    BY <1>0, <1>1, <2>1, TakenPrefix, Zenon DEF PrefixOk
  <2>3. Stepped(Taken.op, open, open)
    BY <2>1 DEF Stepped, IsWrite
  <2>4. Balanced(log, head', open)
    BY <1>0, <1>7, <2>1, <2>3, Zenon
  <2> QED BY <1>4, <1>5, <2>1, <2>2, <2>4, Zenon DEF PrefixOk
<1>12. CASE Apply
  <2>1. /\ Take /\ ~settling /\ ~open /\ ~fatal /\ IsWrite(Taken)
        /\ disk' = IF RemoveSkipped(Taken) THEN disk ELSE Applied(Taken, disk)
        /\ settling' = TRUE /\ UNCHANGED <<open, fatal>>
    BY <1>12 DEF Apply, Take
  <2>2. StoredIn(disk', After, log, head')
    <3>1. CASE RemoveSkipped(Taken)
      BY <1>1, <1>6, <2>1, <3>1, SkippedPrefix, Zenon
    <3>2. CASE ~RemoveSkipped(Taken)
      BY <1>0, <1>1, <1>6, <2>1, <3>2, TakenPrefix, Zenon
    <3> QED BY <3>1, <3>2
  <2>3. Stepped(Taken.op, open, open)
    BY <2>1 DEF Stepped, IsWrite
  <2>4. Balanced(log, head', open)
    BY <1>0, <1>7, <2>1, <2>3, Zenon
  <2>5. Landed' = head'
    BY <2>1 DEF Landed
  <2> QED BY <2>1, <2>2, <2>4, <2>5, Zenon
<1>13. CASE Release
  <2>1. settling /\ UNCHANGED <<head, settling, open, view, disk, fatal>>
    BY <1>13 DEF Release
  <2>2. Landed' = Landed
    BY <2>1 DEF Landed
  <2> QED BY <2>1, <2>2, Zenon DEF PrefixOk
<1>14. CASE Settled
  <2>1. settling /\ base = head /\ ~settling' /\ UNCHANGED <<head, base, open, view, disk, fatal>>
    BY <1>14 DEF Settled
  <2>2. ~open /\ ~fatal /\ Landed = head /\ Landed' = head /\ open = FALSE
    <3>1. ~open /\ ~fatal
      BY <1>0, <2>1 DEF Lifecycle
    <3>2. Landed = head
      BY <2>1, Zenon DEF Landed
    <3>3. Landed' = head
      BY <1>5, <2>1, Zenon
    <3> QED BY <1>0, <3>1, <3>2, <3>3, Zenon
  <2> QED BY <2>1, <2>2, Zenon DEF PrefixOk
<1>15. CASE CaughtUp
  <2>1. /\ Take /\ ~settling /\ ~fatal /\ Taken.op = "CaughtUp"
        /\ UNCHANGED <<settling, open, view, disk, fatal>>
        /\ (open /\ base' = base) \/ (~open /\ base' = base + 1)
    <3>1. /\ Take /\ ~fatal /\ Taken.op = "CaughtUp" /\ UNCHANGED <<settling, open, view, disk, fatal>>
      BY <1>15, Zenon DEF CaughtUp
    <3>2. (open /\ base' = base) \/ (~open /\ base' = base + 1)
      BY <1>15, Zenon DEF CaughtUp
    <3>3. ~settling
      BY <3>1, Zenon DEF Take
    <3> QED BY <3>1, <3>2, <3>3, Zenon
  <2>2. Stepped(Taken.op, open, open) /\ ~IsWrite(Taken)
    BY <2>1 DEF Stepped, IsWrite
  <2>3. Balanced(log, head', open)
    BY <1>0, <1>7, <2>1, <2>2, Zenon
  <2>4. CASE open /\ base' = base
    <3>1. StoredIn(view, After, log, head')
      BY <1>0, <1>1, <2>1, <2>2, <2>4, TakenPrefix, Zenon DEF PrefixOk
    <3> QED BY <1>4, <1>5, <2>1, <2>3, <2>4, <3>1, Zenon DEF PrefixOk
  <2>5. CASE ~open /\ base' = base + 1
    <3>1. base' = head' /\ open = FALSE
      BY <1>0, <1>6, <2>1, <2>5 DEF Take
    <3>2. StoredIn(disk, After, log, head')
      BY <1>0, <1>1, <1>6, <2>1, <2>2, <2>5, TakenPrefix, Zenon
    <3> QED BY <1>5, <2>1, <2>3, <3>1, <3>2, Zenon
  <2> QED BY <2>1, <2>4, <2>5
<1> QED BY <1>8, <1>9, <1>10, <1>11, <1>12, <1>13, <1>14, <1>15 DEF Writer

\* Every step keeps the prefix.
LEMMA PrefixKeeps ==
    ASSUME IInv, PrefixOk, [Next]_vars
    PROVE  PrefixOk'
<1>0. Typed
  BY DEF IInv
<1>1. CASE Producer
  <2>1. ASSUME NEW m \in Message, log' = Append(log, m), start' = start, UNCHANGED writerVars
        PROVE  PrefixOk'
    BY <1>0, <2>1, QueuedPrefix, Zenon
  <2>2. ASSUME NEW k \in Key, NEW v \in Value, Insert(k, v) PROVE PrefixOk'
    BY <2>1, <2>2, IsMessage, Zenon DEF Insert, Enqueue
  <2>3. ASSUME NEW k \in Key, Remove(k) PROVE PrefixOk'
    BY <2>1, <2>3, IsMessage, Zenon DEF Remove, Enqueue
  <2>4. CASE ClearTable
    <3>1. Cached \in SUBSET Key
      BY DEF Cached
    <3> QED BY <2>1, <2>4, <3>1, IsMessage, Zenon DEF ClearTable, Enqueue
  <2>5. ASSUME NEW op \in {"StartTxn", "CommitTxn", "CaughtUp"}, log' = Append(log, Control(op)),
               start' = start, UNCHANGED writerVars
        PROVE  PrefixOk'
    BY <2>1, <2>5, IsMessage, Zenon
  <2>6. CASE WriteTxn
    BY <2>5, <2>6, Zenon DEF WriteTxn, Enqueue
  <2>7. CASE CommitTxnMut
    BY <2>5, <2>7, Zenon DEF CommitTxnMut, Enqueue
  <2>8. CASE Persist
    BY <2>5, <2>8, Zenon DEF Persist, Enqueue
  <2>9. CASE DropTxnMut
    <3>1. log' = log /\ start' = start /\ UNCHANGED <<head, base, settling, open, view, disk, fatal>>
      BY <2>9 DEF DropTxnMut, writerVars
    <3>2. After' = After /\ Landed' = Landed
      BY <3>1, AfterSame DEF Landed
    <3> QED BY <3>1, <3>2, Zenon DEF PrefixOk
  <2> QED BY <1>1, <2>2, <2>3, <2>4, <2>6, <2>7, <2>8, <2>9 DEF Producer
<1>2. CASE Writer
  BY <1>2, WriterPrefix
<1>3. CASE Reader \/ UNCHANGED vars
  <2>1. log' = log /\ start' = start /\ UNCHANGED <<head, base, settling, open, view, disk, fatal>>
    BY <1>3 DEF Reader, vars, writerVars
  <2>2. After' = After /\ Landed' = Landed
    BY <2>1, AfterSame DEF Landed
  <2> QED BY <2>1, <2>2, Zenon DEF PrefixOk
<1>4. CASE Crash
  <2>1. /\ log' = <<>> /\ head' = 0 /\ base' = 0 /\ settling' = FALSE /\ open' = FALSE
        /\ disk' = disk /\ start' = disk
    BY <1>4 DEF Crash
  <2>2. disk \in [Key -> Content] /\ Landed' = 0
    BY <1>0, <2>1 DEF Typed, Landed
  <2>3. Tables(disk, <<>>, After', 0)
    <3>1. 0 \in Nat
      OBVIOUS
    <3> QED BY <2>1, <3>1, AfterThen, Zenon
  <2>4. StoredIn(disk, After', <<>>, 0) /\ Balanced(<<>>, 0, FALSE)
    BY <2>2, <2>3, OpenedPrefix, Zenon
  <2> QED BY <2>1, <2>2, <2>4, Zenon DEF PrefixOk
<1> QED BY <1>1, <1>2, <1>3, <1>4 DEF Next

\* The persistent tier holds the table as it was after some message, never
\* between two writes of a transaction, and all that a successful persist has
\* promised; only a key whose removal was skipped may hold an older value,
\* until the write queued behind the removal lands.  This is so for any keys
\* and values and any number of messages, transactions, failures and restarts
\* (db_run, KeyRemove, LayeredDbTxMut, persist).
THEOREM CommittedPrefixTheorem == Spec => []CommittedPrefix
<1>1. Init => IInv /\ PrefixOk
  <2>1. Init => IInv
    BY OpenedKeeps DEF Init, Opened
  <2>2. ASSUME Init PROVE PrefixOk
    <3>1. /\ log = <<>> /\ head = 0 /\ base = 0 /\ settling = FALSE /\ open = FALSE
          /\ disk \in [Key -> Content] /\ start = disk
      BY <2>2 DEF Init
    <3>2. Landed = 0
      BY <3>1 DEF Landed
    <3>3. Tables(disk, <<>>, After, 0)
      <4>1. 0 \in Nat
        OBVIOUS
      <4> QED BY <3>1, <4>1, AfterNow, Zenon
    <3>4. StoredIn(disk, After, <<>>, 0) /\ Balanced(<<>>, 0, FALSE)
      BY <3>1, <3>3, OpenedPrefix, Zenon
    <3> QED BY <3>1, <3>2, <3>4, Zenon DEF PrefixOk
  <2> QED BY <2>1, <2>2
<1>2. IInv /\ PrefixOk /\ [Next]_vars => IInv' /\ PrefixOk'
  BY NextKeeps, PrefixKeeps
<1>3. PrefixOk /\ Typed /\ InTxnOrder /\ acked <= Landed => CommittedPrefix
  <2> SUFFICES ASSUME PrefixOk, Typed, InTxnOrder, acked <= Landed PROVE CommittedPrefix
    OBVIOUS
  <2>1. \A k \in Key : disk[k] = After[Landed][k] \/ Replaced(k, Landed)
    BY Zenon DEF PrefixOk, StoredIn, Replaced
  <2>2. ~settling => Count(log, base, "StartTxn") = Count(log, base, "CommitTxn")
    <3>1. base \in Nat
      BY DEF Typed
    <3>2. Count(log, base, "CommitTxn") \in Nat
      BY <3>1, CountNext, Zenon
    <3> QED BY <3>2 DEF PrefixOk, Balanced
  <2> QED BY <2>1, <2>2, Zenon DEF CommittedPrefix, Count
<1>4. IInv => Typed
  BY DEF IInv
<1> QED BY <1>1, <1>2, <1>3, <1>4, TransactionsInOrder, PTL DEF Spec

=============================================================================
