--------------------------- MODULE LayeredDbProofs ---------------------------
(***************************************************************************)
(* For every set of keys and values and every number of messages: a key    *)
(* reads as it was last written, and the in-flight counts are exact.       *)
(*                                                                         *)
(* ReadsLatest says what a read finds now; the invariant has to say why    *)
(* the persistent tier may be trusted for what is not in the cache.  A     *)
(* cached row stays until the last message about it has landed             *)
(* (CountsExact), that message carries the value of the row (LastWins),    *)
(* and so the persistent tier agrees when the row may go (DiskRight, and   *)
(* ViewRight for what an open transaction is about to commit).  A clear is *)
(* the hard case, since it also changes keys that are not in the cache: it *)
(* pins every row it finds or that comes after it (ClearPins), and keys    *)
(* outside the cache are empty from then on (ClearEmpties).                *)
(***************************************************************************)
EXTENDS LayeredDb, FiniteSetTheorems, SequenceTheorems, TLAPS

Typed ==
    /\ mem \in [Key -> StoreEntry] /\ clearing \in BOOLEAN
    /\ log \in Seq(Message)
    /\ head \in Nat /\ base \in Nat /\ base <= head /\ head <= Len(log)
    /\ disk \in [Key -> Content] /\ view \in [Key -> Content] /\ kv \in [Key -> Content]
    /\ settling \in BOOLEAN /\ open \in BOOLEAN /\ fatal \in BOOLEAN

Lifecycle ==
    /\ settling => ~open /\ ~fatal
    /\ ~settling /\ ~open /\ ~fatal => base = head

RowOk(k) ==
    IF mem[k].cached
    THEN IF mem[k].tombstoned THEN kv[k] = None ELSE mem[k].value = kv[k] /\ kv[k] \in Value
    ELSE mem[k] = NoEntry

CountOk(k) ==
    IF mem[k].cached THEN mem[k].in_flight = Cardinality(InFlight(k)) ELSE InFlight(k) = {}

LastWins(k) ==
    \A i \in InFlight(k) : (\A j \in InFlight(k) : j <= i) => log[i].val = kv[k]

Clears(a, b) == {i \in (a + 1)..b : log[i].op = "Clear"}

ClearPins(k) ==
    mem[k].cached => \A i \in Clears(base, Len(log)) : \E j \in InFlight(k) : i <= j

ClearEmpties(k) ==
    ~mem[k].cached => (Clears(base, Len(log)) # {} => kv[k] = None)

ClearPending == clearing => Clears(base, Len(log)) # {}

DiskRight(k) ==
    IF mem[k].cached
    THEN (\A i \in InFlight(k) : i <= Landed) => disk[k] = kv[k]
    ELSE /\ ~clearing => disk[k] = kv[k]
         /\ settling /\ Clears(base, head) # {} => disk[k] = None

ViewRight(k) ==
    open /\ ~fatal =>
        IF mem[k].cached
        THEN (\A i \in InFlight(k) : i <= head) => view[k] = kv[k]
        ELSE view[k] = IF Clears(base, head) # {} THEN None ELSE disk[k]

RowInv(k) ==
    /\ RowOk(k) /\ CountOk(k) /\ LastWins(k) /\ ClearPins(k) /\ ClearEmpties(k)
    /\ DiskRight(k) /\ ViewRight(k)

IInv == Typed /\ Lifecycle /\ ClearPending /\ \A k \in Key : RowInv(k)

-----------------------------------------------------------------------------
\* The invariant gives what a read finds, and the counts.
LEMMA IInvImplies == IInv => ReadsLatest /\ CountsExact
<1>1. ASSUME IInv, NEW k \in Key PROVE TxGet(k) = kv[k]
  <2>1. RowOk(k) /\ DiskRight(k) /\ ClearEmpties(k) /\ ClearPending
    BY <1>1 DEF IInv, RowInv
  <2>2. mem[k].cached \in BOOLEAN /\ mem[k].tombstoned \in BOOLEAN /\ clearing \in BOOLEAN
    BY <1>1 DEF IInv, Typed, StoreEntry
  <2> QED BY <2>1, <2>2 DEF RowOk, DiskRight, ClearEmpties, ClearPending, TxGet, Live
<1>2. ASSUME IInv, NEW k \in Key PROVE CountOk(k)
  BY <1>2 DEF IInv, RowInv
<1> QED BY <1>1, <1>2 DEF ReadsLatest, CountsExact, CountOk

\* The shape of the messages.
LEMMA MessageFacts ==
    \A m \in Message :
        /\ m.op = "Insert" => m.key \in Key /\ m.val \in Value /\ m.keys = {}
        /\ m.op = "Remove" => m.key \in Key /\ m.val = None /\ m.keys = {}
        /\ m.op = "Clear" => m.key = None /\ m.val = None /\ m.keys \subseteq Key
        /\ ~IsWrite(m) => m.key = None /\ m.keys = {}
        /\ m.val \in Content
BY DEF Message, InsertOf, RemoveOf, ClearOf, Control, IsWrite, Content

\* What the operations queue are messages.
LEMMA IsMessage ==
    /\ \A k \in Key, v \in Value : InsertOf(k, v) \in Message
    /\ \A k \in Key : RemoveOf(k) \in Message
    /\ \A ks \in SUBSET Key : ClearOf(ks) \in Message
    /\ \A op \in {"StartTxn", "CommitTxn", "CaughtUp"} : Control(op) \in Message
BY DEF Message

\* The sets of indices are finite, and their cardinality a number.
LEMMA InFlightFinite ==
    ASSUME Typed, NEW k \in Key
    PROVE  IsFiniteSet(InFlight(k)) /\ Cardinality(InFlight(k)) \in Nat
<1>1. Len(log) \in Nat /\ base \in Nat
  BY DEF Typed
<1>2. IsFiniteSet((base + 1)..Len(log))
  BY <1>1, FS_Interval
<1>3. InFlight(k) \in SUBSET ((base + 1)..Len(log))
  BY DEF InFlight
<1>4. IsFiniteSet(InFlight(k))
  BY ZenonT(30), <1>2, <1>3, FS_Subset
<1> QED BY <1>4, FS_CardinalityType

\* A message that is queued is about the rows it counts.
LEMMA Queued ==
    ASSUME Typed, NEW m \in Message, log' = Append(log, m), base' = base
    PROVE  /\ log' \in Seq(Message) /\ Len(log') = Len(log) + 1 /\ Len(log) \in Nat
           /\ \A i \in 1..Len(log) : log'[i] = log[i]
           /\ log'[Len(log) + 1] = m
           /\ \A k \in Key : InFlight(k)' = IF Counts(m, k) THEN InFlight(k) \cup {Len(log) + 1}
                                            ELSE InFlight(k)
<1>1. /\ log' \in Seq(Message) /\ Len(log') = Len(log) + 1 /\ Len(log) \in Nat
      /\ \A i \in 1..Len(log) : log'[i] = log[i]
      /\ log'[Len(log) + 1] = m
  BY AppendProperties, LenProperties DEF Typed
<1>2. ASSUME NEW k \in Key
      PROVE  InFlight(k)' = IF Counts(m, k) THEN InFlight(k) \cup {Len(log) + 1} ELSE InFlight(k)
  <2>1. base \in Nat /\ base <= Len(log)
    BY <1>1 DEF Typed
  <2>2. InFlight(k)' = {i \in (base + 1)..(Len(log) + 1) : Counts(log'[i], k)}
    BY <1>1 DEF InFlight, Counts
  <2>3. \A i : i \in (base + 1)..(Len(log) + 1) <=> i \in (base + 1)..Len(log) \/ i = Len(log) + 1
    BY <1>1, <2>1
  <2>4. \A i \in (base + 1)..Len(log) : log'[i] = log[i]
    BY <1>1, <2>1
  <2> QED BY ZenonT(30), <1>1, <2>2, <2>3, <2>4 DEF InFlight
<1> QED BY <1>1, <1>2

\* A queued message adds itself to the clears, and to nothing the writer took.
LEMMA QueuedClears ==
    ASSUME Typed, NEW m \in Message, log' = Append(log, m), base' = base, head' = head
    PROVE  /\ Clears(base, Len(log))' = IF m.op = "Clear" THEN Clears(base, Len(log)) \cup {Len(log) + 1}
                                        ELSE Clears(base, Len(log))
           /\ Clears(base, head)' = Clears(base, head)
<1>1. /\ Len(log') = Len(log) + 1 /\ Len(log) \in Nat
      /\ \A i \in 1..Len(log) : log'[i] = log[i]
      /\ log'[Len(log) + 1] = m
  BY Queued
<1>2. base \in Nat /\ head \in Nat /\ base <= head /\ head <= Len(log)
  BY DEF Typed
<1>3. \A i : i \in (base + 1)..(Len(log) + 1) <=> i \in (base + 1)..Len(log) \/ i = Len(log) + 1
  BY <1>1, <1>2
<1>4. /\ \A i \in (base + 1)..Len(log) : log'[i] = log[i]
      /\ \A i \in (base + 1)..head : log'[i] = log[i]
  BY <1>1, <1>2
<1>5. Clears(base, Len(log))' = {i \in (base + 1)..(Len(log) + 1) : log'[i].op = "Clear"}
  BY <1>1 DEF Clears
<1>6. Clears(base, head)' = {i \in (base + 1)..head : log'[i].op = "Clear"}
  BY DEF Clears
<1> QED BY ZenonT(30), <1>1, <1>3, <1>4, <1>5, <1>6 DEF Clears

\* A message about other keys.
LEMMA QueuedOther ==
    ASSUME IInv, NEW m \in Message, log' = Append(log, m), UNCHANGED writerVars,
           NEW k \in Key, ~Counts(m, k), m.op # "Clear",
           mem'[k] = mem[k], kv'[k] = kv[k], clearing' = clearing
    PROVE  RowInv(k)'
<1>1. Typed /\ RowInv(k)
  BY DEF IInv
<1>2. UNCHANGED <<head, base, settling, open, view, disk, fatal>>
  BY DEF writerVars
<1>3. InFlight(k)' = InFlight(k)
  BY <1>1, <1>2, Queued
<1>4. Clears(base, Len(log))' = Clears(base, Len(log)) /\ Clears(base, head)' = Clears(base, head)
  BY <1>1, <1>2, QueuedClears
<1>5. \A i \in InFlight(k) : log'[i] = log[i]
  <2>1. \A i \in InFlight(k) : i \in 1..Len(log)
    BY <1>1 DEF InFlight, Typed
  <2> QED BY <2>1, <1>1, <1>2, Queued
<1>6. Landed' = Landed
  BY <1>2 DEF Landed
<1>7. RowOk(k)' /\ CountOk(k)'
  BY <1>1, <1>3 DEF RowInv, RowOk, CountOk
<1>8. LastWins(k)'
  BY ZenonT(30), <1>1, <1>3, <1>5 DEF RowInv, LastWins
<1>9. ClearPins(k)' /\ ClearEmpties(k)'
  BY <1>1, <1>3, <1>4 DEF RowInv, ClearPins, ClearEmpties
<1>10. DiskRight(k)' /\ ViewRight(k)'
  BY <1>1, <1>2, <1>3, <1>4, <1>6 DEF RowInv, DiskRight, ViewRight
<1> QED BY <1>7, <1>8, <1>9, <1>10 DEF RowInv

\* A message about k, whose row takes the value of the message.
LEMMA QueuedRow ==
    ASSUME IInv, NEW m \in Message, log' = Append(log, m), UNCHANGED writerVars,
           NEW k \in Key, Counts(m, k), m.val = kv'[k], RowOk(k)',
           mem'[k].cached, mem'[k].in_flight = mem[k].in_flight + 1
    PROVE  RowInv(k)'
<1>1. Typed /\ RowInv(k)
  BY DEF IInv
<1>2. UNCHANGED <<head, base, settling, open, view, disk, fatal>>
  BY DEF writerVars
<1> DEFINE n == Len(log) + 1
<1>3. /\ InFlight(k)' = InFlight(k) \cup {n} /\ Len(log) \in Nat /\ log'[n] = m
      /\ Len(log') = n
  BY <1>1, <1>2, Queued
<1>4. \A i \in InFlight(k) : i \in Nat /\ i < n
  BY <1>1, <1>3 DEF InFlight, Typed
<1>5. CountOk(k)'
  <2>1. IsFiniteSet(InFlight(k)) /\ Cardinality(InFlight(k)) \in Nat
    BY <1>1, InFlightFinite
  <2>2. n \notin InFlight(k)
    BY <1>3, <1>4
  <2> HIDE DEF n
  <2>5. Cardinality(InFlight(k) \cup {n}) = Cardinality(InFlight(k)) + 1
    BY ZenonT(30), <2>1, <2>2, FS_AddElement
  <2>3. Cardinality(InFlight(k)') = Cardinality(InFlight(k)) + 1
    BY <1>3, <2>5
  <2>4. mem[k].in_flight = Cardinality(InFlight(k))
    <3>1. CASE mem[k].cached
      BY <3>1, <1>1 DEF RowInv, CountOk
    <3>2. CASE ~mem[k].cached
      <4>1. mem[k] = NoEntry /\ InFlight(k) = {}
        BY <3>2, <1>1 DEF RowInv, CountOk, RowOk
      <4>2. mem[k].in_flight = 0
        BY <4>1 DEF NoEntry
      <4> QED BY <4>1, <4>2, FS_EmptySet
    <3> QED BY <3>1, <3>2
  <2> QED BY <2>3, <2>4 DEF CountOk
<1>6. LastWins(k)'
  <2> SUFFICES ASSUME NEW i \in InFlight(k)', \A j \in InFlight(k)' : j <= i
               PROVE  log'[i].val = kv'[k]
    BY ZenonT(30) DEF LastWins
  <2>2. n <= i /\ n \in Nat
    BY <1>3
  <2>1. i = n
    <3> HIDE DEF n
    <3> QED BY <1>3, <1>4, <2>2
  <2> QED BY <2>1, <1>3
<1>7. ClearPins(k)'
  <2>1. \A i \in Clears(base, Len(log))' : i <= n
    BY <1>1, <1>2, <1>3 DEF Clears, Typed
  <2> QED BY <2>1, <1>3 DEF ClearPins
<1>8. ClearEmpties(k)'
  BY DEF ClearEmpties
<1>9. ~(\A i \in InFlight(k)' : i <= Landed') /\ ~(\A i \in InFlight(k)' : i <= head')
  <2>1. Landed' \in Nat /\ head' \in Nat /\ Landed' < n /\ head' < n
    BY <1>1, <1>2, <1>3 DEF Landed, Typed
  <2> HIDE DEF n
  <2>2. n \in InFlight(k)' /\ n \in Nat
    BY <1>3 DEF n
  <2> QED BY <2>1, <2>2
<1>10. DiskRight(k)' /\ ViewRight(k)'
  BY <1>9 DEF DiskRight, ViewRight
<1> QED BY <1>5, <1>6, <1>7, <1>8, <1>10 DEF RowInv

\* A clear, for a key that is not in the cache.
LEMMA QueuedClear ==
    ASSUME IInv, NEW m \in Message, log' = Append(log, m), UNCHANGED writerVars,
           NEW k \in Key, m.op = "Clear", ~Counts(m, k), ~mem[k].cached,
           mem'[k] = mem[k], kv'[k] = None, clearing' = TRUE
    PROVE  RowInv(k)'
<1>1. Typed /\ RowInv(k)
  BY DEF IInv
<1>2. UNCHANGED <<head, base, settling, open, view, disk, fatal>>
  BY DEF writerVars
<1>3. InFlight(k)' = InFlight(k) /\ InFlight(k) = {}
  BY <1>1, <1>2, Queued DEF RowInv, CountOk
<1>4. Clears(base, head)' = Clears(base, head)
  BY <1>1, <1>2, QueuedClears
<1>5. RowOk(k)' /\ CountOk(k)' /\ LastWins(k)' /\ ClearPins(k)' /\ ClearEmpties(k)'
  BY <1>1, <1>3 DEF RowInv, RowOk, CountOk, LastWins, ClearPins, ClearEmpties
<1>6. DiskRight(k)' /\ ViewRight(k)'
  BY <1>1, <1>2, <1>4 DEF RowInv, DiskRight, ViewRight
<1> QED BY <1>5, <1>6 DEF RowInv

\* What every queued message keeps, whatever it does to the rows.
LEMMA QueuedFrame ==
    ASSUME IInv, NEW m \in Message, log' = Append(log, m), UNCHANGED writerVars,
           mem' \in [Key -> StoreEntry], kv' \in [Key -> Content],
           clearing' = clearing \/ (m.op = "Clear" /\ clearing' = TRUE)
    PROVE  Typed' /\ Lifecycle' /\ ClearPending'
<1>1. Typed
  BY DEF IInv
<1>2. UNCHANGED <<head, base, settling, open, view, disk, fatal>>
  BY DEF writerVars
<1>3. log' \in Seq(Message) /\ Len(log') = Len(log) + 1 /\ Len(log) \in Nat
  BY <1>1, <1>2, Queued
<1>4. clearing' \in BOOLEAN
  BY ZenonT(30), <1>1 DEF Typed
<1>5. Typed'
  BY <1>1, <1>2, <1>3, <1>4 DEF Typed
<1>6. Lifecycle'
  BY <1>2 DEF IInv, Lifecycle
<1>7. ClearPending'
  BY ZenonT(30), <1>1, <1>2, QueuedClears DEF IInv, ClearPending
<1> QED BY <1>5, <1>6, <1>7

\* insert keeps the invariant.
LEMMA InsertKeeps ==
    ASSUME IInv, NEW k \in Key, NEW v \in Value, Insert(k, v)
    PROVE  IInv'
<1> DEFINE m == InsertOf(k, v)
<1>1. /\ m \in Message /\ log' = Append(log, m) /\ UNCHANGED writerVars
      /\ clearing' = clearing
  BY IsMessage DEF Insert, Enqueue, insert_impl
<1>2. m.key = k /\ m.val = v /\ m.keys = {} /\ m.op = "Insert"
  BY DEF InsertOf
<1> HIDE DEF m
<1>3. /\ mem \in [Key -> StoreEntry] /\ kv \in [Key -> Content]
      /\ mem[k].in_flight \in Nat
  BY DEF IInv, Typed, StoreEntry
<1> DEFINE row == Entry(v, FALSE, mem[k].in_flight + 1)
<1>4. /\ mem' = [mem EXCEPT ![k] = row]
      /\ kv' = [kv EXCEPT ![k] = v]
  BY DEF Insert, insert_impl
<1>5. row \in StoreEntry /\ row.cached /\ ~row.tombstoned /\ row.value = v
      /\ row.in_flight = mem[k].in_flight + 1
  BY <1>3 DEF StoreEntry, Entry, Content
<1> HIDE DEF row
<1>6. mem' \in [Key -> StoreEntry] /\ kv' \in [Key -> Content]
  BY <1>3, <1>4, <1>5 DEF Content
<1>7. Typed' /\ Lifecycle' /\ ClearPending'
  BY <1>1, <1>6, QueuedFrame
<1>8. ASSUME NEW x \in Key PROVE RowInv(x)'
  <2>1. CASE x = k
    <3>1. mem'[k] = row /\ kv'[k] = v
      BY <1>3, <1>4
    <3>2. RowOk(k)'
      BY <3>1, <1>5 DEF RowOk
    <3>3. Counts(m, k)
      BY <1>2 DEF Counts
    <3> QED BY <2>1, <3>1, <3>2, <3>3, <1>1, <1>2, <1>5, QueuedRow
  <2>2. CASE x # k
    <3>1. mem'[x] = mem[x] /\ kv'[x] = kv[x]
      BY <2>2, <1>3, <1>4
    <3>2. ~Counts(m, x)
      BY <2>2, <1>2 DEF Counts
    <3> QED BY <3>1, <3>2, <1>1, <1>2, QueuedOther
  <2> QED BY <2>1, <2>2
<1> QED BY <1>7, <1>8 DEF IInv

\* remove keeps the invariant.
LEMMA RemoveKeeps ==
    ASSUME IInv, NEW k \in Key, Remove(k)
    PROVE  IInv'
<1> DEFINE m == RemoveOf(k)
<1>1. /\ m \in Message /\ log' = Append(log, m) /\ UNCHANGED writerVars
      /\ clearing' = clearing
  BY IsMessage DEF Remove, Enqueue, remove_impl
<1>2. m.key = k /\ m.val = None /\ m.keys = {} /\ m.op = "Remove"
  BY DEF RemoveOf
<1> HIDE DEF m
<1>3. /\ mem \in [Key -> StoreEntry] /\ kv \in [Key -> Content]
      /\ mem[k].in_flight \in Nat /\ mem[k].value \in Content \cup {Empty}
  BY DEF IInv, Typed, StoreEntry
<1> DEFINE row == Entry(IF mem[k].cached THEN mem[k].value ELSE Empty, TRUE,
                        mem[k].in_flight + 1)
<1>4. /\ mem' = [mem EXCEPT ![k] = row]
      /\ kv' = [kv EXCEPT ![k] = None]
  BY DEF Remove, remove_impl
<1>5. row \in StoreEntry /\ row.cached /\ row.tombstoned
      /\ row.in_flight = mem[k].in_flight + 1
  BY <1>3 DEF StoreEntry, Entry
<1> HIDE DEF row
<1>6. mem' \in [Key -> StoreEntry] /\ kv' \in [Key -> Content]
  BY <1>3, <1>4, <1>5 DEF Content
<1>7. Typed' /\ Lifecycle' /\ ClearPending'
  BY <1>1, <1>6, QueuedFrame
<1>8. ASSUME NEW x \in Key PROVE RowInv(x)'
  <2>1. CASE x = k
    <3>1. mem'[k] = row /\ kv'[k] = None
      BY <1>3, <1>4
    <3>2. RowOk(k)'
      BY <3>1, <1>5 DEF RowOk
    <3>3. Counts(m, k)
      BY <1>2 DEF Counts
    <3> QED BY <2>1, <3>1, <3>2, <3>3, <1>1, <1>2, <1>5, QueuedRow
  <2>2. CASE x # k
    <3>1. mem'[x] = mem[x] /\ kv'[x] = kv[x]
      BY <2>2, <1>3, <1>4
    <3>2. ~Counts(m, x)
      BY <2>2, <1>2 DEF Counts
    <3> QED BY <3>1, <3>2, <1>1, <1>2, QueuedOther
  <2> QED BY <2>1, <2>2
<1> QED BY <1>7, <1>8 DEF IInv

\* clear_table keeps the invariant.
LEMMA ClearKeeps ==
    ASSUME IInv, ClearTable
    PROVE  IInv'
<1> DEFINE m == ClearOf(Cached)
<1>1. /\ m \in Message /\ log' = Append(log, m) /\ UNCHANGED writerVars
      /\ clearing' = TRUE
  <2>1. Cached \in SUBSET Key
    BY DEF Cached
  <2> QED BY <2>1, IsMessage DEF ClearTable, Enqueue, clear_table_impl
<1>2. m.key = None /\ m.val = None /\ m.keys = Cached /\ m.op = "Clear"
  BY DEF ClearOf
<1> HIDE DEF m
<1>3. mem \in [Key -> StoreEntry] /\ kv \in [Key -> Content]
  BY DEF IInv, Typed
<1>4. /\ mem' = [k \in Key |-> IF mem[k].cached
                               THEN Entry(mem[k].value, TRUE, mem[k].in_flight + 1)
                               ELSE mem[k]]
      /\ kv' = [k \in Key |-> None]
  BY DEF ClearTable, clear_table_impl
<1>5. ASSUME NEW k \in Key
      PROVE  /\ mem'[k] \in StoreEntry
             /\ ~mem[k].cached => mem'[k] = mem[k]
             /\ mem[k].cached => /\ mem'[k].cached /\ mem'[k].tombstoned
                                 /\ mem'[k].in_flight = mem[k].in_flight + 1
  <2>1. /\ mem[k] \in StoreEntry /\ mem[k].value \in Content \cup {Empty}
        /\ mem[k].in_flight \in Nat
    BY <1>3 DEF StoreEntry
  <2>2. mem'[k] = IF mem[k].cached
                  THEN Entry(mem[k].value, TRUE, mem[k].in_flight + 1)
                  ELSE mem[k]
    BY <1>4
  <2>3. CASE mem[k].cached
    <3>1. mem'[k] = Entry(mem[k].value, TRUE, mem[k].in_flight + 1)
      BY <2>2, <2>3
    <3>2. mem[k].in_flight + 1 \in Nat
      BY <2>1
    <3> QED BY <2>1, <2>3, <3>1, <3>2 DEF Entry, StoreEntry
  <2> QED BY ZenonT(30), <2>1, <2>2, <2>3
<1>6. mem' \in [Key -> StoreEntry] /\ kv' \in [Key -> Content]
  BY ZenonT(30), <1>4, <1>5 DEF Content
<1>7. Typed' /\ Lifecycle' /\ ClearPending'
  BY ZenonT(30), <1>1, <1>2, <1>6, QueuedFrame
<1>8. ASSUME NEW x \in Key PROVE RowInv(x)'
  <2>0. kv'[x] = None
    BY <1>4
  <2>1. CASE mem[x].cached
    <3>1. RowOk(x)'
      BY <2>0, <2>1, <1>5 DEF RowOk
    <3>2. Counts(m, x)
      BY <2>1, <1>2 DEF Counts, Cached
    <3> QED BY <2>0, <2>1, <3>1, <3>2, <1>1, <1>2, <1>5, QueuedRow
  <2>2. CASE ~mem[x].cached
    <3>1. ~Counts(m, x)
      BY <2>2, <1>2, ValueAssumption DEF Counts, Cached
    <3> QED BY <2>0, <2>2, <3>1, <1>1, <1>2, <1>5, QueuedClear
  <2> QED BY <2>1, <2>2
<1> QED BY <1>7, <1>8 DEF IInv

\* Messages without a row keep the invariant.
LEMMA ControlKeeps ==
    ASSUME IInv, NEW op \in {"StartTxn", "CommitTxn", "CaughtUp"},
           log' = Append(log, Control(op)), UNCHANGED <<memVars, writerVars>>
    PROVE  IInv'
<1> DEFINE m == Control(op)
<1>1. /\ m \in Message /\ log' = Append(log, m) /\ UNCHANGED writerVars
  BY IsMessage
<1>2. m.key = None /\ m.keys = {} /\ m.op # "Clear"
  BY DEF Control
<1> HIDE DEF m
<1>3. mem' = mem /\ kv' = kv /\ clearing' = clearing
  BY DEF memVars
<1>4. mem' \in [Key -> StoreEntry] /\ kv' \in [Key -> Content]
  BY <1>3 DEF IInv, Typed
<1>7. Typed' /\ Lifecycle' /\ ClearPending'
  BY <1>1, <1>3, <1>4, QueuedFrame
<1>8. ASSUME NEW x \in Key PROVE RowInv(x)'
  <2>1. ~Counts(m, x)
    BY <1>2, ValueAssumption DEF Counts
  <2> QED BY <2>1, <1>1, <1>2, <1>3, QueuedOther
<1> QED BY <1>7, <1>8 DEF IInv

-----------------------------------------------------------------------------
\* The writer takes the next message.
LEMMA TakeFacts ==
    ASSUME Typed, Take, log' = log, base' = base
    PROVE  /\ head' = head + 1 /\ head + 1 \in (base + 1)..Len(log) /\ Len(log) \in Nat
           /\ Taken \in Message /\ log[head + 1] = Taken
           /\ \A k \in Key : InFlight(k)' = InFlight(k)
           /\ \A k \in Key : Counts(Taken, k) => head + 1 \in InFlight(k)
           /\ \A k \in Key : ~Counts(Taken, k) => head + 1 \notin InFlight(k)
           /\ Clears(base, Len(log))' = Clears(base, Len(log))
           /\ Clears(base, head)' = IF Taken.op = "Clear" THEN Clears(base, head) \cup {head + 1}
                                    ELSE Clears(base, head)
           /\ Taken.op = "Clear" => head + 1 \in Clears(base, Len(log))
<1>1. /\ head \in Nat /\ base \in Nat /\ base <= head /\ head < Len(log) /\ Len(log) \in Nat
      /\ head' = head + 1
  BY LenProperties DEF Typed, Take
<1>2. head + 1 \in 1..Len(log) /\ head + 1 \in (base + 1)..Len(log)
  BY <1>1
<1>3. Taken \in Message /\ log[head + 1] = Taken
  BY <1>2, ElementOfSeq DEF Typed, Taken
<1>4. \A k \in Key : InFlight(k)' = InFlight(k)
  BY DEF InFlight, Counts
<1>5. \A i : i \in (base + 1)..(head + 1) <=> i \in (base + 1)..head \/ i = head + 1
  BY <1>1
<1>6. Clears(base, head)' = {i \in (base + 1)..(head + 1) : log[i].op = "Clear"}
  BY <1>1 DEF Clears
<1>7. Clears(base, head)' = IF Taken.op = "Clear" THEN Clears(base, head) \cup {head + 1}
                            ELSE Clears(base, head)
  BY <1>3, <1>5, <1>6 DEF Clears
<1>8. Clears(base, Len(log))' = Clears(base, Len(log))
  BY DEF Clears
<1> QED BY <1>1, <1>2, <1>3, <1>4, <1>7, <1>8 DEF InFlight, Clears

\* What a write does to one key.
LEMMA AppliedFacts ==
    ASSUME NEW m \in Message, IsWrite(m), NEW d \in [Key -> Content]
    PROVE  /\ Applied(m, d) \in [Key -> Content]
           /\ \A k \in Key : /\ Counts(m, k) => Applied(m, d)[k] = m.val
                             /\ m.op = "Clear" => Applied(m, d)[k] = None
                             /\ ~Counts(m, k) /\ m.op # "Clear" => Applied(m, d)[k] = d[k]
<1>1. CASE m.op = "Clear"
  <2>1. Applied(m, d) = [k \in Key |-> None]
    BY <1>1 DEF Applied
  <2> QED BY <1>1, <2>1, MessageFacts DEF Content
<1>2. CASE m.op \in {"Insert", "Remove"}
  <2>1. Applied(m, d) = [d EXCEPT ![m.key] = m.val]
    BY <1>2 DEF Applied
  <2>2. m.key \in Key /\ m.val \in Content /\ m.keys = {}
    BY <1>2, MessageFacts
  <2> QED BY <1>2, <2>1, <2>2 DEF Counts
<1> QED BY <1>1, <1>2 DEF IsWrite

\* A tier that agrees with the rows whose messages were all taken still does
\* after the next write.
LEMMA LandCached ==
    ASSUME IInv, Take, log' = log, base' = base, IsWrite(Taken),
           NEW d \in [Key -> Content], NEW k \in Key, mem[k].cached,
           (\A i \in InFlight(k) : i <= head) => d[k] = kv[k],
           \A i \in InFlight(k) : i <= head + 1
    PROVE  Applied(Taken, d)[k] = kv[k]
<1>1. Typed /\ RowInv(k)
  BY DEF IInv
<1>2. /\ head + 1 \in (base + 1)..Len(log) /\ Taken \in Message /\ log[head + 1] = Taken
      /\ Counts(Taken, k) => head + 1 \in InFlight(k)
      /\ ~Counts(Taken, k) => head + 1 \notin InFlight(k)
      /\ Taken.op = "Clear" => head + 1 \in Clears(base, Len(log))
      /\ head \in Nat
  BY <1>1, TakeFacts DEF Typed
<1>3. /\ Counts(Taken, k) => Applied(Taken, d)[k] = Taken.val
      /\ ~Counts(Taken, k) /\ Taken.op # "Clear" => Applied(Taken, d)[k] = d[k]
  BY <1>2, AppliedFacts
<1>4. CASE Counts(Taken, k)
  <2>1. Taken.val = kv[k]
    BY <1>1, <1>2, <1>4 DEF RowInv, LastWins
  <2> QED BY <2>1, <1>3, <1>4
<1>5. CASE ~Counts(Taken, k)
  <2>1. \A i \in InFlight(k) : i \in Nat /\ i # head + 1
    BY <1>1, <1>2, <1>5 DEF InFlight, Typed
  <2>2. \A i \in InFlight(k) : i <= head
    BY <1>2, <2>1
  <2>3. Taken.op # "Clear"
    <3>1. SUFFICES ASSUME Taken.op = "Clear" PROVE FALSE
      OBVIOUS
    <3>2. \E j \in InFlight(k) : head + 1 <= j
      BY <3>1, <1>1, <1>2 DEF RowInv, ClearPins
    <3> QED BY <3>2, <2>1, <2>2, <1>2
  <2> QED BY <1>3, <1>5, <2>2, <2>3
<1> QED BY <1>4, <1>5

\* Nothing queued is about a key outside the cache.
LEMMA LandUncached ==
    ASSUME IInv, Take, log' = log, base' = base, IsWrite(Taken),
           NEW d \in [Key -> Content], NEW k \in Key, ~mem[k].cached
    PROVE  /\ Taken.op # "Clear" => Applied(Taken, d)[k] = d[k]
           /\ Taken.op = "Clear" => Applied(Taken, d)[k] = None /\ kv[k] = None
<1>1. Typed /\ RowInv(k)
  BY DEF IInv
<1>2. /\ Taken \in Message
      /\ Counts(Taken, k) => head + 1 \in InFlight(k)
      /\ Taken.op = "Clear" => head + 1 \in Clears(base, Len(log))
  BY <1>1, TakeFacts
<1>3. ~Counts(Taken, k)
  BY <1>1, <1>2 DEF RowInv, CountOk
<1>4. Taken.op = "Clear" => kv[k] = None
  BY <1>1, <1>2 DEF RowInv, ClearEmpties
<1> QED BY <1>2, <1>3, <1>4, AppliedFacts

\* What taking a message keeps, whatever is done with it.
LEMMA TakeFrame ==
    ASSUME IInv, Take, log' = log, base' = base, UNCHANGED memVars
    PROVE  /\ ClearPending'
           /\ \A k \in Key : /\ RowOk(k)' /\ CountOk(k)' /\ LastWins(k)'
                             /\ ClearPins(k)' /\ ClearEmpties(k)'
<1>1. Typed /\ UNCHANGED <<mem, clearing, kv>>
  BY DEF IInv, memVars
<1>2. /\ \A k \in Key : InFlight(k)' = InFlight(k)
      /\ Clears(base, Len(log))' = Clears(base, Len(log))
  BY <1>1, TakeFacts
<1>3. ClearPending'
  BY <1>1, <1>2 DEF IInv, ClearPending
<1>4. ASSUME NEW k \in Key
      PROVE  RowOk(k)' /\ CountOk(k)' /\ LastWins(k)' /\ ClearPins(k)' /\ ClearEmpties(k)'
  <2>1. RowInv(k)
    BY DEF IInv
  <2> QED BY <1>1, <1>2, <2>1 DEF RowInv, RowOk, CountOk, LastWins, ClearPins, ClearEmpties
<1> QED BY <1>3, <1>4

\* A poisoned database lands nothing.
LEMMA PoisonedKeeps ==
    ASSUME IInv, Take, log' = log, base' = base, UNCHANGED memVars,
           disk' = disk, view' = view, settling' = settling, fatal' = TRUE, open' \in BOOLEAN
    PROVE  IInv'
<1>1. /\ Typed /\ UNCHANGED <<mem, clearing, kv>> /\ ~settling
  BY DEF IInv, memVars, Take
<1>2. /\ head' = head + 1 /\ head + 1 \in (base + 1)..Len(log) /\ Len(log) \in Nat
      /\ \A k \in Key : InFlight(k)' = InFlight(k)
  BY <1>1, TakeFacts
<1>3. Typed' /\ Lifecycle'
  BY <1>1, <1>2 DEF Typed, Lifecycle
<1>4. Landed' = Landed
  BY <1>1 DEF Landed
<1>5. ASSUME NEW k \in Key PROVE DiskRight(k)' /\ ViewRight(k)'
  <2>1. DiskRight(k)
    BY DEF IInv, RowInv
  <2> QED BY <1>1, <1>2, <1>4, <2>1 DEF DiskRight, ViewRight
<1> QED BY <1>3, <1>5, TakeFrame DEF IInv, RowInv

\* The writer opens a transaction.
LEMMA StartTxnKeeps == ASSUME IInv, StartTxn PROVE IInv'
<1>1. /\ Take /\ log' = log /\ base' = base /\ UNCHANGED memVars
      /\ disk' = disk /\ view' = disk /\ settling' = settling /\ fatal' = fatal /\ open' = TRUE
      /\ ~fatal /\ ~open /\ Taken.op = "StartTxn"
  BY DEF StartTxn
<1>2. /\ Typed /\ Lifecycle /\ UNCHANGED <<mem, clearing, kv>> /\ ~settling
  BY <1>1 DEF IInv, memVars, Take
<1>3. /\ head' = head + 1 /\ head + 1 \in (base + 1)..Len(log) /\ Len(log) \in Nat
      /\ Taken \in Message
      /\ \A k \in Key : InFlight(k)' = InFlight(k)
      /\ \A k \in Key : ~Counts(Taken, k) => head + 1 \notin InFlight(k)
      /\ Clears(base, head)' = Clears(base, head)
  BY <1>1, <1>2, TakeFacts
<1>4. base = head /\ head \in Nat
  BY <1>1, <1>2 DEF Lifecycle, Typed
<1>5. Typed' /\ Lifecycle'
  BY <1>1, <1>2, <1>3 DEF Typed, Lifecycle
<1>6. Landed = head /\ Landed' = head
  BY <1>1, <1>2, <1>4 DEF Landed
<1>7. Clears(base, head) = {}
  BY <1>4 DEF Clears
<1>8. ASSUME NEW k \in Key PROVE DiskRight(k)' /\ ViewRight(k)'
  <2>1. DiskRight(k)
    BY DEF IInv, RowInv
  <2>2. head + 1 \notin InFlight(k)
    BY <1>1, <1>3, MessageFacts, ValueAssumption DEF Counts, IsWrite
  <2>3. \A i \in InFlight(k) : i \in Nat
    BY <1>2 DEF InFlight, Typed
  <2>4. (\A i \in InFlight(k) : i <= head + 1) => (\A i \in InFlight(k) : i <= head)
    BY <1>4, <2>2, <2>3
  <2>5. DiskRight(k)'
    BY <1>1, <1>2, <1>3, <1>6, <2>1 DEF DiskRight
  <2>6. ~mem[k].cached => view'[k] = disk'[k]
    BY <1>1
  <2>7. mem[k].cached => ((\A i \in InFlight(k) : i <= head + 1) => view'[k] = kv[k])
    BY <1>1, <1>6, <2>1, <2>4 DEF DiskRight
  <2>8. ViewRight(k)'
    BY <1>2, <1>3, <1>7, <2>6, <2>7 DEF ViewRight
  <2> QED BY <2>5, <2>8
<1> QED BY <1>1, <1>5, <1>8, TakeFrame DEF IInv, RowInv

\* The writer commits a transaction.
LEMMA CommitTxnKeeps == ASSUME IInv, CommitTxn PROVE IInv'
<1>1. /\ Take /\ log' = log /\ base' = base /\ UNCHANGED memVars
      /\ disk' = view /\ view' = view /\ settling' = TRUE /\ fatal' = fatal /\ open' = FALSE
      /\ ~fatal /\ open /\ Taken.op = "CommitTxn"
  BY DEF CommitTxn
<1>2. /\ Typed /\ Lifecycle /\ UNCHANGED <<mem, clearing, kv>> /\ ~settling
  BY <1>1 DEF IInv, memVars, Take
<1>3. /\ head' = head + 1 /\ head + 1 \in (base + 1)..Len(log) /\ Len(log) \in Nat
      /\ Taken \in Message
      /\ \A k \in Key : InFlight(k)' = InFlight(k)
      /\ \A k \in Key : ~Counts(Taken, k) => head + 1 \notin InFlight(k)
      /\ Clears(base, head)' = Clears(base, head)
  BY <1>1, <1>2, TakeFacts
<1>4. head \in Nat
  BY <1>2 DEF Typed
<1>5. Typed' /\ Lifecycle'
  <2>1. Lifecycle'
    BY <1>1 DEF Lifecycle
  <2>2. head' \in Nat /\ base' \in Nat /\ base' <= head' /\ head' <= Len(log')
    BY <1>1, <1>2, <1>3 DEF Typed
  <2> QED BY ZenonT(30), <1>1, <1>2, <2>1, <2>2 DEF Typed
<1>6. Landed' = head + 1
  BY <1>1, <1>3 DEF Landed
<1>7. Clears(base, head) \subseteq Clears(base, Len(log))
  BY <1>2, <1>3 DEF Clears, Typed
<1>8. ASSUME NEW k \in Key PROVE DiskRight(k)' /\ ViewRight(k)'
  <2>1. DiskRight(k) /\ ViewRight(k) /\ ClearEmpties(k)
    BY DEF IInv, RowInv
  <2>2. head + 1 \notin InFlight(k)
    BY <1>1, <1>3, MessageFacts, ValueAssumption DEF Counts, IsWrite
  <2>3. \A i \in InFlight(k) : i \in Nat
    BY <1>2 DEF InFlight, Typed
  <2>4. (\A i \in InFlight(k) : i <= head + 1) => (\A i \in InFlight(k) : i <= head)
    BY <1>4, <2>2, <2>3
  <2>5. mem[k].cached => ((\A i \in InFlight(k) : i <= head + 1) => disk'[k] = kv[k])
    BY <1>1, <2>1, <2>4 DEF ViewRight
  <2>6. ~mem[k].cached => /\ ~clearing => disk'[k] = kv[k]
                          /\ Clears(base, head) # {} => disk'[k] = None
    BY <1>1, <1>7, <2>1 DEF ViewRight, DiskRight, ClearEmpties
  <2>7. DiskRight(k)'
    BY <1>1, <1>2, <1>3, <1>6, <2>5, <2>6 DEF DiskRight
  <2>8. ViewRight(k)'
    BY <1>1 DEF ViewRight
  <2> QED BY <2>7, <2>8
<1> QED BY <1>1, <1>5, <1>8, TakeFrame DEF IInv, RowInv

\* The writer applies a message inside a transaction.
LEMMA ApplyInTxnKeeps == ASSUME IInv, ApplyInTxn PROVE IInv'
<1>1. /\ Take /\ log' = log /\ base' = base /\ UNCHANGED memVars
      /\ disk' = disk /\ view' = Applied(Taken, view) /\ settling' = settling
      /\ fatal' = fatal /\ open' = open /\ ~fatal /\ open /\ IsWrite(Taken)
  BY DEF ApplyInTxn
<1>2. /\ Typed /\ Lifecycle /\ UNCHANGED <<mem, clearing, kv>> /\ ~settling
      /\ view \in [Key -> Content]
  BY <1>1 DEF IInv, memVars, Take, Typed
<1>3. /\ head' = head + 1 /\ head + 1 \in (base + 1)..Len(log) /\ Len(log) \in Nat
      /\ Taken \in Message
      /\ \A k \in Key : InFlight(k)' = InFlight(k)
      /\ Clears(base, head)' = IF Taken.op = "Clear" THEN Clears(base, head) \cup {head + 1}
                               ELSE Clears(base, head)
  BY <1>1, <1>2, TakeFacts
<1>4. view' \in [Key -> Content]
  BY <1>1, <1>2, <1>3, AppliedFacts
<1>5. Typed' /\ Lifecycle'
  BY <1>1, <1>2, <1>3, <1>4 DEF Typed, Lifecycle
<1>6. Landed' = Landed
  BY <1>1, <1>2 DEF Landed
<1>7. ASSUME NEW k \in Key PROVE DiskRight(k)' /\ ViewRight(k)'
  <2>1. DiskRight(k) /\ ViewRight(k)
    BY DEF IInv, RowInv
  <2>2. DiskRight(k)'
    BY <1>1, <1>2, <1>3, <1>6, <2>1 DEF DiskRight
  <2>3. CASE mem[k].cached
    <3>1. (\A i \in InFlight(k) : i <= head) => view[k] = kv[k]
      BY <1>1, <2>1, <2>3 DEF ViewRight
    <3>2. (\A i \in InFlight(k) : i <= head + 1) => view'[k] = kv[k]
      BY <1>1, <1>2, <2>3, <3>1, LandCached
    <3>3. ViewRight(k)'
      BY <1>2, <1>3, <2>3, <3>2 DEF ViewRight
    <3> QED BY <2>2, <3>3
  <2>4. CASE ~mem[k].cached
    <3>1. view[k] = IF Clears(base, head) # {} THEN None ELSE disk[k]
      BY <1>1, <2>1, <2>4 DEF ViewRight
    <3>2. /\ Taken.op # "Clear" => view'[k] = view[k]
          /\ Taken.op = "Clear" => view'[k] = None
      BY <1>1, <1>2, <2>4, LandUncached
    <3>3. view'[k] = IF Clears(base, head)' # {} THEN None ELSE disk[k]
      BY <1>3, <3>1, <3>2
    <3>4. ViewRight(k)'
      BY <1>1, <1>2, <2>4, <3>3 DEF ViewRight
    <3> QED BY <2>2, <3>4
  <2> QED BY <2>3, <2>4
<1> QED BY <1>1, <1>5, <1>7, TakeFrame DEF IInv, RowInv

\* The writer applies a message outside of one.
LEMMA ApplyKeeps == ASSUME IInv, Apply PROVE IInv'
<1>1. /\ Take /\ log' = log /\ base' = base /\ UNCHANGED memVars
      /\ disk' = IF RemoveSkipped(Taken) THEN disk ELSE Applied(Taken, disk)
      /\ view' = view /\ settling' = TRUE
      /\ fatal' = fatal /\ open' = open /\ ~fatal /\ ~open /\ IsWrite(Taken)
  BY DEF Apply
<1>2. /\ Typed /\ Lifecycle /\ UNCHANGED <<mem, clearing, kv>> /\ ~settling
      /\ disk \in [Key -> Content]
  BY <1>1 DEF IInv, memVars, Take, Typed
<1>3. /\ head' = head + 1 /\ head + 1 \in (base + 1)..Len(log) /\ Len(log) \in Nat
      /\ Taken \in Message /\ log[head + 1] = Taken
      /\ \A k \in Key : InFlight(k)' = InFlight(k)
      /\ \A k \in Key : Counts(Taken, k) => head + 1 \in InFlight(k)
      /\ Clears(base, head)' = IF Taken.op = "Clear" THEN Clears(base, head) \cup {head + 1}
                               ELSE Clears(base, head)
  BY <1>1, <1>2, TakeFacts
<1>4. disk' \in [Key -> Content]
  BY <1>1, <1>2, <1>3, AppliedFacts
<1>5. Typed' /\ Lifecycle'
  <2>1. Lifecycle'
    BY <1>1 DEF Lifecycle
  <2>2. head' \in Nat /\ base' \in Nat /\ base' <= head' /\ head' <= Len(log')
    BY SMTT(30), <1>1, <1>2, <1>3 DEF Typed
  <2> QED BY <1>1, <1>2, <1>4, <2>1, <2>2 DEF Typed
<1>6. Landed' = head + 1 /\ Landed = head /\ base = head /\ head \in Nat
  BY <1>1, <1>2, <1>3 DEF Landed, Lifecycle, Typed
<1>7. Clears(base, head) = {}
  BY <1>6 DEF Clears
<1>8. ASSUME NEW k \in Key PROVE DiskRight(k)' /\ ViewRight(k)'
  <2>1. DiskRight(k) /\ RowOk(k) /\ LastWins(k)
    BY DEF IInv, RowInv
  <2>2. ViewRight(k)'
    BY <1>1 DEF ViewRight
  <2>3. CASE mem[k].cached
    <3>1. (\A i \in InFlight(k) : i <= head) => disk[k] = kv[k]
      BY <1>6, <2>1, <2>3 DEF DiskRight
    <3>2. SUFFICES ASSUME \A i \in InFlight(k) : i <= head + 1
                   PROVE  disk'[k] = kv[k]
      BY <1>2, <1>3, <1>6, <2>2, <2>3 DEF DiskRight
    <3>3. Applied(Taken, disk)[k] = kv[k]
      BY <1>1, <1>2, <2>3, <3>1, <3>2, LandCached
    <3>4. CASE RemoveSkipped(Taken)
      <4>1. Taken.op = "Remove" /\ Live(Taken.key) /\ Taken.val = None /\ Taken.keys = {}
        BY <3>4, <1>3, MessageFacts DEF RemoveSkipped
      <4>2. Taken.key # k
        <5>1. SUFFICES ASSUME Taken.key = k PROVE FALSE
          OBVIOUS
        <5>2. head + 1 \in InFlight(k)
          BY <5>1, <1>3 DEF Counts
        <5>3. kv[k] = None
          BY <5>2, <3>2, <2>1, <1>3, <4>1 DEF LastWins
        <5>4. kv[k] \in Value
          BY <5>1, <4>1, <2>1 DEF RowOk, Live
        <5> QED BY <5>3, <5>4, ValueAssumption
      <4>3. Applied(Taken, disk)[k] = disk[k]
        BY <4>1, <4>2, <1>1, <1>2, <1>3, AppliedFacts DEF Counts
      <4> QED BY <1>1, <3>3, <3>4, <4>3
    <3>5. CASE ~RemoveSkipped(Taken)
      BY <1>1, <3>3, <3>5
    <3> QED BY <3>4, <3>5
  <2>4. CASE ~mem[k].cached
    <3>1. /\ Taken.op # "Clear" => Applied(Taken, disk)[k] = disk[k]
          /\ Taken.op = "Clear" => Applied(Taken, disk)[k] = None /\ kv[k] = None
      BY <1>1, <1>2, <2>4, LandUncached
    <3>2. /\ Taken.op # "Clear" => disk'[k] = disk[k]
          /\ Taken.op = "Clear" => disk'[k] = None /\ kv[k] = None
      BY <1>1, <3>1 DEF RemoveSkipped
    <3>3. ~clearing => disk[k] = kv[k]
      BY <2>1, <2>4 DEF DiskRight
    <3>4. DiskRight(k)'
      BY <1>1, <1>2, <1>3, <1>7, <2>4, <3>2, <3>3 DEF DiskRight
    <3> QED BY <2>2, <3>4
  <2> QED BY <2>3, <2>4
<1> QED BY <1>1, <1>5, <1>8, TakeFrame DEF IInv, RowInv

\* A released message is no longer in flight.
LEMMA ReleaseFacts ==
    ASSUME Typed, base < head, base' = base + 1, log' = log, head' = head
    PROVE  /\ base + 1 \in (base + 1)..Len(log) /\ log[base + 1] \in Message
           /\ \A k \in Key : InFlight(k)' = InFlight(k) \ {base + 1}
           /\ \A k \in Key : Counts(log[base + 1], k) <=> base + 1 \in InFlight(k)
           /\ Clears(base, Len(log))' = Clears(base, Len(log)) \ {base + 1}
           /\ Clears(base, head)' = Clears(base, head) \ {base + 1}
           /\ log[base + 1].op = "Clear" => base + 1 \in Clears(base, head)
           /\ log[base + 1].op # "Clear" => base + 1 \notin Clears(base, Len(log))
<1>1. /\ base \in Nat /\ head \in Nat /\ Len(log) \in Nat /\ base < head /\ head <= Len(log)
  BY LenProperties DEF Typed
<1>2. base + 1 \in 1..Len(log) /\ base + 1 \in (base + 1)..Len(log) /\ base + 1 \in (base + 1)..head
  BY <1>1
<1>3. log[base + 1] \in Message
  BY <1>2, ElementOfSeq DEF Typed
<1>4. \A i, n : n \in Nat => (i \in (base + 2)..n <=> i \in (base + 1)..n /\ i # base + 1)
  BY <1>1
<1>5. base' + 1 = base + 2
  BY <1>1
<1>6. \A k \in Key : InFlight(k)' = {i \in (base + 2)..Len(log) : Counts(log[i], k)}
  BY <1>5 DEF InFlight, Counts
<1>7. /\ Clears(base, Len(log))' = {i \in (base + 2)..Len(log) : log[i].op = "Clear"}
      /\ Clears(base, head)' = {i \in (base + 2)..head : log[i].op = "Clear"}
  BY <1>5 DEF Clears
<1>8. \A k \in Key : InFlight(k)' = InFlight(k) \ {base + 1}
  BY <1>1, <1>4, <1>6 DEF InFlight
<1>9. /\ Clears(base, Len(log))' = Clears(base, Len(log)) \ {base + 1}
      /\ Clears(base, head)' = Clears(base, head) \ {base + 1}
  BY <1>1, <1>4, <1>7 DEF Clears
<1> QED BY <1>2, <1>3, <1>8, <1>9 DEF InFlight, Clears

\* A landed message is released.
LEMMA ReleaseKeeps == ASSUME IInv, Release PROVE IInv'
<1> DEFINE m == log[base + 1]
<1>1. /\ settling /\ base < head /\ base' = base + 1 /\ log' = log /\ head' = head
      /\ UNCHANGED <<settling, open, view, disk, fatal, kv>>
      /\ clearing' = (clearing /\ m.op # "Clear")
  BY DEF Release
<1>2. mem' = [k \in Key |-> IF mem[k].cached /\ Counts(m, k)
                            THEN Entry(mem[k].value, mem[k].tombstoned, mem[k].in_flight - 1)
                            ELSE mem[k]]
  BY DEF Release
<1>3. /\ Typed /\ Lifecycle /\ ClearPending
      /\ mem \in [Key -> StoreEntry] /\ base \in Nat /\ head \in Nat /\ head <= Len(log)
      /\ Len(log) \in Nat /\ clearing \in BOOLEAN
  BY LenProperties DEF IInv, Typed
<1>4. /\ m \in Message
      /\ \A k \in Key : InFlight(k)' = InFlight(k) \ {base + 1}
      /\ \A k \in Key : Counts(m, k) <=> base + 1 \in InFlight(k)
      /\ Clears(base, Len(log))' = Clears(base, Len(log)) \ {base + 1}
      /\ Clears(base, head)' = Clears(base, head) \ {base + 1}
      /\ m.op = "Clear" => base + 1 \in Clears(base, head)
      /\ m.op # "Clear" => base + 1 \notin Clears(base, Len(log))
  BY <1>1, <1>3, ReleaseFacts
<1> HIDE DEF m
<1>5. Clears(base, head) \subseteq Clears(base, Len(log))
  BY <1>3 DEF Clears
<1>6. ASSUME NEW k \in Key
      PROVE  /\ mem'[k] \in StoreEntry
             /\ mem'[k].cached = mem[k].cached
             /\ mem[k].cached => /\ mem'[k].tombstoned = mem[k].tombstoned
                                 /\ mem'[k].value = mem[k].value
             /\ ~mem[k].cached => mem'[k] = mem[k]
             /\ CountOk(k)'
  <2>1. /\ mem[k] \in StoreEntry /\ mem[k].value \in Content \cup {Empty}
        /\ mem[k].in_flight \in Nat /\ mem[k].tombstoned \in BOOLEAN /\ mem[k].cached \in BOOLEAN
    BY <1>3 DEF StoreEntry
  <2>2. CountOk(k) /\ IsFiniteSet(InFlight(k)) /\ Cardinality(InFlight(k)) \in Nat
    BY <1>3, InFlightFinite DEF IInv, RowInv
  <2>3. CASE mem[k].cached /\ Counts(m, k)
    <3>1. mem'[k] = Entry(mem[k].value, mem[k].tombstoned, mem[k].in_flight - 1)
      BY <1>2, <2>3
    <3>2. base + 1 \in InFlight(k)
      BY <1>4, <2>3
    <3>3. Cardinality(InFlight(k) \ {base + 1}) = Cardinality(InFlight(k)) - 1
      BY ZenonT(30), <2>2, <3>2, FS_RemoveElement
    <3>4. Cardinality(InFlight(k)) > 0
      <4>1. Cardinality(InFlight(k)) # 0
        BY <2>2, <3>2, FS_EmptySet
      <4> QED BY <2>2, <4>1
    <3>5. mem[k].in_flight = Cardinality(InFlight(k))
      BY <2>2, <2>3 DEF CountOk
    <3>6. mem[k].in_flight - 1 \in Nat
      BY <2>1, <3>4, <3>5
    <3>7. /\ mem'[k] \in StoreEntry /\ mem'[k].cached = TRUE
          /\ mem'[k].tombstoned = mem[k].tombstoned /\ mem'[k].value = mem[k].value
          /\ mem'[k].in_flight = mem[k].in_flight - 1
      BY <2>1, <3>1, <3>6 DEF Entry, StoreEntry
    <3>8. mem'[k].in_flight = Cardinality(InFlight(k)')
      BY ZenonT(30), <1>4, <3>3, <3>5, <3>7
    <3>9. CountOk(k)'
      BY <3>7, <3>8 DEF CountOk
    <3>10. mem[k].cached = TRUE
      BY <2>1, <2>3
    <3> QED BY ZenonT(30), <3>7, <3>9, <3>10
  <2>4. CASE ~(mem[k].cached /\ Counts(m, k))
    <3>1. mem'[k] = mem[k]
      BY <1>2, <2>4
    <3>2. InFlight(k)' = InFlight(k)
      <4>1. base + 1 \notin InFlight(k)
        <5>1. CASE ~mem[k].cached
          BY <5>1, <2>2 DEF CountOk
        <5>2. CASE ~Counts(m, k)
          BY <5>2, <1>4
        <5> QED BY <5>1, <5>2, <2>4
      <4> QED BY ZenonT(30), <4>1, <1>4
    <3>3. CountOk(k)'
      BY <2>2, <3>1, <3>2 DEF CountOk
    <3> QED BY <2>1, <3>1, <3>3
  <2> QED BY <2>3, <2>4
<1>7. Typed' /\ Lifecycle' /\ ClearPending'
  <2>1. mem' \in [Key -> StoreEntry]
    <3>1. mem' = [k \in Key |-> mem'[k]]
      BY <1>2
    <3> QED BY <1>6, <3>1
  <2>2. clearing' \in BOOLEAN
    BY <1>1
  <2>3. Typed'
    BY <1>1, <1>3, <2>1, <2>2 DEF Typed
  <2>4. Lifecycle'
    BY <1>1, <1>3 DEF Lifecycle
  <2>5. ClearPending'
    BY ZenonT(30), <1>1, <1>3, <1>4 DEF ClearPending
  <2> QED BY <2>3, <2>4, <2>5
<1>8. ASSUME NEW k \in Key PROVE RowInv(k)'
  <2>1. RowInv(k) /\ mem[k].cached \in BOOLEAN
    BY <1>3 DEF IInv, StoreEntry
  <2>2. InFlight(k)' = InFlight(k) \ {base + 1} /\ CountOk(k)'
    BY <1>4, <1>6
  <2>3. \A i \in InFlight(k) : i \in Nat /\ base + 1 <= i
    BY <1>3 DEF InFlight
  <2>4. RowOk(k)'
    BY <1>1, <1>6, <2>1 DEF RowInv, RowOk
  <2>5. LastWins(k)'
    <3> SUFFICES ASSUME NEW i \in InFlight(k)', \A j \in InFlight(k)' : j <= i
                 PROVE  log[i].val = kv[k]
      BY <1>1 DEF LastWins
    <3>1. i \in InFlight(k) /\ i \in Nat /\ base + 1 <= i
      BY <2>2, <2>3
    <3>2. \A j \in InFlight(k) : j <= i
      BY <2>2, <3>1
    <3> QED BY <2>1, <3>1, <3>2 DEF RowInv, LastWins
  <2>6. ClearPins(k)'
    <3> SUFFICES ASSUME mem[k].cached, NEW i \in Clears(base, Len(log))'
                 PROVE  \E j \in InFlight(k)' : i <= j
      BY <1>6 DEF ClearPins
    <3>1. i \in Clears(base, Len(log)) /\ i # base + 1
      BY <1>4
    <3>2. PICK j \in InFlight(k) : i <= j
      BY <2>1, <3>1 DEF RowInv, ClearPins
    <3>3. j # base + 1
      BY <1>3, <2>3, <3>1, <3>2 DEF Clears
    <3> QED BY <2>2, <3>2, <3>3
  <2>7. ClearEmpties(k)'
    BY <1>1, <1>4, <1>6, <2>1 DEF RowInv, ClearEmpties
  <2>8. Landed' = head /\ Landed = head
    BY <1>1 DEF Landed
  <2>9. DiskRight(k)'
    <3>1. CASE mem[k].cached
      <4>1. (\A i \in InFlight(k)' : i <= head) => (\A i \in InFlight(k) : i <= head)
        BY <1>1, <1>3, <2>2
      <4> QED BY <1>1, <1>6, <2>1, <2>8, <3>1, <4>1 DEF RowInv, DiskRight
    <3>2. CASE ~mem[k].cached
      <4>1. /\ ~clearing => disk[k] = kv[k]
            /\ Clears(base, head) # {} => disk[k] = None
            /\ Clears(base, Len(log)) # {} => kv[k] = None
        BY <1>1, <2>1, <3>2 DEF RowInv, DiskRight, ClearEmpties
      <4>2. ~clearing' => disk[k] = kv[k]
        BY ZenonT(30), <1>1, <1>4, <1>5, <4>1
      <4>3. Clears(base, head)' # {} => disk[k] = None
        BY <1>4, <4>1
      <4> QED BY <1>1, <1>6, <3>2, <4>2, <4>3 DEF DiskRight
    <3> QED BY <3>1, <3>2
  <2>10. ViewRight(k)'
    BY <1>1, <1>3 DEF ViewRight, Lifecycle
  <2> QED BY <2>2, <2>4, <2>5, <2>6, <2>7, <2>9, <2>10 DEF RowInv
<1> QED BY <1>7, <1>8 DEF IInv

\* Rows leave the cache when the persistent tier agrees with them.
LEMMA EvictKeeps ==
    ASSUME IInv, NEW E \in SUBSET Key, Evictable(E),
           mem' = [k \in Key |-> IF k \in E THEN NoEntry ELSE mem[k]],
           UNCHANGED <<clearing, kv, log, disk, view, open, fatal>>, ~open,
           settling' = FALSE, head' \in Nat, base' = head', head' <= Len(log),
           \A k \in Key : InFlight(k)' = InFlight(k),
           Clears(base, Len(log))' = Clears(base, Len(log)),
           \A k \in Key : (\A i \in InFlight(k) : i <= head') => (\A i \in InFlight(k) : i <= Landed)
    PROVE  IInv'
<1>1. Typed /\ ClearPending
  BY DEF IInv
<1>2. NoEntry \in StoreEntry
  BY DEF NoEntry, StoreEntry, Content
<1>3. mem' \in [Key -> StoreEntry]
  BY <1>1, <1>2 DEF Typed
<1>4. Typed' /\ Lifecycle' /\ ClearPending'
  <2>1. /\ clearing' = clearing /\ kv' = kv /\ log' = log /\ disk' = disk /\ view' = view
        /\ open' = open /\ fatal' = fatal
    OBVIOUS
  <2>2. base' \in Nat /\ base' <= head'
    OBVIOUS
  <2>3. Typed'
    BY ZenonT(30), <1>1, <1>3, <2>1, <2>2 DEF Typed
  <2>4. Lifecycle' /\ ClearPending'
    BY <1>1, <2>1 DEF Lifecycle, ClearPending
  <2> QED BY <2>3, <2>4
<1>5. Landed' = head'
  BY DEF Landed
<1>6. ASSUME NEW k \in Key PROVE RowInv(k)'
  <2>1. RowInv(k)
    BY DEF IInv
  <2>2. ViewRight(k)'
    BY DEF ViewRight
  <2>3. CASE k \in E
    <3>1. mem[k].cached /\ mem[k].in_flight = 0
      BY <2>3 DEF Evictable
    <3>2. InFlight(k) = {}
      BY <1>1, <2>1, <3>1, InFlightFinite, FS_EmptySet DEF RowInv, CountOk
    <3>3. disk[k] = kv[k] /\ Clears(base, Len(log)) = {}
      BY <2>1, <3>1, <3>2 DEF RowInv, DiskRight, ClearPins
    <3>4. mem'[k] = NoEntry /\ ~mem'[k].cached
      BY <2>3 DEF NoEntry
    <3>5. RowOk(k)' /\ CountOk(k)' /\ LastWins(k)' /\ ClearPins(k)' /\ ClearEmpties(k)'
      BY <3>2, <3>3, <3>4 DEF RowOk, CountOk, LastWins, ClearPins, ClearEmpties
    <3>6. DiskRight(k)'
      BY <3>3, <3>4 DEF DiskRight
    <3> QED BY <2>2, <3>5, <3>6 DEF RowInv
  <2>4. CASE k \notin E
    <3>1. mem'[k] = mem[k]
      BY <2>4
    <3>2. RowOk(k)' /\ CountOk(k)' /\ LastWins(k)' /\ ClearPins(k)' /\ ClearEmpties(k)'
      BY <2>1, <3>1 DEF RowInv, RowOk, CountOk, LastWins, ClearPins, ClearEmpties
    <3>3. DiskRight(k)'
      BY <1>5, <2>1, <3>1 DEF RowInv, DiskRight
    <3> QED BY <2>2, <3>2, <3>3 DEF RowInv
  <2> QED BY <2>3, <2>4
<1> QED BY <1>4, <1>6 DEF IInv

\* The landed messages are all released, and rows are evicted.
LEMMA SettledKeeps == ASSUME IInv, Settled PROVE IInv'
<1>1. /\ settling /\ base = head /\ settling' = FALSE
      /\ UNCHANGED <<log, head, base, open, view, disk, fatal>>
  BY DEF Settled
<1>2. PICK E \in SUBSET Key : Evict(E)
  BY DEF Settled
<1>3. /\ Evictable(E) /\ mem' = [k \in Key |-> IF k \in E THEN NoEntry ELSE mem[k]]
      /\ UNCHANGED <<clearing, kv>>
  BY <1>2 DEF Evict
<1>4. Typed /\ Lifecycle
  BY DEF IInv
<1>5. ~open /\ head' \in Nat /\ base' = head' /\ head' <= Len(log)
  BY <1>1, <1>4 DEF Lifecycle, Typed
<1>6. /\ \A k \in Key : InFlight(k)' = InFlight(k)
      /\ Clears(base, Len(log))' = Clears(base, Len(log))
  BY <1>1 DEF InFlight, Clears, Counts
<1>7. head' = Landed
  BY <1>1 DEF Landed
<1> QED BY ZenonT(30), <1>1, <1>3, <1>5, <1>6, <1>7, EvictKeeps

\* The writer reaches a barrier.
LEMMA CaughtUpKeeps == ASSUME IInv, CaughtUp PROVE IInv'
<1>1. /\ Take /\ ~fatal /\ Taken.op = "CaughtUp" /\ ~settling /\ head' = head + 1
      /\ UNCHANGED <<log, settling, open, view, disk, fatal>>
  BY DEF CaughtUp, Take
<1>2. Typed /\ Lifecycle /\ head \in Nat /\ base \in Nat /\ Len(log) \in Nat /\ head < Len(log)
  BY <1>1, LenProperties DEF IInv, Typed, Take
<1>3. head + 1 \in 1..Len(log)
  BY <1>2
<1>4. Taken \in Message /\ log[head + 1] = Taken
  BY <1>2, <1>3, ElementOfSeq DEF Typed, Taken
<1>5. /\ \A k \in Key : ~Counts(Taken, k)
      /\ Taken.op # "Clear"
  BY <1>1, <1>4, MessageFacts, ValueAssumption DEF Counts, IsWrite
<1>6. ASSUME NEW k \in Key
      PROVE  /\ head + 1 \notin InFlight(k)
             /\ \A i \in InFlight(k) : i \in Nat /\ i >= base + 1
             /\ (\A i \in InFlight(k) : i <= head + 1) => (\A i \in InFlight(k) : i <= head)
  <2>1. head + 1 \notin InFlight(k)
    BY <1>4, <1>5 DEF InFlight
  <2>2. \A i \in InFlight(k) : i \in Nat /\ i >= base + 1
    BY <1>2 DEF InFlight
  <2> QED BY <1>2, <2>1, <2>2
<1>7. CASE open
  <2>1. base' = base /\ UNCHANGED memVars
    BY <1>7 DEF CaughtUp
  <2>2. UNCHANGED <<mem, clearing, kv>>
    BY <2>1 DEF memVars
  <2>3. /\ \A k \in Key : InFlight(k)' = InFlight(k)
        /\ Clears(base, head)' = Clears(base, head)
    BY <1>1, <1>2, <1>5, <2>1, TakeFacts
  <2>4. head' \in Nat /\ base' <= head' /\ head' <= Len(log)
    BY <1>1, <1>2, <2>1 DEF Typed
  <2>5. Typed' /\ Lifecycle'
    BY <1>1, <1>2, <1>7, <2>1, <2>2, <2>4 DEF Typed, Lifecycle
  <2>6. Landed' = Landed
    BY <1>1, <2>1 DEF Landed
  <2>7. ASSUME NEW k \in Key PROVE DiskRight(k)' /\ ViewRight(k)'
    <3>1. DiskRight(k) /\ ViewRight(k)
      BY DEF IInv, RowInv
    <3>2. DiskRight(k)'
      BY <1>1, <2>2, <2>3, <2>6, <3>1 DEF DiskRight
    <3>3. ViewRight(k)'
      BY <1>1, <1>6, <2>2, <2>3, <3>1 DEF ViewRight
    <3> QED BY <3>2, <3>3
  <2> QED BY <1>1, <2>1, <2>5, <2>7, TakeFrame DEF IInv, RowInv
<1>8. CASE ~open
  <2>1. base' = base + 1 /\ base = head
    BY <1>1, <1>2, <1>8 DEF CaughtUp, Lifecycle
  <2>2. PICK E \in SUBSET Key : Evict(E)
    BY <1>8 DEF CaughtUp
  <2>3. /\ Evictable(E) /\ mem' = [k \in Key |-> IF k \in E THEN NoEntry ELSE mem[k]]
        /\ UNCHANGED <<clearing, kv>>
    BY <2>2 DEF Evict
  <2>4. head' \in Nat /\ base' = head' /\ head' <= Len(log) /\ Landed = head
    BY <1>1, <1>2, <2>1 DEF Landed
  <2>5. \A i, n : n \in Nat => (i \in (base + 2)..n <=> i \in (base + 1)..n /\ i # base + 1)
    BY <1>2
  <2>6. base' + 1 = base + 2 /\ head + 1 = base + 1
    BY <1>2, <2>1
  <2>7. /\ \A k \in Key : InFlight(k)' = {i \in (base + 2)..Len(log) : Counts(log[i], k)}
        /\ Clears(base, Len(log))' = {i \in (base + 2)..Len(log) : log[i].op = "Clear"}
    BY <1>1, <2>6 DEF InFlight, Clears, Counts
  <2>8. /\ \A k \in Key : InFlight(k)' = InFlight(k)
        /\ Clears(base, Len(log))' = Clears(base, Len(log))
    BY <1>2, <1>4, <1>5, <2>5, <2>6, <2>7 DEF InFlight, Clears
  <2>9. \A k \in Key : (\A i \in InFlight(k) : i <= head') => (\A i \in InFlight(k) : i <= Landed)
    BY <1>1, <1>6, <2>4
  <2>10. settling' = FALSE
    BY <1>1, <1>2 DEF Typed
  <2> QED BY ZenonT(30), <1>1, <1>8, <2>3, <2>4, <2>8, <2>9, <2>10, EvictKeeps
<1> QED BY <1>7, <1>8

Opened ==
    /\ disk \in [Key -> Content] /\ mem = [k \in Key |-> NoEntry] /\ clearing = FALSE
    /\ log = <<>> /\ head = 0 /\ base = 0 /\ settling = FALSE /\ open = FALSE /\ fatal = FALSE
    /\ view = disk /\ kv = disk

\* Opening the database, at first or after a crash, establishes the invariant.
LEMMA OpenedKeeps == Opened => IInv
<1> SUFFICES ASSUME Opened PROVE IInv
  OBVIOUS
<1>0. /\ disk \in [Key -> Content] /\ mem = [k \in Key |-> NoEntry] /\ clearing = FALSE
      /\ log = <<>> /\ head = 0 /\ base = 0 /\ settling = FALSE /\ open = FALSE /\ fatal = FALSE
      /\ view = disk /\ kv = disk
  BY DEF Opened
<1>1. Len(log) = 0 /\ log \in Seq(Message)
  BY <1>0, EmptySeq
<1>2. NoEntry \in StoreEntry /\ ~NoEntry.cached
  BY DEF NoEntry, StoreEntry, Content
<1>3. Typed /\ Lifecycle /\ ClearPending
  <2>1. mem \in [Key -> StoreEntry]
    BY <1>0, <1>2
  <2>2. /\ head \in Nat /\ base \in Nat /\ base <= head /\ head <= Len(log)
    BY <1>0, <1>1
  <2>3. /\ settling \in BOOLEAN /\ open \in BOOLEAN /\ fatal \in BOOLEAN /\ clearing \in BOOLEAN
    BY <1>0, ZenonT(30)
  <2>4. Typed
    BY <1>0, <1>1, <2>1, <2>2, <2>3 DEF Typed
  <2> QED BY <1>0, <2>4 DEF Lifecycle, ClearPending
<1>4. ASSUME NEW k \in Key PROVE RowInv(k)
  <2>1. mem[k] = NoEntry /\ InFlight(k) = {} /\ Clears(base, head) = {}
    BY <1>0, <1>1 DEF InFlight, Clears
  <2> QED BY <1>0, <1>2, <2>1 DEF RowInv, RowOk, CountOk, LastWins, ClearPins, ClearEmpties, DiskRight, ViewRight
<1> QED BY <1>3, <1>4 DEF IInv

\* A database that was just opened has the invariant.
LEMMA ReopenedKeeps == Opened' => IInv'
BY OpenedKeeps, PTL

\* Every step keeps the invariant.
LEMMA NextKeeps == IInv /\ [Next]_vars => IInv'
<1> SUFFICES ASSUME IInv, [Next]_vars PROVE IInv'
  OBVIOUS
<1>1. ASSUME NEW k \in Key, NEW v \in Value, Insert(k, v) PROVE IInv'
  BY <1>1, InsertKeeps
<1>2. ASSUME NEW k \in Key, Remove(k) PROVE IInv'
  BY <1>2, RemoveKeeps
<1>3. CASE ClearTable
  BY <1>3, ClearKeeps
<1>4. CASE WriteTxn \/ CommitTxnMut \/ Persist
  <2>1. PICK op \in {"StartTxn", "CommitTxn", "CaughtUp"} :
            log' = Append(log, Control(op)) /\ UNCHANGED <<memVars, writerVars>>
    BY <1>4 DEF WriteTxn, CommitTxnMut, Persist, Enqueue
  <2> QED BY <2>1, ControlKeeps
<1>5. CASE DropTxnMut \/ Reader \/ UNCHANGED vars
  <2>1. UNCHANGED <<mem, clearing, kv, log, writerVars>>
    BY <1>5 DEF DropTxnMut, Reader, vars, memVars, writerVars
  <2>2. UNCHANGED <<mem, clearing, kv, log, head, base, settling, open, view, disk, fatal>>
    BY <2>1 DEF writerVars
  <2>3. /\ \A k \in Key : InFlight(k)' = InFlight(k)
        /\ Clears(base, Len(log))' = Clears(base, Len(log)) /\ Clears(base, head)' = Clears(base, head)
        /\ Landed' = Landed
    BY <2>2 DEF InFlight, Clears, Landed, Counts
  <2>4. Typed' /\ Lifecycle' /\ ClearPending'
    BY <2>2, <2>3 DEF IInv, Typed, Lifecycle, ClearPending
  <2>5. ASSUME NEW k \in Key PROVE RowInv(k)'
    <3>1. RowInv(k)
      BY DEF IInv
    <3> QED BY <2>2, <2>3, <3>1 DEF RowInv, RowOk, CountOk, LastWins, ClearPins, ClearEmpties,
                                    DiskRight, ViewRight
  <2> QED BY <2>4, <2>5 DEF IInv
<1>6. CASE Discard \/ Fail
  <2>1. /\ Take /\ log' = log /\ base' = base /\ UNCHANGED memVars
        /\ disk' = disk /\ view' = view /\ settling' = settling /\ open' \in BOOLEAN
    BY <1>6 DEF Discard, Fail, IInv, Typed
  <2>2. fatal' = TRUE
    BY <1>6 DEF Discard, Fail, Trip, IInv, Typed
  <2> QED BY <2>1, <2>2, PoisonedKeeps
<1>7. CASE StartTxn \/ CommitTxn \/ ApplyInTxn \/ Apply \/ Release \/ Settled \/ CaughtUp
  BY <1>7, StartTxnKeeps, CommitTxnKeeps, ApplyInTxnKeeps, ApplyKeeps, ReleaseKeeps, SettledKeeps,
     CaughtUpKeeps
<1>8. CASE Crash
  <2>1. disk' \in [Key -> Content]
    BY <1>8 DEF Crash, IInv, Typed
  <2>2. Opened'
    BY <1>8, <2>1 DEF Crash, Opened
  <2> QED BY <2>2, ReopenedKeeps
<1> QED BY <1>1, <1>2, <1>3, <1>4, <1>5, <1>6, <1>7, <1>8 DEF Next, Producer, Writer

\* For every set of keys and values and any number of messages, every key reads
\* as it was last written, through evictions, clears, transactions, failures of
\* the persistent tier and crashes, and the in-flight counts are exact
\* (LayeredDbTx::get, db_run, MemDatabase).
THEOREM LayeredReads == Spec => [](ReadsLatest /\ CountsExact)
<1>1. Init => IInv
  BY OpenedKeeps DEF Init, Opened
<1>2. IInv => ReadsLatest /\ CountsExact
  BY IInvImplies
<1> QED BY <1>1, <1>2, NextKeeps, PTL DEF Spec

=============================================================================
