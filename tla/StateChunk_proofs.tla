--------------------------- MODULE StateChunk_proofs ---------------------------
(***************************************************************************)
(* Proofs about StateChunk, for every buffer, every table of ids, every    *)
(* chunk a host may hand over and every way its stream may portion it.     *)
(*                                                                         *)
(* The loop's invariant is that after i entries each value is what the     *)
(* last of its entries among the first i says, or what it was before.      *)
(***************************************************************************)
EXTENDS StateChunk, SequenceTheorems, TLAPS

Number == Int \cup {NaN}
Value == Lo .. Hi \cup {NaN}

\* A chunk ends no later than its last entry; one the plugin saved holds an
\* entry for each of its parameters.
ChunkOK(c) ==
    /\ c.magic \in BOOLEAN /\ c.count \in Nat /\ c.length \in Nat
    /\ c.entries \in Seq([id : Nat, value : Number])
    /\ c.length <= Header + Len(c.entries) * Entry
    /\ c.saved # <<>> =>
          /\ c.magic /\ c.count = Len(Order) /\ Len(c.entries) = Len(Order)
          /\ c.saved \in [Params -> Value]
          /\ \A k \in 1 .. Len(Order) :
                c.entries[k].id = Order[k] /\ c.entries[k].value = c.saved[Order[k]]

\* The k-th entry says something of p, and is the last of the first i to do so.
Says(p, k) == disk.entries[k].id = p /\ disk.entries[k].value # NaN
LastSaying(p, k) == Says(p, k) /\ \A j \in 1 .. i : Says(p, j) => j <= k

AfterEntries(p) ==
    \/ values[p] = before[p] /\ \A k \in 1 .. i : ~Says(p, k)
    \/ \E k \in 1 .. i : LastSaying(p, k) /\ values[p] = Clamp(disk.entries[k].value)

TypeInv ==
    /\ values \in [Params -> Value]
    /\ ChunkOK(disk)
    /\ phase \in {"idle", "read", "parse"}
    /\ n \in Nat /\ n <= Buffer /\ n <= disk.length
    /\ i \in Nat
    /\ cut \in BOOLEAN

LoopInv ==
    /\ phase = "idle" => n = 0
    /\ phase = "read" => values = before /\ i = 0
    /\ phase = "parse" =>
          /\ disk.magic /\ n >= Header
          /\ cut \/ ReadOver
          /\ i <= Count /\ (i > 0 => Header + i * Entry <= n)
          /\ \A p \in Params : AfterEntries(p)

Inv == TypeInv /\ LoopInv

-------------------------------------------------------------------------------
LEMMA Sizes == /\ Header = 8 /\ Entry = 8 /\ Len(Order) \in Nat
               /\ Buffer = 8 + STATE_MAX_ENTRIES * 8 /\ Buffer \in Nat
               /\ Whole = 8 + Len(Order) * 8 /\ Whole \in Nat /\ Whole <= Buffer
  <1>1. Len(Order) \in Nat
    BY OrderAssumption, LenProperties
  <1> QED  BY <1>1, OrderAssumption DEF Header, Entry, Buffer, Whole

LEMMA ClampValue == ASSUME NEW v \in Number  PROVE Clamp(v) \in Value
  BY RangeAssumption DEF Number, Value, Clamp

\* A value in range is stored as it is.
LEMMA ClampKeeps == ASSUME NEW v \in Value, v # NaN  PROVE Clamp(v) = v
  BY RangeAssumption DEF Value, Clamp

LEMMA MaxIs ==
    ASSUME NEW S \in SUBSET Int, NEW k \in S, \A j \in S : j <= k
    PROVE  Max(S) = k
  <1>1. \A j \in S : k >= j
    OBVIOUS
  <1>2. /\ Max(S) \in S /\ \A j \in S : Max(S) >= j
    BY <1>1 DEF Max
  <1>3. Max(S) \in Int /\ k \in Int /\ Max(S) >= k /\ k >= Max(S)
    BY <1>1, <1>2
  <1> QED  BY <1>3

\* There is room for the next entry both in the buffer and in what was read.
LEMMA NextArrived ==
    ASSUME TypeInv, More
    PROVE  /\ i + 1 \in 1 .. Len(disk.entries) /\ i + 1 \in Nat
           /\ i + 1 <= Count /\ Header + (i + 1) * Entry <= n
  <1>1. Len(disk.entries) \in Nat
    BY LenProperties DEF TypeInv, ChunkOK
  <1>2. i < Count /\ 8 + i * 8 + 8 <= n /\ n <= disk.length
        /\ disk.length <= 8 + Len(disk.entries) * 8 /\ i \in Nat /\ n \in Nat
        /\ disk.length \in Nat /\ Count \in Nat
    BY Sizes, OrderAssumption DEF More, TypeInv, ChunkOK, Count
  <1>3. i + 1 <= Len(disk.entries)
    BY <1>1, <1>2
  <1> QED  BY <1>1, <1>2, <1>3, Sizes

\* The load neither writes past its buffer nor looks at bytes that were not read
\* (plugin.c:248-256).
LEMMA InvStays == Inv => StaysInBuffer
  <1> SUFFICES ASSUME Inv  PROVE StaysInBuffer
    OBVIOUS
  <1>1. ASSUME More  PROVE i < Len(disk.entries) /\ Header + (i + 1) * Entry <= n
    <2>1. i \in Nat /\ Len(disk.entries) \in Nat
      BY LenProperties DEF Inv, TypeInv, ChunkOK
    <2> QED  BY <1>1, <2>1, NextArrived DEF Inv
  <1> QED  BY <1>1 DEF StaysInBuffer, Inv, TypeInv

-------------------------------------------------------------------------------
(* Each step keeps the invariant *)

LEMMA InitInv == Init => Inv
  <1> SUFFICES ASSUME Init  PROVE Inv
    OBVIOUS
  <1>1. values \in [Params -> Value]
    BY RangeAssumption DEF Init, Value
  <1>2. ChunkOK(disk)
    BY ForeignAssumption DEF Init, ChunkOK, Number
  <1>3. n = 0 /\ n <= Buffer /\ n <= disk.length
    BY <1>2, Sizes DEF Init, ChunkOK
  <1>4. phase = "idle" /\ i = 0 /\ cut = FALSE
    BY DEF Init
  <1>5. TypeInv
    BY <1>1, <1>2, <1>3, <1>4 DEF TypeInv
  <1>6. LoopInv
    BY <1>3, <1>4 DEF LoopInv
  <1> QED  BY <1>5, <1>6 DEF Inv

\* What cplug_saveState writes: plugin.c:228-241.
LEMMA SavedOK ==
    ASSUME NEW kept \in Nat, kept <= Whole, values \in [Params -> Value]
    PROVE  ChunkOK(Chunk(kept))
  <1> DEFINE e == [k \in 1 .. Len(Order) |-> [id |-> Order[k], value |-> values[Order[k]]]]
  <1>1. ASSUME NEW k \in 1 .. Len(Order)
        PROVE  Order[k] \in Nat /\ Order[k] \in Params
    <2>1. Order \in [1 .. Len(Order) -> Nat] /\ DOMAIN Order = 1 .. Len(Order)
      BY OrderAssumption, LenProperties
    <2> QED  BY <2>1 DEF Params, ToSet
  <1>2. \A k \in 1 .. Len(Order) : e[k] \in [id : Nat, value : Number]
    BY <1>1, RangeAssumption DEF Value, Number
  <1>3. e \in Seq([id : Nat, value : Number]) /\ Len(e) = Len(Order)
    <2>1. e \in [1 .. Len(Order) -> [id : Nat, value : Number]]
      BY <1>2
    <2> HIDE DEF e
    <2>2. e \in Seq([id : Nat, value : Number])
      <3> DEFINE S == [id : Nat, value : Number]
      <3> HIDE DEF S
      <3>1. Seq(S) = UNION {[1 .. m -> S] : m \in Nat}
        BY SeqDef
      <3>2. e \in [1 .. Len(Order) -> S] /\ Len(Order) \in Nat
        BY <2>1, Sizes DEF S
      <3> QED  BY <3>1, <3>2 DEF S
    <2>3. DOMAIN e = 1 .. Len(Order)
      BY <2>1
    <2>4. Len(e) \in Nat /\ DOMAIN e = 1 .. Len(e)
      BY <2>2, LenProperties
    <2> QED  BY <2>2, <2>3, <2>4, Sizes
  <1>4. Chunk(kept) = [magic |-> TRUE, count |-> Len(Order), length |-> kept,
                       saved |-> values, entries |-> e]
    BY DEF Chunk
  <1>5. \A k \in 1 .. Len(Order) : e[k].id = Order[k] /\ e[k].value = values[Order[k]]
    OBVIOUS
  <1> HIDE DEF e
  <1> QED  BY <1>3, <1>4, <1>5, Sizes DEF ChunkOK, Whole

\* Between loads: plugin.c:118-124, 221-247.
LEMMA IdleKeeps ==
    ASSUME Inv,
           \/ \E p \in Params, v \in HostValues \cup {NaN} : SetParameter(p, v)
           \/ \E kept \in Kept \cup {Whole} : SaveState(kept)
           \/ \E c \in Foreign \cup {disk} : LoadState(c)
    PROVE  Inv'
  <1> USE DEF Inv
  <1>1. ASSUME NEW p \in Params, NEW v \in HostValues \cup {NaN}, SetParameter(p, v)
        PROVE  Inv'
    <2>1. v \in Number
      BY RangeAssumption DEF Number
    <2>2. values' \in [Params -> Value]
      BY <1>1, <2>1, ClampValue DEF SetParameter, TypeInv
    <2> QED  BY <1>1, <2>2 DEF SetParameter, TypeInv, LoopInv
  <1>2. ASSUME NEW kept \in Kept \cup {Whole}, SaveState(kept)
        PROVE  Inv'
    <2>1. kept \in Nat /\ kept <= Whole
      BY <1>2, StreamAssumption, Sizes DEF SaveState
    <2>2. ChunkOK(disk') /\ disk'.length = kept /\ n = 0
      BY <1>2, <2>1, SavedOK DEF SaveState, TypeInv, LoopInv, Chunk
    <2> QED  BY <1>2, <2>1, <2>2 DEF SaveState, TypeInv, LoopInv
  <1>3. ASSUME NEW c \in Foreign \cup {disk}, LoadState(c)
        PROVE  Inv'
    <2>1. ChunkOK(c)
      BY ForeignAssumption DEF ChunkOK, Number, TypeInv
    <2>2. 0 <= Buffer /\ 0 <= c.length
      BY <2>1, Sizes DEF ChunkOK
    <2> QED  BY <1>3, <2>1, <2>2 DEF LoadState, TypeInv, LoopInv
  <1> QED  BY <1>1, <1>2, <1>3

\* The read loop and the header: plugin.c:248-255.
LEMMA ReadKeeps ==
    ASSUME Inv, (\E got \in Returned : Read(got)) \/ ReadEnd \/ ReadFails
    PROVE  Inv'
  <1> USE DEF Inv
  <1>1. ASSUME NEW got \in Returned, Read(got)
        PROVE  Inv'
    <2>1. got \in Nat
      BY StreamAssumption, Sizes DEF Returned, Asked, TypeInv, ChunkOK
    <2>2. n' \in Nat /\ n' <= Buffer /\ n' <= disk.length
      BY <1>1, <2>1, Sizes DEF Read, Asked, TypeInv, ChunkOK
    <2> QED  BY <1>1, <2>2 DEF Read, TypeInv, LoopInv
  <1>2. CASE ReadEnd \/ ReadFails
    <2>1. /\ Examine /\ (cut' \/ ReadOver) /\ cut' \in BOOLEAN
          /\ phase = "read" /\ values = before /\ i = 0 /\ values' = values /\ disk' = disk
      BY <1>2 DEF ReadEnd, ReadFails, Examine, TypeInv, LoopInv
    <2>2. CASE n >= Header /\ disk.magic
      <3>1. phase' = "parse" /\ UNCHANGED <<n, i, before>>
        BY <2>1, <2>2 DEF Examine
      <3>2. 0 <= Count
        BY OrderAssumption DEF Count, TypeInv, ChunkOK
      <3>3. \A p \in Params : AfterEntries(p)'
        BY <2>1, <3>1 DEF AfterEntries
      <3> QED  BY <2>1, <2>2, <3>1, <3>2, <3>3 DEF TypeInv, LoopInv, Count, ReadOver
    <2>3. CASE ~(n >= Header /\ disk.magic)
      <3>1. phase' = "idle" /\ n' = 0 /\ i' = 0
        BY <2>1, <2>3 DEF Examine, Return
      <3>2. 0 <= Buffer /\ 0 <= disk.length
        BY Sizes DEF TypeInv, ChunkOK
      <3> QED  BY <2>1, <3>1, <3>2 DEF TypeInv, LoopInv
    <2> QED  BY <2>2, <2>3
  <1> QED  BY <1>1, <1>2

\* An entry read whole: plugin.c:256-263.
LEMMA ParseKeeps ==
    ASSUME Inv, ParseEntry
    PROVE  Inv'
  <1> USE DEF Inv
  <1>1. /\ phase = "parse" /\ More /\ i' = i + 1
        /\ UNCHANGED <<disk, phase, n, cut, before>>
        /\ values \in [Params -> Value] /\ i \in Nat
    BY DEF ParseEntry, Following, TypeInv
  <1>2. /\ i + 1 \in 1 .. Len(disk.entries) /\ i + 1 \in Nat
        /\ i + 1 <= Count /\ Header + (i + 1) * Entry <= n
    BY <1>1, NextArrived
  <1> DEFINE e == disk.entries[i + 1]
  <1>3. e \in [id : Nat, value : Number]
    BY <1>2, ElementOfSeq DEF TypeInv, ChunkOK
  <1>4. values' = IF Stores(e) THEN [values EXCEPT ![e.id] = Clamp(e.value)] ELSE values
    BY DEF ParseEntry
  <1>5. e.value \in Number /\ Clamp(e.value) \in Value
    BY <1>3, ClampValue
  <1>6. values' \in [Params -> Value]
    BY <1>1, <1>4, <1>5
  <1>7. ASSUME NEW p \in Params  PROVE AfterEntries(p)'
    <2>1. AfterEntries(p)
      BY <1>1 DEF LoopInv
    <2>2. \A k : Says(p, k)' <=> Says(p, k)
      BY <1>1 DEF Says
    <2>3. \A k \in 1 .. i + 1 : k \in 1 .. i \/ k = i + 1
      BY <1>1
    <2>4. CASE Says(p, i + 1)
      <3>1. Stores(e) /\ e.id = p
        BY <2>4 DEF Says, Stores
      <3>2. values'[p] = Clamp(e.value)
        BY <1>1, <1>4, <3>1
      <3>3. PICK k \in 1 .. i' : k = i + 1
        BY <1>1
      <3>4. LastSaying(p, k)'
        BY <1>1, <2>2, <2>4, <3>3 DEF LastSaying
      <3>5. values'[p] = Clamp(disk'.entries[k].value)
        BY <1>1, <3>2, <3>3
      <3> QED  BY <3>4, <3>5 DEF AfterEntries
    <2>5. CASE ~Says(p, i + 1)
      <3>1. values'[p] = values[p]
        BY <1>1, <1>4, <2>5 DEF Says, Stores
      <3>2. ASSUME NEW k \in 1 .. i, LastSaying(p, k)  PROVE LastSaying(p, k)'
        BY <1>1, <2>2, <2>3, <2>5, <3>2 DEF LastSaying
      <3>3. 1 .. i \subseteq 1 .. i'
        BY <1>1
      <3>4. CASE values[p] = before[p] /\ \A k \in 1 .. i : ~Says(p, k)
        BY <1>1, <2>2, <2>3, <2>5, <3>1, <3>4 DEF AfterEntries
      <3>5. CASE \E k \in 1 .. i : LastSaying(p, k) /\ values[p] = Clamp(disk.entries[k].value)
        BY <1>1, <3>1, <3>2, <3>3, <3>5 DEF AfterEntries
      <3> QED  BY <2>1, <3>4, <3>5 DEF AfterEntries
    <2> QED  BY <2>4, <2>5
  <1>8. TypeInv'
    BY <1>1, <1>2, <1>6 DEF TypeInv
  <1>9. LoopInv'
    BY <1>1, <1>2, <1>7 DEF LoopInv, Count, ReadOver
  <1> QED  BY <1>8, <1>9

LEMMA InvNext == Inv /\ [Next]_vars => Inv'
  <1> SUFFICES ASSUME Inv, [Next]_vars  PROVE Inv'
    OBVIOUS
  <1>1. CASE UNCHANGED vars
    BY <1>1 DEF vars, Inv, TypeInv, LoopInv, AfterEntries, LastSaying, Says, Count, ReadOver
  <1>2. CASE ParseEnd
    BY <1>2, Sizes DEF ParseEnd, Return, Inv, TypeInv, LoopInv, ChunkOK
  <1> QED  BY <1>1, <1>2, IdleKeeps, ReadKeeps, ParseKeeps DEF Next, LoadStep

\* However a stream portions a chunk, wherever it was cut and whatever its header
\* announces, the load writes and looks at nothing outside what it read, and reads
\* no more than it has room for (plugin.c:243-264).
THEOREM BufferHolds == Spec => []StaysInBuffer
  BY InitInv, InvNext, InvStays, PTL DEF Spec

-------------------------------------------------------------------------------
(* What a load leaves *)

\* The loop stops only after the last entry that arrived.
LEMMA AllArrived ==
    ASSUME Inv, phase = "parse", ~More
    PROVE  /\ \A k \in 1 .. Len(disk.entries) : Arrived(k) <=> k \in 1 .. i
           /\ i <= Len(disk.entries)
  <1>1. /\ Len(disk.entries) \in Nat /\ n \in Nat /\ i \in Nat
        /\ disk.count \in Nat /\ disk.length \in Nat /\ n <= disk.length
        /\ disk.length <= 8 + Len(disk.entries) * 8
    BY LenProperties, Sizes DEF Inv, TypeInv, ChunkOK
  <1>2. i <= Count /\ (i > 0 => 8 + i * 8 <= n)
    BY Sizes DEF Inv, LoopInv
  <1>3. Count \in Nat /\ \A k \in Nat : k <= Count <=> k <= disk.count /\ k <= STATE_MAX_ENTRIES
    BY <1>1, OrderAssumption DEF Count
  <1>4. i >= Count \/ ~(8 + i * 8 + 8 <= n)
    BY <1>1, <1>3, Sizes DEF More
  <1>5. ASSUME NEW k \in 1 .. Len(disk.entries)
        PROVE  Arrived(k) <=> k \in 1 .. i
    <2>1. Arrived(k) <=> k <= Count /\ 8 + k * 8 <= n
      BY <1>1, <1>3, Sizes DEF Arrived
    <2>2. CASE k <= i
      BY <1>1, <1>2, <1>3, <2>1, <2>2
    <2>3. CASE k > i
      <3>1. k >= i + 1 /\ 8 + k * 8 >= 8 + i * 8 + 8
        BY <1>1, <2>3
      <3> QED  BY <1>1, <1>3, <1>4, <2>1, <2>3, <3>1
    <2> QED  BY <1>1, <2>2, <2>3
  <1>6. i <= Len(disk.entries)
    BY <1>1, <1>2
  <1> QED  BY <1>5, <1>6

\* What the loop has set is what the whole entries say.
LEMMA LoopLoads ==
    ASSUME Inv, phase = "parse", ~More, NEW p \in Params
    PROVE  values[p] = Loaded(p)
  <1> DEFINE mine == {k \in 1 .. Len(disk.entries) :
                        Arrived(k) /\ disk.entries[k].id = p /\ disk.entries[k].value # NaN}
             sayers == {k \in 1 .. i : Says(p, k)}
  <1>1. i \in Nat /\ Len(disk.entries) \in Nat /\ disk.magic /\ n >= Header /\ AfterEntries(p)
    BY LenProperties DEF Inv, TypeInv, ChunkOK, LoopInv
  <1>2. mine = sayers
    BY <1>1, AllArrived DEF Says
  <1>3. Loaded(p) = IF mine # {} THEN Clamp(disk.entries[Max(mine)].value) ELSE before[p]
    BY <1>1 DEF Loaded
  <1>4. CASE values[p] = before[p] /\ \A k \in 1 .. i : ~Says(p, k)
    BY <1>2, <1>3, <1>4
  <1>5. CASE \E k \in 1 .. i : LastSaying(p, k) /\ values[p] = Clamp(disk.entries[k].value)
    <2>1. PICK k \in 1 .. i : LastSaying(p, k) /\ values[p] = Clamp(disk.entries[k].value)
      BY <1>5
    <2>2. k \in sayers /\ \A j \in sayers : j <= k
      BY <2>1 DEF LastSaying
    <2>3. sayers \in SUBSET Int
      BY <1>1
    <2> HIDE DEF sayers, mine
    <2>4. Max(sayers) = k
      BY <2>2, <2>3, MaxIs
    <2> QED  BY <1>2, <1>3, <2>1, <2>2, <2>4
  <1> QED  BY <1>1, <1>4, <1>5 DEF AfterEntries

\* A load that ends has looked at all that arrived, or found no chunk.
LEMMA LoadEnds ==
    ASSUME Inv, [Next]_vars, phase # "idle", phase' = "idle"
    PROVE  /\ values' = values /\ disk' = disk
           /\ \/ phase = "parse" /\ ~More /\ cut' = cut
              \/ /\ phase = "read" /\ ~(n >= Header /\ disk.magic) /\ (cut' \/ ReadOver)
  <1>1. CASE ParseEnd
    BY <1>1 DEF ParseEnd
  <1>2. CASE ReadEnd \/ ReadFails
    BY <1>2 DEF ReadEnd, ReadFails, Examine
  <1>3. CASE ParseEntry
    BY <1>3 DEF ParseEntry
  <1>4. CASE UNCHANGED vars
    BY <1>4 DEF vars
  <1>5. ASSUME NEW got \in Returned, Read(got)  PROVE FALSE
    BY <1>5 DEF Read
  <1>6. CASE \/ \E p \in Params, v \in HostValues \cup {NaN} : SetParameter(p, v)
             \/ \E kept \in Kept \cup {Whole} : SaveState(kept)
             \/ \E c \in Foreign \cup {disk} : LoadState(c)
    BY <1>6 DEF SetParameter, SaveState, LoadState
  <1> QED  BY <1>1, <1>2, <1>3, <1>4, <1>5, <1>6 DEF Next, LoadStep

\* However the bytes arrive and wherever they stop, a load sets each parameter to
\* what the last of its whole entries says, clamped, and leaves one that no entry
\* speaks of as it was: unknown ids and NaN change nothing (plugin.c:243-264).
THEOREM LoadIsWhole == Spec => LoadsWholeEntries
  <1>1. ASSUME Inv, [Next]_vars
        PROVE  [phase # "idle" /\ phase' = "idle" => \A p \in Params : values'[p] = Loaded(p)]_vars
    <2>1. ASSUME phase # "idle", phase' = "idle", NEW p \in Params
          PROVE  values'[p] = Loaded(p)
      <3>1. CASE phase = "parse" /\ ~More
        BY <1>1, <2>1, <3>1, LoadEnds, LoopLoads
      <3>2. CASE phase = "read" /\ ~(n >= Header /\ disk.magic)
        <4>1. values = before /\ values' = values
          BY <1>1, <2>1, <3>2, LoadEnds DEF Inv, LoopInv
        <4> QED  BY <3>2, <4>1 DEF Loaded
      <3> QED  BY <1>1, <2>1, <3>1, <3>2, LoadEnds
    <2> QED  BY <2>1
  <1> QED  BY <1>1, InitInv, InvNext, PTL DEF Spec, LoadsWholeEntries

\* A chunk the plugin saved, kept whole and read to its end, restores every value
\* that is a number: "State round-trip into a fresh instance" (clap-smoke.c:280).
THEOREM StateComesBack == Spec => RoundTrip
  <1>1. ASSUME Inv, [Next]_vars, phase # "idle", phase' = "idle", ~cut',
               disk.saved # <<>>, disk.length = Whole,
               NEW p \in Params, disk.saved[p] # NaN
        PROVE  values'[p] = disk.saved[p]
    <2>1. /\ disk.magic /\ disk.count = Len(Order) /\ Len(disk.entries) = Len(Order)
          /\ disk.saved \in [Params -> Value]
          /\ \A k \in 1 .. Len(Order) : /\ disk.entries[k].id = Order[k]
                                        /\ disk.entries[k].value = disk.saved[Order[k]]
          /\ n \in Nat /\ i \in Nat /\ n <= disk.length
      BY <1>1 DEF Inv, TypeInv, ChunkOK
    <2>2. values' = values /\ (cut' \/ ReadOver)
      BY <1>1, LoadEnds DEF Inv, LoopInv
    <2>3. n = 8 + Len(Order) * 8
      BY <1>1, <2>1, <2>2, Sizes DEF ReadOver
    <2>4. phase = "parse" /\ ~More
      BY <1>1, <2>1, <2>3, Sizes, LoadEnds
    <2>5. PICK k \in 1 .. Len(Order) : Order[k] = p
      BY OrderAssumption, LenProperties DEF Params, ToSet
    <2>6. Arrived(k)
      BY <2>1, <2>3, <2>5, Sizes, OrderAssumption DEF Arrived
    <2>7. k \in 1 .. i /\ i <= Len(Order)
      BY <1>1, <2>1, <2>4, <2>5, <2>6, AllArrived
    <2>8. Says(p, k)
      BY <1>1, <2>1, <2>5 DEF Says
    <2>9. AfterEntries(p)
      BY <1>1, <2>4 DEF Inv, LoopInv
    <2>10. PICK j \in 1 .. i : LastSaying(p, j) /\ values[p] = Clamp(disk.entries[j].value)
      BY <2>7, <2>8, <2>9 DEF AfterEntries
    \* No other entry carries p's id.
    <2>11. j = k
      <3>1. j \in 1 .. Len(Order) /\ Order[j] = p
        BY <2>1, <2>7, <2>10, Sizes DEF LastSaying, Says
      <3>2. DOMAIN Order = 1 .. Len(Order)
        BY OrderAssumption, LenProperties
      <3> QED  BY <2>5, <3>1, <3>2, OrderAssumption DEF IsInjective
    <2>12. values[p] = Clamp(disk.saved[p])
      BY <2>1, <2>5, <2>10, <2>11
    <2> QED  BY <1>1, <2>1, <2>2, <2>12, ClampKeeps
  <1>2. ASSUME Inv, [Next]_vars
        PROVE  [(/\ phase # "idle" /\ phase' = "idle" /\ ~cut'
                 /\ disk.saved # <<>> /\ disk.length = Whole) =>
                    \A p \in Params : disk.saved[p] # NaN => values'[p] = disk.saved[p]]_vars
    BY <1>1, <1>2
  <1> QED  BY <1>2, InitInv, InvNext, PTL DEF Spec, RoundTrip
===============================================================================
