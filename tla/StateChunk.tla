------------------------------ MODULE StateChunk ------------------------------
(***************************************************************************)
(* The plugin's saved state: cplug_saveState and cplug_loadState of        *)
(* plugin.c.  The chunk is a header of 8 bytes (magic, count) and entries  *)
(* of 8 bytes (id, value); lengths are in bytes, contents in entries.  The *)
(* host keeps the chunk, or hands the plugin one from another version or   *)
(* from elsewhere.  Its streams are external: a write may be cut short, a  *)
(* read may return fewer bytes than asked for, or fail.                    *)
(*                                                                         *)
(* What the stores do to the knobs meanwhile is PluginParams' subject.     *)
(*                                                                         *)
(* FirstRead, CountOnly, NoCheck and SameEntry are bugs to put in place of *)
(* the definitions that follow them.                                       *)
(***************************************************************************)
EXTENDS Integers, Sequences, SequencesExt, FiniteSetsExt

CONSTANTS
    Order,       \* the parameters' ids, by ParamIndex
    Lo, Hi,      \* range of a parameter
    HostValues,  \* plain values a host may set
    NaN,         \* the float that is no number
    Foreign,     \* chunks from other versions and from elsewhere
    Kept,        \* where a host's write may be cut short
    Portions,    \* how many bytes a host's read may return, short of all
    STATE_MAX_ENTRIES

VARIABLES
    values,  \* plugin.c:22
    disk,    \* the chunk the host keeps
    phase,   \* main thread: "idle", "read" or "parse"
    n, i,    \* cplug_loadState: bytes read, entries looked at
    cut,     \* ghost: the stream failed during this load
    before   \* ghost: the values when the load began; none between loads

vars == <<values, disk, phase, n, i, cut, before>>

Header == 8
Entry == 8
Buffer == Header + STATE_MAX_ENTRIES * Entry

ASSUME OrderAssumption == /\ Order \in Seq(Nat) /\ IsInjective(Order)
                          /\ STATE_MAX_ENTRIES \in Nat /\ STATE_MAX_ENTRIES >= Len(Order)
ASSUME RangeAssumption == /\ Lo \in Int /\ Hi \in Int /\ Lo <= Hi
                          /\ HostValues \subseteq Int
ASSUME StreamAssumption == Kept \subseteq Nat /\ Portions \subseteq Nat \ {0}
ASSUME ForeignAssumption ==
    /\ Foreign \subseteq [magic : BOOLEAN, count : Nat, length : Nat, saved : {<<>>},
                         entries : Seq([id : Nat, value : Int \cup {NaN}])]
    /\ \A c \in Foreign : c.length <= Header + Len(c.entries) * Entry

Params == ToSet(Order)

\* Every comparison with NaN is false, so Param_Clamp returns it as it is.
Clamp(v) == CASE v = NaN -> v
              [] v # NaN /\ v < Lo -> Lo
              [] v # NaN /\ v > Hi -> Hi
              [] v # NaN /\ v \in Lo .. Hi -> v

Init ==
    /\ values \in [Params -> {Lo}]
    /\ disk \in Foreign
    /\ phase = "idle" /\ n = 0 /\ i = 0 /\ cut = FALSE /\ before = <<>>

-------------------------------------------------------------------------------
\* cplug_setParameterValue
SetParameter(p, v) ==
    /\ phase = "idle"
    /\ values' = [values EXCEPT ![p] = Clamp(v)]
    /\ UNCHANGED <<disk, phase, n, i, cut, before>>

\* cplug_saveState, of which the host keeps the first "kept" bytes.
Chunk(kept) ==
    [magic |-> TRUE, count |-> Len(Order), length |-> kept, saved |-> values,
     entries |-> [k \in 1 .. Len(Order) |-> [id |-> Order[k], value |-> values[Order[k]]]]]

Whole == Header + Len(Order) * Entry

SaveState(kept) ==
    /\ kept <= Whole
    /\ phase = "idle"
    /\ disk' = Chunk(kept)
    /\ UNCHANGED <<values, phase, n, i, cut, before>>

\* cplug_loadState of what the host keeps, or of another chunk.
LoadState(c) ==
    /\ phase = "idle"
    /\ disk' = c
    /\ phase' = "read" /\ n' = 0 /\ i' = 0 /\ cut' = FALSE /\ before' = values
    /\ UNCHANGED values

\* readProc returns some of the bytes asked for.
Asked == Buffer - n
Returned == {got \in Portions \cup {Asked, disk.length - n} : got > 0}

Read(got) ==
    /\ phase = "read"
    /\ got <= Asked /\ n + got <= disk.length
    /\ n' = n + got
    /\ UNCHANGED <<values, disk, phase, i, cut, before>>

\* The buffer is full, the stream at its end, or broken; then the header is looked at.
FirstRead == n > 0 \/ disk.length = 0
ReadOver == n = Buffer \/ n = disk.length

Return == phase' = "idle" /\ n' = 0 /\ i' = 0 /\ before' = <<>>

Examine == /\ phase = "read"
           /\ IF n >= Header /\ disk.magic
              THEN phase' = "parse" /\ UNCHANGED <<n, i, before>>
              ELSE Return
           /\ UNCHANGED <<values, disk>>

ReadEnd == ReadOver /\ Examine /\ UNCHANGED cut
ReadFails == ~ReadOver /\ Examine /\ cut' = TRUE

\* The entries the loop runs over: announced, room for in the buffer, and read whole.
Count == IF disk.count > STATE_MAX_ENTRIES THEN STATE_MAX_ENTRIES ELSE disk.count

CountOnly == i < Count
More == i < Count /\ Header + i * Entry + Entry <= n

NoCheck(e) == e.id \in Params
Stores(e) == e.id \in Params /\ e.value # NaN

SameEntry == i
Following == i + 1

ParseEntry ==
    /\ phase = "parse" /\ More
    /\ LET e == disk.entries[i + 1]
       IN values' = IF Stores(e) THEN [values EXCEPT ![e.id] = Clamp(e.value)] ELSE values
    /\ i' = Following
    /\ UNCHANGED <<disk, phase, n, cut, before>>

ParseEnd ==
    /\ phase = "parse" /\ ~More
    /\ Return
    /\ UNCHANGED <<values, disk, cut>>

-------------------------------------------------------------------------------
LoadStep == \/ \E got \in Returned : Read(got)
            \/ ReadEnd \/ ReadFails \/ ParseEntry \/ ParseEnd

Next == \/ \E p \in Params, v \in HostValues \cup {NaN} : SetParameter(p, v)
        \/ \E kept \in Kept \cup {Whole} : SaveState(kept)
        \/ \E c \in Foreign \cup {disk} : LoadState(c)
        \/ LoadStep

Spec == Init /\ [][Next]_vars

\* A load that has begun runs to its end.
FairSpec == Spec /\ WF_vars(LoadStep)
-------------------------------------------------------------------------------
(* Correctness *)

\* An entry counts if the header announces it, all of its bytes arrived and the
\* plugin would have looked that far.
Arrived(k) == /\ k \in 1 .. Len(disk.entries)
              /\ k <= disk.count /\ k <= STATE_MAX_ENTRIES
              /\ Header + k * Entry <= n

\* What is set for p: the last of p's entries among those, unless they are no
\* numbers or there are none.
Loaded(p) ==
    LET mine == {k \in 1 .. Len(disk.entries) :
                    Arrived(k) /\ disk.entries[k].id = p /\ disk.entries[k].value # NaN}
    IN IF disk.magic /\ n >= Header /\ mine # {} THEN Clamp(disk.entries[Max(mine)].value)
                                                 ELSE before[p]

\* "Unknown ids are ignored and missing ones keep their current value, so
\* parameters can be added or removed later." (plugin.c:215): however the bytes
\* arrive and wherever they stop, a load changes what the whole entries say and
\* nothing else.
LoadsWholeEntries ==
    [][phase # "idle" /\ phase' = "idle" => \A p \in Params : values'[p] = Loaded(p)]_vars

\* "State round-trip into a fresh instance" (clap-smoke.c:280): a chunk that was
\* kept and read whole restores what was saved, except a value that was no number.
RoundTrip ==
    [][(/\ phase # "idle" /\ phase' = "idle" /\ ~cut'
        /\ disk.saved # <<>> /\ disk.length = Whole) =>
           \A p \in Params : disk.saved[p] # NaN => values'[p] = disk.saved[p]]_vars

\* The load neither writes past its buffer nor looks at bytes that were not read.
StaysInBuffer ==
    /\ n <= Buffer
    /\ phase = "parse" /\ More => i < Len(disk.entries) /\ Header + (i + 1) * Entry <= n

\* A load comes to an end, though a stream may hand out one byte at a time.
LoadReturns == phase # "idle" ~> phase = "idle"
===============================================================================
