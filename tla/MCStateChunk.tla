---------------------------- MODULE MCStateChunk ----------------------------
(* Instance of StateChunk for TLC: chunks of an older version, of a newer one *)
(* with an unknown id, with repeated and out-of-range values, with no number, *)
(* longer than the buffer, announcing more than they hold, and not a chunk.   *)
EXTENDS StateChunk

Ids == <<1, 2>>

ForeignChunk(magic, count, entries, length) ==
    [magic |-> magic, count |-> count, length |-> length, saved |-> <<>>,
     entries |-> [k \in 1 .. Len(entries) |-> [id |-> entries[k][1], value |-> entries[k][2]]]]

Chunks == {ForeignChunk(TRUE, 1, <<<<2, 2>>>>, 16),
           ForeignChunk(TRUE, 3, <<<<1, 2>>, <<3, 1>>, <<2, NaN>>>>, 32),
           ForeignChunk(TRUE, 4, <<<<1, 5>>, <<1, 0>>, <<2, 2>>, <<2, 1>>>>, 40),
           ForeignChunk(TRUE, 1, <<<<1, 2>>, <<2, 2>>>>, 24),
           ForeignChunk(TRUE, 9, <<<<2, 2>>>>, 13),
           ForeignChunk(FALSE, 1, <<<<1, 2>>>>, 16)}
===============================================================================
