----------------------------- MODULE MCAudioPath -----------------------------
(* Instance of AudioPath for TLC: a block with changes at its start and, two  *)
(* on the same parameter, at one frame inside, which cuts it in stretches     *)
(* longer than, as long as and shorter than the engine's buffer; a quiet      *)
(* block; and an empty block with a change.                                   *)
EXTENDS AudioPath

At(t, p, v) == [time |-> t, param |-> p, value |-> v]
Plans == {[n |-> 3, events |-> <<At(0, "gain", 2), At(2, "cutoff", 3),
                                 At(2, "high", 3), At(2, "high", 1)>>],
          [n |-> 1, events |-> <<>>],
          [n |-> 0, events |-> <<At(0, "high", 3)>>]}
===============================================================================
