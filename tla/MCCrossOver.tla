----------------------------- MODULE MCCrossOver -----------------------------
(* Instance of CrossOver for TLC: silence, both ends of the range, and one   *)
(* sample in between that no coefficient divides.                            *)
EXTENDS CrossOver

SomeSamples == {INT32_MIN, 0, 5, INT32_MAX}
===============================================================================
