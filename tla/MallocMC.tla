------------------------------ MODULE MallocMC ------------------------------
(***************************************************************************)
(* A small heap for TLC: chunks of 8 units, the first block with a payload *)
(* of 6 units as the first block of the code has one of 510.               *)
(***************************************************************************)
EXTENDS Malloc

LimitDef == [c \in 0..5 |-> CASE c = 0 -> 1 [] c = 1 -> 2 [] c = 2 -> 3 [] c = 3 -> 4
                              [] c = 4 -> 7 [] OTHER -> 9]
=============================================================================
