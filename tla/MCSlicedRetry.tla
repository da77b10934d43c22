---------------------------- MODULE MCSlicedRetry ----------------------------
(***************************************************************************)
(* Small instance of SlicedRetry: three datagrams of one block, enough to  *)
(* fill every tick of a path delay, and one with more blocks than a path   *)
(* delay has ticks; the limit lets one block out per tick.  The datagrams  *)
(* of one block are interchangeable.                                       *)
(***************************************************************************)
EXTENDS SlicedRetry, TLC

CONSTANTS Small, Large, LargeSize

MCDgrams == Small \cup Large
MCSize == [d \in Dgrams |-> IF d \in Large THEN LargeSize ELSE 1]
SmallSymmetry == Permutations(Small)
=============================================================================
