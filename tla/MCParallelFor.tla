--------------------------- MODULE MCParallelFor ----------------------------
(***************************************************************************)
(* parallel_for on a pool of its own: ranges that are empty, reversed,     *)
(* shorter than a grain, cut into fewer jobs than there are threads, into  *)
(* as many as there are threads, and with a remainder.                     *)
(***************************************************************************)
EXTENDS ParallelFor

Range(first, last, grain) == [start |-> first, end |-> last, grain |-> grain]

MCCalls ==
  {Range(3, 1, 1), Range(1, 3, 4), Range(0, 4, 2), Range(0, 5, 1)}
=============================================================================
