------------------------------ MODULE MCMalloc ------------------------------
(* A heap of five minimum blocks, aligned or not, and used with aligned offsets
   or, as by IPoIB, with others. *)
EXTENDS Malloc

MCOffsetSets == {{0}, {0, 1}}
=============================================================================
