------------------------------- MODULE MCHeap --------------------------------
(***************************************************************************)
(* Heap for TLC.  A header is two units, a footer one, sizes are rounded   *)
(* to two.  The arena has an odd length, as 4 MB less the two tags is not  *)
(* a multiple of 8, so that free blocks of unaligned size occur.           *)
(***************************************************************************)
EXTENDS Heap
==============================================================================
