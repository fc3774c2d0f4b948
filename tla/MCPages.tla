------------------------------- MODULE MCPages --------------------------------
(***************************************************************************)
(* PageTables for TLC: six pages in words of four bits, so that the last   *)
(* word has bits that are no pages and runs cross words; two tables of two *)
(* entries, two frames to map.                                             *)
(***************************************************************************)
EXTENDS PageTables
==============================================================================
