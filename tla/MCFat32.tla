------------------------------- MODULE MCFat32 -------------------------------
(***************************************************************************)
(* Two files in a full-size root directory, two descriptors: reads, writes,*)
(* seeks and truncations that cross sectors of two bytes until the disk is *)
(* full.  Two data clusters beside the root; a file is at most four bytes. *)
(* Neither string has a byte twice, and they differ in every place, so that *)
(* the bytes tell the file, the offset and the write that they are from.   *)
(***************************************************************************)
EXTENDS Fat32

MCPath == {<<"a">>, <<"b">>}
MCDirs == {}
MCStrings == {<<1, 2, 3>>, <<2, 3, 1>>}
MCSpelling == [b \in 0..3 |-> END]   \* no directory is ever extended
MCCounts == {4}
MCSeeks == {<<"CUR", -9>>, <<"END", 1>>}
MCPremade == {"a"}

\* No action reads more of result than Up, and view follows from the rest.
MCView == <<disk, file_table, Up>>

==============================================================================
