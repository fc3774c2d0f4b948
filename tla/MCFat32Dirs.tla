----------------------------- MODULE MCFat32Dirs -----------------------------
(***************************************************************************)
(* A directory with room for one entry beside its dots, so that the second *)
(* one extends it, files in it and in the root, and moves between the two, *)
(* on a disk too small for all of them.  No file has bytes, so 0 is what a *)
(* cluster that was never cleared holds; read as a directory it spells an  *)
(* entry b whose first cluster is the last of the disk.                    *)
(***************************************************************************)
EXTENDS Fat32

MCPath == {<<"d">>, <<"d", "a">>, <<"d", "b">>, <<"c">>}
MCDirs == {<<"d">>}
MCStrings == {}
MCSpelling == [b \in {0} |-> Dirent("b", FALSE, EOC - 1, 0)]
MCCounts == {}
MCSeeks == {}
MCPremade == {"c"}

\* No action reads more of result than Up, and view follows from the rest.
MCView == <<disk, file_table, Up>>

==============================================================================
