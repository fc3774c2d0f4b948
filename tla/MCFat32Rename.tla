---------------------------- MODULE MCFat32Rename ----------------------------
(***************************************************************************)
(* MCFat32Dirs on a disk one cluster smaller: a directory may be full when *)
(* there is no cluster left to extend it.                                  *)
(***************************************************************************)
EXTENDS Fat32

MCPath == {<<"d">>, <<"d", "a">>, <<"d", "b">>, <<"c">>}
MCDirs == {<<"d">>}
MCStrings == {}
MCSpelling == [b \in {0} |-> Dirent("b", FALSE, EOC - 1, 0)]
MCCounts == {}
MCSeeks == {}
MCPremade == {}

\* No action reads more of result than Up, and view follows from the rest.
MCView == <<disk, file_table, Up>>

==============================================================================
