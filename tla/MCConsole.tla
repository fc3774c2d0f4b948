------------------------------ MODULE MCConsole ------------------------------
(***************************************************************************)
(* ConsoleRead for TLC: a ring of three slots (two usable), a line buffer  *)
(* of two characters, and keys of every kind the decoder tells apart.  The *)
(* letter M is text and, with Ctrl held, the end of a line.                *)
(***************************************************************************)
EXTENDS ConsoleRead

MCPhysKey == {"RCtrl", "LShift", "M", "Enter"}
MCReadLen == {0, 3}

==============================================================================
