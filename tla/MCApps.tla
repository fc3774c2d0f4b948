-------------------------------- MODULE MCApps ---------------------------------
(***************************************************************************)
(* Apps for TLC: small boards, numbers of five bits, a terminal of eleven  *)
(* characters, and outputs that end their line, leave it open, or are      *)
(* longer than half the buffer.  Editors have lines of two characters.     *)
(***************************************************************************)
EXTENDS Apps

MCOutputs ==
  {<<>>, <<"other", "nl">>, <<"other">>, [i \in 1..8 |-> IF i % 3 = 0 THEN "nl" ELSE "other"]}

MCFiles == {<<>>, <<"v">>, <<"v", "nl", "v", "v", "v", "nl">>}
MCTexts == {<<>>, <<"v">>, <<"v", "v", "v">>}
MCRoom == {-1, 1, 12}

==============================================================================
