----------------------------- MODULE TerminalText ------------------------------
(***************************************************************************)
(* The text of the desktop's terminal window (kernel/gui/gui_desktop.c):   *)
(* one buffer holds prompts, what the user types and what commands print.  *)
(* The command of a line is read back from it.  A character is "nl", "gt", *)
(* "sp" or some other; "clear" stands for a whole word that the terminal   *)
(* handles itself.  What the shell prints for a command is any of Outputs. *)
(***************************************************************************)
EXTENDS Integers, Sequences, SequencesExt, FiniteSetsExt

CONSTANTS
  WIN_TEXT_BUF,   \* the size of the buffer, 8192 in the code
  CMD_MAX,        \* the size of a command's buffer, 256
  Typed,          \* the characters that are typed
  Outputs         \* what a command may print: sequences of characters

\* The characters of a text.
Char == Typed \cup {"nl", "gt", "sp", "other"}

ASSUME TerminalAssumption ==
  /\ WIN_TEXT_BUF \in Nat \ 0..9 /\ CMD_MAX \in Nat \ {0} /\ "nl" \notin Typed
  /\ Outputs \subseteq Seq(Char \ {"clear"})

PROMPT == <<"gt", "sp">>

\* What a command's buffer holds of a line.
Command(line) == SubSeq(line, 1, Min({Len(line), CMD_MAX - 1}))

\* Where the half that is kept begins: behind the first newline of that half.
Trimmed(text) ==
  LET ends == {i \in Len(text) - WIN_TEXT_BUF \div 2 + 1..Len(text) : text[i] = "nl"}
  IN  IF ends = {} THEN <<>> ELSE SubSeq(text, Min(ends) + 1, Len(text))

\* Mutant: a full buffer is noticed when the character no longer fits.
term_out_late(text, c) ==
  Append(IF Len(text) >= WIN_TEXT_BUF THEN Trimmed(text) ELSE text, c)

term_out_cb(text, c) ==
  Append(IF Len(text) >= WIN_TEXT_BUF - 4 THEN Trimmed(text) ELSE text, c)

PrintOut(text, out) ==
  LET after[n \in 0..Len(out)] ==
        IF n = 0 THEN text ELSE term_out_cb(after[n - 1], out[n])
  IN  after[Len(out)]

\* Where the last line begins, which is never behind the last character.
LastLine(text) ==
  LET starts == {1} \cup {i \in 2..Len(text) : text[i - 1] = "nl"}
  IN  SubSeq(text, Max(starts), Len(text))

\* The whole last line but the prompt that it starts with, if it does.
term_get_cmd(text) ==
  LET line == LastLine(text)
  IN  Command(IF IsPrefix(PROMPT, line) THEN SubSeq(line, 3, Len(line)) ELSE line)

\* typed and fresh are the reader's: the characters typed since the last Enter
\* or Ctrl+C that are still there, and whether these follow a prompt that was
\* written at the start of a line.
TerminalOpened ==
  [text |-> <<"other", "nl">> \o PROMPT, typed |-> <<>>, fresh |-> TRUE]

Enter(s, out) ==
  LET cmd == term_get_cmd(s.text)
      line == IF Len(s.text) < WIN_TEXT_BUF - 2 THEN Append(s.text, "nl") ELSE s.text
      done == IF cmd = <<"clear">> THEN <<>>
              ELSE IF cmd = <<>> THEN line ELSE PrintOut(line, out)
      room == Len(done) < WIN_TEXT_BUF - 4
  IN  [text |-> IF room THEN done \o PROMPT ELSE done,
       typed |-> <<>>,
       fresh |-> room /\ (done = <<>> \/ Last(done) = "nl")]

\* Backspace stops at anything that looks like a prompt.
Backspace(s) ==
  LET n == Len(s.text)
  IN  IF n < 3 \/ SubSeq(s.text, n - 1, n) = PROMPT THEN s
      ELSE [s EXCEPT !.text = Front(@), !.typed = IF @ = <<>> THEN @ ELSE Front(@)]

CtrlC(s) ==
  IF Len(s.text) >= WIN_TEXT_BUF - 6 THEN s
  ELSE [text |-> s.text \o <<"other", "other", "nl">> \o PROMPT, typed |-> <<>>, fresh |-> TRUE]

Type(s, c) ==
  IF Len(s.text) >= WIN_TEXT_BUF - 2 THEN s
  ELSE [s EXCEPT !.text = Append(@, c), !.typed = Append(@, c)]

render_terminal(s, key, out) ==
  CASE key = "none"      -> s
    [] key = "enter"     -> Enter(s, out)
    [] key = "backspace" -> Backspace(s)
    [] key = "ctrl-c"    -> CtrlC(s)
    [] OTHER             -> Type(s, key)

\* Text and terminating zero always fit the buffer, and it is never empty, so
\* that there is a last character to start the search for a command from.  And
\* unless output left a line unfinished, or the buffer had no room for a new
\* prompt, the command that Enter runs is what was typed and not erased.
TerminalInOrder(s) ==
  /\ Len(s.text) \in 1..WIN_TEXT_BUF - 1
  /\ s.fresh => term_get_cmd(s.text) = Command(s.typed)

------------------------------------------------------------------------------
\* The notepad's text, by its length.

render_text_app(len, key) ==
  CASE key = "none" -> len
    [] key = "backspace" -> IF len > 0 THEN len - 1 ELSE 0
    [] OTHER -> IF len < WIN_TEXT_BUF - 2 THEN len + 1 ELSE len

==============================================================================
