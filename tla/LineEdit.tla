-------------------------------- MODULE LineEdit -------------------------------
(***************************************************************************)
(* The line that the shell reads: readline and the history of              *)
(* shell/shell.c, as a function from a state and a key to the state after, *)
(* with what shell_main does to a line that is entered.                    *)
(***************************************************************************)
EXTENDS Integers, Sequences, SequencesExt, TLC

CONSTANTS
  SHELL_MAX_HISTORY,   \* 128 in the code
  SHELL_MAX_LINE,      \* 1024
  LineChars            \* what is typed; "sp" is the space

ASSUME LineEditAssumption == SHELL_MAX_HISTORY \in Nat \ {0} /\ SHELL_MAX_LINE \in Nat \ {0}

\* history is the ring, history_count what was ever added and history_pos what
\* Up and Down move.  entered and recalled are the reader's: all that was added,
\* and whether the line is as Up or Down has brought it.
LineNew ==
  [buf |-> <<>>, cursor |-> 0, history |-> [i \in 0..SHELL_MAX_HISTORY - 1 |-> <<>>],
   history_count |-> 0, history_pos |-> 0, entered |-> <<>>, recalled |-> FALSE]

Slot(i) == i % SHELL_MAX_HISTORY

history_add(s, line) ==
  IF line = <<>> \/ (s.history_count > 0 /\ s.history[Slot(s.history_count - 1)] = line) THEN s
  ELSE [s EXCEPT !.history[Slot(s.history_count)] = line, !.history_count = @ + 1,
                 !.entered = Append(@, line)]

Recalled(s, line, pos) ==
  [s EXCEPT !.buf = line, !.cursor = Len(line), !.history_pos = pos, !.recalled = TRUE]

history_prev(s) ==
  IF s.history_pos <= 0 THEN s
  ELSE Recalled(s, s.history[Slot(s.history_pos - 1)], s.history_pos - 1)

\* Below the newest line there is an empty one.
history_next(s) ==
  LET pos == IF s.history_pos < s.history_count THEN s.history_pos + 1 ELSE s.history_pos
  IN  Recalled(s, IF pos < s.history_count THEN s.history[Slot(pos)] ELSE <<>>, pos)

Insert(s, c) ==
  IF Len(s.buf) >= SHELL_MAX_LINE - 1 THEN s
  ELSE [s EXCEPT !.buf = InsertAt(@, s.cursor + 1, c), !.cursor = @ + 1]

DeleteAt(s, i) == [s EXCEPT !.buf = RemoveAt(@, i + 1)]

Stripped(line) ==
  SubSeq(line, 1, SelectLastInSeq(line, LAMBDA c : c # "sp"))

\* The next call of readline starts below the newest line.
Reread(s) == [s EXCEPT !.buf = <<>>, !.cursor = 0, !.history_pos = s.history_count]

LineTravel(s, key) ==
  CASE key = "home" -> [s EXCEPT !.cursor = 0]
    [] key = "end" -> [s EXCEPT !.cursor = Len(s.buf)]
    [] key = "left" /\ s.cursor > 0 -> [s EXCEPT !.cursor = @ - 1]
    [] key = "right" /\ s.cursor < Len(s.buf) -> [s EXCEPT !.cursor = @ + 1]
    [] OTHER -> s

LineChange(s, key) ==
  CASE key = "ctrl-k" -> [s EXCEPT !.buf = SubSeq(@, 1, s.cursor)]
    [] key = "ctrl-u" -> [s EXCEPT !.buf = <<>>, !.cursor = 0]
    [] key = "backspace" /\ s.cursor > 0 -> [DeleteAt(s, s.cursor - 1) EXCEPT !.cursor = @ - 1]
    [] key = "delete" /\ s.cursor < Len(s.buf) -> DeleteAt(s, s.cursor)
    [] key \in LineChars -> Insert(s, key)
    [] OTHER -> LineTravel(s, key)

KeyRead(s, key) ==
  CASE key = "enter" -> Reread(history_add(s, Stripped(s.buf)))
    [] key \in {"ctrl-c", "ctrl-l"} -> Reread(s)
    [] key = "up" -> history_prev(s)
    [] key = "down" -> history_next(s)
    [] OTHER -> LineChange(s, key)

readline(s, key) == KeyRead([s EXCEPT !.recalled = FALSE], key)

LineKeys ==
  LineChars \cup {"enter", "ctrl-c", "home", "end", "left", "right", "ctrl-k", "ctrl-u",
                  "backspace", "delete", "up", "down"}

\* The cursor is in the line, the line fits its buffer, and what Up and Down bring
\* is the line that was entered so long ago, as far back as the ring holds.
LineInOrder(s) ==
  /\ Len(s.buf) < SHELL_MAX_LINE /\ s.cursor \in 0..Len(s.buf)
  /\ s.recalled /\ s.history_count - s.history_pos \in 1..SHELL_MAX_HISTORY
       => s.buf = s.entered[s.history_pos + 1]
  /\ \A i \in 1..Len(s.entered) - 1 : s.entered[i] # s.entered[i + 1]

==============================================================================
