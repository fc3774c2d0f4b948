-------------------------------- MODULE Editors --------------------------------
(***************************************************************************)
(* The two editors that run on the text screen: ed, built into the shell   *)
(* (shell/shell.c), and the program Writer (apps/writer/writer.c), each as *)
(* a function from its state and a key, or a command, to its state after.  *)
(* A line is a sequence of characters, a file one of characters and "nl".  *)
(* room is how many bytes the disk still takes: what a save cannot write   *)
(* is lost and nothing notices.                                            *)
(***************************************************************************)
EXTENDS Integers, Sequences, SequencesExt, TLC

CONSTANTS
  ED_MAX_LINES, ED_LINE_LEN,          \* 512 and 256 in the code
  MAX_LINES, LINE_LEN, LOAD_BUF,      \* 96, 128 and 4096
  Chars                               \* what is typed into a line

ASSUME EditorAssumption ==
  /\ ED_MAX_LINES \in Nat \ 0..1 /\ ED_LINE_LEN \in Nat \ 0..1
  /\ MAX_LINES \in Nat \ {0} /\ LINE_LEN \in Nat \ {0} /\ LOAD_BUF \in Nat \ {0}
  /\ "nl" \notin Chars

Shorter(s, n) == SubSeq(s, 1, IF Len(s) < n THEN Len(s) ELSE n)

\* What the disk keeps of lines that are written one after the other.
Bytes(lines) ==
  LET first[n \in 0..Len(lines)] ==
        IF n = 0 THEN <<>> ELSE first[n - 1] \o lines[n] \o <<"nl">>
  IN  first[Len(lines)]

Take(p, c, line_len) ==
  IF c = "nl" THEN [done |-> Append(p.done, p.cur), cur |-> <<>>]
  ELSE [done |-> p.done, cur |-> Shorter(Append(p.cur, c), line_len - 1)]

\* The lines of a file as a reader sees them who drops what a line cannot hold;
\* the last one counts without its newline, too, unless it is empty.
ReadLines(bytes, line_len) ==
  LET read[n \in 0..Len(bytes)] ==
        IF n = 0 THEN [done |-> <<>>, cur |-> <<>>] ELSE Take(read[n - 1], bytes[n], line_len)
      p == read[Len(bytes)]
  IN  IF p.cur = <<>> THEN p.done ELSE Append(p.done, p.cur)

------------------------------------------------------------------------------
\* ed.  Rows and columns count from 0.

ed_load(file) ==
  IF ReadLines(file, ED_LINE_LEN) = <<>> THEN <<<<>>>> ELSE ReadLines(file, ED_LINE_LEN)

\* cut, asked and overrun are the reader's: a save did not get all of the file
\* onto the disk; the last key asked to leave the editor; a line was joined that
\* its row of the buffer cannot hold.
EdOpened(file) ==
  [lines |-> ed_load(file), row |-> 0, col |-> 0, modified |-> FALSE, insert |-> FALSE,
   pd |-> FALSE, py |-> FALSE, yank |-> <<>>, yank_ok |-> FALSE, file |-> file,
   cut |-> FALSE, asked |-> FALSE, running |-> TRUE, overrun |-> FALSE]

Line(s) == s.lines[s.row + 1]
WithLine(s, line) == [s EXCEPT !.lines[s.row + 1] = line, !.modified = TRUE]
AtCol(s, col) == [s EXCEPT !.col = col]

ed_ins(s, c) ==
  IF Len(Line(s)) >= ED_LINE_LEN - 1 THEN s
  ELSE AtCol(WithLine(s, InsertAt(Line(s), s.col + 1, c)), s.col + 1)

ed_delch(s) == IF s.col >= Len(Line(s)) THEN s ELSE WithLine(s, RemoveAt(Line(s), s.col + 1))

ed_delline(s) ==
  LET rest == RemoveAt(s.lines, s.row + 1)
  IN  [s EXCEPT !.lines = IF rest = <<>> THEN <<<<>>>> ELSE rest,
                !.row = IF @ >= Len(rest) /\ rest # <<>> THEN Len(rest) - 1 ELSE @,
                !.col = 0, !.modified = TRUE, !.yank = Line(s), !.yank_ok = TRUE]

\* The row below which no line is ever added is the last but one.
NoRoom(s) == Len(s.lines) >= ED_MAX_LINES - 1

AddLine(s, row, line) ==
  IF NoRoom(s) THEN s
  ELSE [s EXCEPT !.lines = InsertAt(@, row + 1, line), !.row = row, !.col = 0, !.modified = TRUE]

ed_split(s) ==
  IF NoRoom(s) THEN s
  ELSE AddLine(WithLine(s, Shorter(Line(s), s.col)), s.row + 1,
               SubSeq(Line(s), s.col + 1, Len(Line(s))))

Joined(s) ==
  LET above == s.lines[s.row]
      line == above \o Line(s)
  IN  IF Len(line) >= ED_LINE_LEN THEN [s EXCEPT !.overrun = TRUE]
      ELSE [s EXCEPT !.lines = RemoveAt([@ EXCEPT ![s.row] = line], s.row + 1),
                     !.row = @ - 1, !.col = Len(above), !.modified = TRUE]

\* Mutant: the column is kept in a shorter line.
ed_no_clamp(s) == s

ed_clamp(s) == IF s.col > Len(Line(s)) THEN AtCol(s, Len(Line(s))) ELSE s

Travel(s, key) ==
  CASE key = "up" /\ s.row > 0                  -> ed_clamp([s EXCEPT !.row = @ - 1])
    [] key = "down" /\ s.row < Len(s.lines) - 1 -> ed_clamp([s EXCEPT !.row = @ + 1])
    [] key = "left" /\ s.col > 0                -> AtCol(s, s.col - 1)
    [] key = "right" /\ s.col < Len(Line(s))    -> AtCol(s, s.col + 1)
    [] key = "home"                             -> AtCol(s, 0)
    [] key = "end"                              -> AtCol(s, Len(Line(s)))
    [] OTHER -> s
Cursor == {"up", "down", "left", "right", "home", "end"}
Letters == [h |-> "left", j |-> "down", k |-> "up", l |-> "right"] @@ ("0" :> "home")

ed_save(s, room) ==
  LET bytes == Bytes(s.lines)
  IN  IF room < 0 THEN s   \* the file cannot be opened
      ELSE [s EXCEPT !.file = Shorter(bytes, room), !.cut = room < Len(bytes), !.modified = FALSE]

\* The editor's loop goes on while running is true, and that is what it has
\* ed_colon set to true.
Quit(s) == [s EXCEPT !.running = TRUE, !.asked = TRUE]

ed_colon(s, arg, room) ==
  CASE arg = "w"                  -> ed_save(s, room)
    [] arg = "q" /\ ~s.modified   -> Quit(s)
    [] arg = "wq"                 -> Quit(ed_save(s, room))
    [] arg = "q!"                 -> Quit(s)
    [] arg = "1"                  -> [s EXCEPT !.row = 0, !.col = 0]
    [] arg = "9"                  -> [s EXCEPT !.row = Len(s.lines) - 1, !.col = 0]
    [] OTHER -> s

Inserting(s, key) ==
  CASE key = "esc" -> [s EXCEPT !.insert = FALSE, !.col = IF @ > 0 THEN @ - 1 ELSE 0]
    [] key = "backspace" /\ s.col > 0 -> ed_delch(AtCol(s, s.col - 1))
    [] key = "backspace" /\ s.col = 0 /\ s.row > 0 -> Joined(s)
    [] key = "enter" -> ed_split(s)
    [] key \in Chars -> ed_ins(s, key)
    [] OTHER -> Travel(s, key)

\* A second d or y in a row; arrows and escape come between them unnoticed.
Doubled(s, key) ==
  CASE key = "d" /\ s.pd  -> [ed_delline(s) EXCEPT !.pd = FALSE, !.py = FALSE]
    [] key = "d" /\ ~s.pd -> [s EXCEPT !.pd = TRUE, !.py = FALSE]
    [] key = "y" /\ s.py  -> [s EXCEPT !.yank = Line(s), !.yank_ok = TRUE, !.py = FALSE]
    [] key = "y" /\ ~s.py -> [s EXCEPT !.py = TRUE, !.pd = FALSE]

Ins(s) == [s EXCEPT !.insert = TRUE]

Normal(s, key, c) ==
  CASE key = "i" -> Ins(s)
    [] key = "I" -> Ins(AtCol(s, 0))
    [] key = "a" -> Ins(Travel(s, "right"))
    [] key = "A" -> Ins(Travel(s, "end"))
    [] key = "o" -> Ins(AddLine(s, s.row + 1, <<>>))
    [] key = "O" /\ ~NoRoom(s) -> Ins(AddLine(s, s.row, <<>>))
    [] key \in {"x", "delete"} -> [ed_delch(s) EXCEPT !.modified = TRUE]
    [] key = "D" -> WithLine(s, Shorter(Line(s), s.col))
    [] key = "p" /\ s.yank_ok -> AddLine(s, s.row + 1, s.yank)
    [] key = "G" -> [s EXCEPT !.row = Len(s.lines) - 1, !.col = 0]
    [] key = "g" -> [s EXCEPT !.row = 0, !.col = 0]
    [] key = "$" -> AtCol(s, IF Line(s) = <<>> THEN 0 ELSE Len(Line(s)) - 1)
    [] key = "r" /\ s.col < Len(Line(s)) -> WithLine(s, [Line(s) EXCEPT ![s.col + 1] = c])
    [] OTHER -> s
EdCommands == {"i", "I", "a", "A", "o", "O", "x", "delete", "D", "p", "G", "g", "$", "r"}
EdColons == {"w", "q", "wq", "q!", "1", "9"}

\* One key of builtin_ed, with the whole line that follows a colon and the key
\* that follows an r.
builtin_ed(s, key, c, room) ==
  LET t == [s EXCEPT !.asked = FALSE]
      calm == [t EXCEPT !.pd = FALSE, !.py = FALSE]
  IN  CASE s.insert -> Inserting(t, key)
        [] ~s.insert /\ key \in {"d", "y"}  -> Doubled(t, key)
        [] ~s.insert /\ key \in EdColons    -> ed_colon(calm, key, room)
        [] ~s.insert /\ key = "delete"      -> Normal(t, key, c)
        [] ~s.insert /\ key \in Cursor      -> Travel(t, key)
        [] ~s.insert /\ key \in DOMAIN Letters -> Travel(calm, Letters[key])
        [] ~s.insert /\ key \in EdCommands \ {"delete"} -> Normal(calm, key, c)
        [] OTHER -> t

\* The cursor is in the text, every line fits its row, and unless the disk was
\* too full, a text that counts as unmodified, which :q may drop, is what the
\* file brings back when it is opened again.
EdInOrder(s) ==
  /\ Len(s.lines) \in 1..ED_MAX_LINES /\ s.row \in 0..Len(s.lines) - 1
  /\ s.col \in 0..Len(Line(s))
  /\ \A i \in DOMAIN s.lines : Len(s.lines[i]) < ED_LINE_LEN
  /\ ~s.modified /\ ~s.cut => ed_load(s.file) = s.lines

------------------------------------------------------------------------------
\* Writer.

\* Only what the buffer holds of the file is read.
load_file(file) == Shorter(ReadLines(Shorter(file, LOAD_BUF - 1), LINE_LEN), MAX_LINES)

\* saved and cut are the reader's: the lines that were last saved or loaded, and
\* whether the disk or the next load has no room for all of them.
WriterOpened(file) ==
  [lines |-> load_file(file), file |-> file, saved |-> load_file(file),
   cut |-> FALSE, running |-> TRUE]

line_copy(text) == Shorter(text, LINE_LEN - 1)

save_file(s, room) ==
  LET bytes == Bytes(s.lines)
  IN  IF room < 0 THEN s
      ELSE [s EXCEPT !.file = Shorter(bytes, room), !.saved = s.lines,
                     !.cut = room < Len(bytes) \/ Len(bytes) >= LOAD_BUF]

\* One turn of main's loop; n is a line's number, from 1.
writer_main(s, cmd, n, text, room) ==
  CASE cmd = "a" /\ Len(s.lines) < MAX_LINES -> [s EXCEPT !.lines = Append(@, line_copy(text))]
    [] cmd = "d" /\ n \in DOMAIN s.lines     -> [s EXCEPT !.lines = RemoveAt(@, n)]
    [] cmd = "r" /\ n \in DOMAIN s.lines     -> [s EXCEPT !.lines[n] = line_copy(text)]
    [] cmd = "s"                             -> save_file(s, room)
    [] cmd = "q"                             -> [s EXCEPT !.running = FALSE]
    [] OTHER -> s

\* The lines fit the table, and what was saved comes back when it is loaded.
WriterInOrder(s) ==
  /\ Len(s.lines) <= MAX_LINES
  /\ \A i \in DOMAIN s.lines : Len(s.lines[i]) < LINE_LEN
  /\ ~s.cut => load_file(s.file) = s.saved

==============================================================================
