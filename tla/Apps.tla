--------------------------------- MODULE Apps ----------------------------------
(***************************************************************************)
(* A program of the desktop in its open window: render_app of kernel/gui/  *)
(* gui_desktop.c, once a frame, with the click and the key that the frame  *)
(* brings.  Keys reach snake, tetris and the terminal only in the active   *)
(* window, so a frame without a key stands for an inactive window, too;    *)
(* the notepad takes keys in any window.  Programs share nothing but the   *)
(* keyboard, so one window stands for all.  Those that only show something *)
(* have no state and are left out.  The two editors of the text screen run *)
(* in the same way, alone and by keys and command lines, and so does the   *)
(* line that the shell reads.                                              *)
(***************************************************************************)
EXTENDS Arcade, Parlor, TerminalText, Editors, LineEdit

CONSTANTS
  FrameTicks,   \* the milliseconds of a frame
  Pointer,      \* the positions of the pointer in the window, in pixels
  CalcButtons,  \* the buttons pressed: 0..9, C is 10, = is 11, then + - * /
  MaxCredits,   \* bound: a player who has as much stops
  Files,        \* the files that an editor may open
  Texts,        \* the lines that Writer is given
  Room,         \* the bytes that the disk may still take; -1: it opens no file
  MaxEntered    \* bound: lines entered

ASSUME FrameAssumption ==
  /\ MaxEntered \in Nat
  /\ FrameTicks \subseteq Nat \ 0..31 /\ Pointer \subseteq Int /\ CalcButtons \subseteq 0..15
  /\ Files \subseteq Seq(Chars \cup {"nl"}) /\ Texts \subseteq Seq(Chars)
  /\ Room \subseteq Nat \cup {-1}

VARIABLES app, st   \* the program of the window, and its AppState
vars == <<app, st>>

Snake ==
  /\ app = "snake"
  /\ \E key \in Arrows, click \in BOOLEAN, n \in 0..SN_SIZE - 1 :
       st' = render_snake(st, key, click, n)
  /\ UNCHANGED app

Tetris ==
  /\ app = "tetris"
  /\ \E key \in Arrows, click \in BOOLEAN, p \in TET_PIECES :
       st' = render_tetris(st, key, click, p)
  /\ UNCHANGED app

Breakout ==
  /\ app = "breakout"
  /\ \E mx \in Pointer, click \in BOOLEAN : st' = render_breakout(st, mx, click)
  /\ UNCHANGED app

Pong ==
  /\ app = "pong"
  /\ \E my \in Pointer : st' = render_pong(st, my)
  /\ UNCHANGED app

Minesweeper ==
  /\ app = "minesweeper"
  /\ \E field \in Fields \cup {NOWHERE}, mines \in Minefields :
       st' = render_minesweeper(st, TRUE, field, mines)
  /\ UNCHANGED app

TicTacToe ==
  /\ app = "tictactoe"
  /\ \E square \in Squares \cup {NOWHERE} : st' = render_tictactoe(st, TRUE, square)
  /\ UNCHANGED app

Slots ==
  /\ app = "slots"
  /\ \E click \in BOOLEAN, n \in 0..N_SLOT_SYMS - 1, t \in FrameTicks :
       st' = render_slots(st, click /\ st.credits < MaxCredits, n, t)
  /\ UNCHANGED app

Calculator ==
  /\ app = "calculator" /\ ~st.halted
  /\ \E button \in CalcButtons : st' = calc_press(st, button)
  /\ UNCHANGED app

FileManager ==
  /\ app = "fileman"
  /\ \E refresh, is_exec \in BOOLEAN, row \in -1..FM_MAX - 1, files \in 0..FM_MAX, t \in FrameTicks :
       st' = render_fileman(st, refresh, row, is_exec, files, t)
  /\ UNCHANGED app

Terminal ==
  /\ app = "terminal"
  /\ \E key \in Typed \cup {"none", "enter", "backspace", "ctrl-c"}, out \in Outputs :
       st' = render_terminal(st, key, out)
  /\ UNCHANGED app

Notepad ==
  /\ app = "notepad"
  /\ \E key \in {"none", "backspace", "other"} : st' = render_text_app(st, key)
  /\ UNCHANGED app

\* Bound: the editor is not followed once a joined line overruns its row.
Ed ==
  /\ app = "ed" /\ ~st.overrun
  /\ \E c \in Chars, room \in Room :
       \E key \in Chars \cup Cursor \cup DOMAIN Letters \cup EdCommands \cup EdColons
                 \cup {"esc", "enter", "backspace", "d", "y"} :
         st' = builtin_ed(st, key, c, room)
  /\ UNCHANGED app

Writer ==
  /\ app = "writer" /\ st.running
  /\ \E cmd \in {"a", "d", "r", "s", "q"}, n \in 0..MAX_LINES + 1, text \in Texts, room \in Room :
       st' = writer_main(st, cmd, n, text, room)
  /\ UNCHANGED app

CommandLine ==
  /\ app = "line"
  /\ \E key \in LineKeys : (key = "enter" => Len(st.entered) < MaxEntered) /\ st' = readline(st, key)
  /\ UNCHANGED app

\* open_window, and what the first frame makes of it.  Bound: ed is followed on
\* files of no more lines than its buffer has.
Init ==
  \/ app = "snake" /\ st = SnakeOpened
  \/ app = "tetris" /\ st = TetrisOpened
  \/ app = "breakout" /\ st = brk_init
  \/ app = "pong" /\ st = PongOpened
  \/ app = "minesweeper" /\ \E mines \in Minefields : st = ms_init(mines)
  \/ app = "tictactoe" /\ st = TicTacToeNew
  \/ app = "slots" /\ st = SlotsOpened
  \/ app = "calculator" /\ st = CalcNew
  \/ app = "fileman" /\ st = FilesOpened
  \/ app = "terminal" /\ st = TerminalOpened
  \/ app = "notepad" /\ st = 2
  \/ app = "ed" /\ \E file \in Files : /\ Len(ReadLines(file, ED_LINE_LEN)) <= ED_MAX_LINES
                                      /\ st = EdOpened(file)
  \/ app = "line" /\ st = LineNew
  \/ app = "writer" /\ \E file \in Files : st = WriterOpened(file)

Next ==
  \/ Snake \/ Tetris \/ Breakout \/ Pong
  \/ Minesweeper \/ TicTacToe \/ Slots \/ Calculator \/ FileManager
  \/ Terminal \/ Notepad \/ Ed \/ Writer \/ CommandLine

Spec == Init /\ [][Next]_vars

------------------------------------------------------------------------------
\* Properties.

\* gui_desktop.c:1246-1807.  However keys, clicks and frames come, a snake is one
\* line of cells that no key can turn into itself, a falling piece overlaps
\* nothing and no full row stays, ball and paddles keep to their fields,
\* breakout's score is what has been shot down, minesweeper and tic tac toe keep
\* their mines and turns and are over exactly when their boards say so, and no
\* stake is uncovered.
GamesInOrder ==
  /\ app = "snake" => SnakeInOrder(st)
  /\ app = "tetris" => TetrisInOrder(st)
  /\ app = "breakout" => BreakoutInOrder(st)
  /\ app = "pong" => PongInOrder(st)
  /\ app = "minesweeper" => MinesInOrder(st)
  /\ app = "tictactoe" => TicTacToeInOrder(st)
  /\ app = "slots" => SlotsInOrder(st)

\* gui_desktop.c:677-758, 979-1078, 1837-1958.  The display shows the number that
\* the calculator goes on with, the selected row is one that is listed, the text
\* of a terminal or notepad always fits its window's buffer, and Enter runs what
\* was typed.
ToolsInOrder ==
  /\ app = "calculator" => CalcInOrder(st)
  /\ app = "fileman" => FilesInOrder(st)
  /\ app = "terminal" => TerminalInOrder(st)
  /\ app = "notepad" => st \in 0..WIN_TEXT_BUF - 1

\* shell.c:201-393, 986-1284, writer.c:30-180.  Cursor and lines stay within the
\* buffers, the history brings back what was entered, in its order, and a text
\* that ed counts as unmodified, or that Writer has saved, is what the file brings
\* back, unless the disk could not take it.
EditorsInOrder ==
  /\ app = "ed" => EdInOrder(st)
  /\ app = "writer" => WriterInOrder(st)
  /\ app = "line" => LineInOrder(st)

\* shell.c:1138 tells the user to leave ed by :q! or :wq.  Violated: ed_colon's
\* *quit = true sets what keeps the loop going.
EdQuits == app = "ed" /\ st.asked => ~st.running

==============================================================================
