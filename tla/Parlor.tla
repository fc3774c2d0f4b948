-------------------------------- MODULE Parlor ---------------------------------
(***************************************************************************)
(* The programs of the desktop that only answer clicks (kernel/gui/        *)
(* gui_desktop.c): minesweeper, tic tac toe, slots, the calculator and the *)
(* file manager, each as a function from its state and a frame's click to  *)
(* its state after the frame.  A click has been turned into the cell or    *)
(* the button it meets; the quotients of the code round towards zero, so a *)
(* click just left of or above a board counts as in its first cells.       *)
(***************************************************************************)
EXTENDS Integers, FiniteSets

CONSTANTS
  MS_SIZE, MS_MINES,   \* MS_COLS and MS_ROWS, 9 in the code, with 10 mines
  SLOT_CREDITS,        \* what a player starts with, 100
  CALC_BITS,           \* the width of the calculator's numbers, 32
  FM_MAX               \* what the file manager can list, 32

ASSUME ParlorAssumption ==
  /\ MS_SIZE \in Nat \ {0} /\ MS_MINES \in 1..MS_SIZE * MS_SIZE - 1
  /\ SLOT_CREDITS \in Nat /\ CALC_BITS \in Nat \ 0..1 /\ FM_MAX \in Nat

NOWHERE == -1   \* a click beside the board, or no click

------------------------------------------------------------------------------
\* Minesweeper.

Fields == 0..MS_SIZE * MS_SIZE - 1

\* The generator's sequence may lead to any choice of mines.
Minefields == {mines \in SUBSET Fields : Cardinality(mines) = MS_MINES}

ms_init(mines) == [mines |-> mines, open |-> {}, dead |-> FALSE, won |-> FALSE]

Reveal(s, field) ==
  LET open == s.open \cup {field}
  IN  IF field \in s.open THEN s
      ELSE [s EXCEPT !.open = open,
                     !.dead = field \in s.mines,
                     !.won = /\ field \notin s.mines
                             /\ Cardinality(open \ s.mines) = MS_SIZE * MS_SIZE - MS_MINES]

\* The click that ends a game also starts the next one.
render_minesweeper(s, click, field, mines) ==
  LET t == IF click /\ ~s.dead /\ ~s.won /\ field # NOWHERE THEN Reveal(s, field) ELSE s
  IN  IF click /\ (t.dead \/ t.won) THEN ms_init(mines) ELSE t

\* Every board holds its mines, a game is lost exactly when one of them is
\* uncovered, and won exactly when all the rest is and no mine.
MinesInOrder(s) ==
  /\ Cardinality(s.mines) = MS_MINES
  /\ s.dead <=> s.open \cap s.mines # {}
  /\ s.won <=> s.open = Fields \ s.mines

------------------------------------------------------------------------------
\* Tic tac toe: 0 free, 1 the user's X, 2 the machine's O.

Squares == 0..8
Lines == {{0,1,2}, {3,4,5}, {6,7,8}, {0,3,6}, {1,4,7}, {2,5,8}, {0,4,8}, {2,4,6}}
Free(b) == {i \in Squares : b[i] = 0}

ttt_check(b, p) == \E line \in Lines : \A i \in line : b[i] = p

\* The first turn of its loop puts an O on the first free square and returns,
\* won or not: it reaches neither the block nor the middle.
ttt_ai(b) ==
  IF Free(b) = {} THEN b
  ELSE [b EXCEPT ![CHOOSE i \in Free(b) : \A j \in Free(b) : i <= j] = 2]

TicTacToeNew == [board |-> [i \in Squares |-> 0], done |-> 0]

Reply(b) ==
  LET c == ttt_ai(b)
  IN  [board |-> c,
       done |-> IF ttt_check(c, 2) THEN 2 ELSE IF Free(c) = {} THEN 3 ELSE 0]

render_tictactoe(s, click, square) ==
  LET b == [s.board EXCEPT ![square] = 1]
      t == IF ~click \/ s.done # 0 \/ square \notin Free(s.board) THEN s
           ELSE IF ttt_check(b, 1) THEN [board |-> b, done |-> 1]
           ELSE Reply(b)
  IN  IF click /\ t.done # 0 THEN TicTacToeNew ELSE t

Marks(b, p) == {i \in Squares : b[i] = p}

\* The game is over exactly when somebody has a line or no square is free, and
\* whoever made the last move, nobody has moved twice in a row: the user is one
\* ahead only where the user's mark was the last.
TicTacToeInOrder(s) ==
  /\ s.done = 1 <=> ttt_check(s.board, 1)
  /\ s.done = 2 <=> ttt_check(s.board, 2)
  /\ s.done # 0 <=> ttt_check(s.board, 1) \/ ttt_check(s.board, 2) \/ Free(s.board) = {}
  /\ Cardinality(Marks(s.board, 1)) =
       Cardinality(Marks(s.board, 2)) + IF s.done \in {1, 3} THEN 1 ELSE 0

------------------------------------------------------------------------------
\* Slots.  n is the time of the frame, of which only the remainder by
\* N_SLOT_SYMS shows; age is the time since the spin.

N_SLOT_SYMS == 5
Reel(i, n) == (n * (i + 3) + i * 17) % N_SLOT_SYMS

SlotsOpened == [reels |-> <<0, 0, 0>>, spinning |-> FALSE, age |-> 0, credits |-> SLOT_CREDITS]

Pay(r) == IF r[1] = r[2] /\ r[2] = r[3] THEN 50
          ELSE IF r[1] = r[2] \/ r[2] = r[3] THEN 5 ELSE -2

Stop(s, n) ==
  LET r == [i \in 1..3 |-> Reel(i - 1, n)]
  IN  [s EXCEPT !.reels = r, !.spinning = FALSE, !.age = 0, !.credits = @ + Pay(r)]

Spin(s) == IF s.spinning \/ s.credits < 2 THEN s ELSE [s EXCEPT !.spinning = TRUE, !.age = 0]

render_slots(s, click, n, elapsed) ==
  LET aged == IF s.spinning THEN [s EXCEPT !.age = @ + elapsed] ELSE s
      t == IF ~aged.spinning THEN aged
           ELSE IF aged.age > 40 THEN Stop(aged, n)
           ELSE [aged EXCEPT !.reels = [i \in 1..3 |-> (n + (i - 1) * 13) % N_SLOT_SYMS]]
  IN  IF click THEN Spin(t) ELSE t

\* Nobody is ever in debt: the stake of a spin stays covered until it is paid.
SlotsInOrder(s) == s.credits >= 0 /\ (s.spinning => s.credits >= 2)

------------------------------------------------------------------------------
\* The calculator.  Its numbers wrap round at CALC_BITS bits.

Half == 2 ^ (CALC_BITS - 1)
Wrap(n) == ((n + Half) % (2 * Half)) - Half

\* Division rounds towards zero.
Quotient(a, b) ==
  LET q == (IF a < 0 THEN -a ELSE a) \div (IF b < 0 THEN -b ELSE b)
  IN  IF (a < 0) = (b < 0) THEN q ELSE -q

\* The one quotient that does not fit stops the processor.
Traps(s) == s.op = "/" /\ s.accum = -Half /\ s.val = -1

Apply(op, a, b) ==
  CASE op = "+" -> Wrap(a + b)
    [] op = "-" -> Wrap(a - b)
    [] op = "*" -> Wrap(a * b)
    [] op = "/" -> IF b = 0 THEN a ELSE Quotient(a, b)
    [] OTHER -> b

CalcNew == [val |-> 0, accum |-> 0, op |-> "none", new |-> TRUE, disp |-> 0, halted |-> FALSE]

Digit(s, d) ==
  LET v == IF s.new THEN d ELSE Wrap(s.val * 10 + d)
  IN  [s EXCEPT !.val = v, !.disp = v, !.new = FALSE]

\* What a division by zero writes to the display is overwritten at once.
Equals(s) ==
  LET a == Apply(s.op, s.accum, s.val)
  IN  [s EXCEPT !.accum = a, !.disp = a, !.val = a, !.new = TRUE, !.op = "none"]

Operator(s, op) ==
  LET a == Apply(s.op, s.accum, s.val)
  IN  [s EXCEPT !.accum = a, !.disp = IF s.op = "none" THEN @ ELSE a, !.op = op, !.new = TRUE]

calc_press(s, button) ==
  CASE button \in 0..9 -> Digit(s, button)
    [] button = 10 -> CalcNew
    [] button \in 11..15 /\ Traps(s) -> [s EXCEPT !.halted = TRUE]
    [] button = 11 -> Equals(s)
    [] OTHER -> Operator(s, <<"+", "-", "*", "/">>[button - 11])

\* The display always shows the number that the next button works on.
CalcInOrder(s) == s.disp = IF s.new THEN s.accum ELSE s.val

------------------------------------------------------------------------------
\* The file manager: how many files it has listed, -1 for not yet; the row
\* selected, -1 for none; and how long ago that row was clicked.

FM_DBLCLICK_MS == 40
FilesOpened == [count |-> -1, sel |-> 0, since |-> 0]

Listed(s, files) == IF s.count >= 0 THEN s ELSE [count |-> files, sel |-> -1, since |-> s.since]

Refresh(s) == [s EXCEPT !.count = -1, !.sel = -1]

\* The second click on a row runs it if it is a program.
ClickRow(s, row, is_exec) ==
  IF s.sel = row /\ s.since < FM_DBLCLICK_MS
  THEN [count |-> IF is_exec THEN -1 ELSE s.count, sel |-> -1, since |-> 0]
  ELSE [s EXCEPT !.sel = row, !.since = 0]

render_fileman(s, refresh, row, is_exec, files, elapsed) ==
  LET aged == [s EXCEPT !.since = IF @ < FM_DBLCLICK_MS THEN @ + elapsed ELSE @]
      t == Listed(IF refresh THEN Refresh(aged) ELSE aged, files)
  IN  IF row \in 0..t.count - 1 THEN ClickRow(t, row, is_exec) ELSE t

FilesInOrder(s) == s.count \in -1..FM_MAX /\ (s.count >= 0 => s.sel \in -1..s.count - 1)

==============================================================================
