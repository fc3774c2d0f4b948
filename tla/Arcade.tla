-------------------------------- MODULE Arcade ---------------------------------
(***************************************************************************)
(* The games of the desktop that move by themselves (kernel/gui/           *)
(* gui_desktop.c): snake, tetris, breakout and pong, each as a function    *)
(* from its state and a frame's input to its state after the frame.  A     *)
(* frame takes at least 32 ms, so the games' own thresholds of 2 to 30 ms  *)
(* have always passed.  Drawing is left out, with what only drawing reads. *)
(***************************************************************************)
EXTENDS Integers, Sequences, FiniteSets, SequencesExt

CONSTANTS
  SN_SIZE,                  \* SN_COLS and SN_ROWS, 18 in the code
  SN_MAX,                   \* the longest snake, 62
  TET_ROWS, TET_COLS,       \* 20 and 10
  TET_PIECES,               \* the kinds of pieces that come, 0..6
  BRK_ROWS, BRK_COLS,       \* 5 and 10
  BRK_W, BRK_H,             \* the client area of breakout's window
  PONG_W, PONG_H, PONG_PAD_H,
  PONG_BX, PONG_BY,         \* where the ball is put when the window opens, 100 and 80
  PONG_PY                   \* and the paddles, 60

ASSUME ArcadeAssumption ==
  /\ SN_SIZE \in Nat \ 0..4 /\ SN_MAX \in Nat \ 0..3
  /\ TET_ROWS \in Nat \ {0} /\ TET_COLS \in Nat \ 0..3 /\ TET_PIECES \subseteq 0..6
  /\ BRK_ROWS \in Nat /\ BRK_COLS \in Nat /\ BRK_W \in Nat \ 0..50 /\ BRK_H \in Nat \ 0..50
  /\ PONG_W \in Nat \ 0..30 /\ PONG_PAD_H \in Nat /\ PONG_H \in Nat \ 0..8
  /\ PONG_BX \in 10..PONG_W - 16 /\ PONG_BY \in 0..PONG_H - 5
  /\ PONG_PY \in 0..PONG_H - PONG_PAD_H

------------------------------------------------------------------------------
\* Snake.  A cell is <<x, y>>; the positions scale with the board.

Scaled(i) == (i * SN_SIZE) \div 18
ZERO == <<0, 0>>

\* open_window places the head only; the two other segments lie at (0, 0).
SnakeOpened ==
  [body |-> <<<<Scaled(10), Scaled(10)>>, ZERO, ZERO>>, dir |-> <<1, 0>>,
   food |-> <<Scaled(15), Scaled(8)>>, dead |-> FALSE]

snake_init ==
  LET m == Scaled(9)
  IN  [body |-> <<<<m, m>>, <<m - 1, m>>, <<m - 2, m>>>>, dir |-> <<1, 0>>,
       food |-> <<Scaled(14), Scaled(5)>>, dead |-> FALSE]

FoodAt(n) == <<(n * 7 + 13) % SN_SIZE, (n * 11 + 5) % SN_SIZE>>

\* Mutant: the snake may turn round on the spot.
SteerAnywhere(s, key) ==
  CASE key = "up"    -> [s EXCEPT !.dir = <<0, -1>>]
    [] key = "down"  -> [s EXCEPT !.dir = <<0, 1>>]
    [] key = "left"  -> [s EXCEPT !.dir = <<-1, 0>>]
    [] key = "right" -> [s EXCEPT !.dir = <<1, 0>>]
    [] OTHER -> s

Arrows == {"none", "up", "down", "left", "right"}

\* Only to a side, as seen from where it is going.
Steer(s, key) ==
  CASE key = "up" /\ s.dir[2] = 0    -> [s EXCEPT !.dir = <<0, -1>>]
    [] key = "down" /\ s.dir[2] = 0  -> [s EXCEPT !.dir = <<0, 1>>]
    [] key = "left" /\ s.dir[1] = 0  -> [s EXCEPT !.dir = <<-1, 0>>]
    [] key = "right" /\ s.dir[1] = 0 -> [s EXCEPT !.dir = <<1, 0>>]
    [] OTHER -> s

Ahead(s) == <<s.body[1][1] + s.dir[1], s.body[1][2] + s.dir[2]>>

\* A segment that grew lies at (0, 0) until the body moves up.
Crawl(s, n) ==
  LET head == Ahead(s)
      moved == <<head>> \o Front(s.body)
      off == head[1] \notin 0..SN_SIZE - 1 \/ head[2] \notin 0..SN_SIZE - 1
  IN  IF off \/ head \in Range(s.body) THEN [s EXCEPT !.dead = TRUE]
      ELSE IF head # s.food THEN [s EXCEPT !.body = moved]
      ELSE [s EXCEPT !.food = FoodAt(n),
                     !.body = IF Len(moved) < SN_MAX THEN Append(moved, ZERO) ELSE moved]

render_snake(s, key, click, n) ==
  LET t == Steer(s, key)
      u == IF click /\ t.dead THEN snake_init ELSE t
  IN  IF u.dead THEN u ELSE Crawl(u, n)

\* The body is one line of neighbouring cells that crosses itself nowhere, but
\* for segments that have not yet left (0, 0), and no key that the next frame
\* may bring turns the snake into its own neck.
SnakeInOrder(s) ==
  \E k \in 1..Len(s.body) :
    /\ k >= Len(s.body) - 2
    /\ \A i \in k + 1..Len(s.body) : s.body[i] = ZERO
    /\ \A i, j \in 1..k : s.body[i] = s.body[j] => i = j
    /\ \A i \in 1..k - 1 :
         LET dx == s.body[i][1] - s.body[i + 1][1]
             dy == s.body[i][2] - s.body[i + 1][2]
         IN  dx * dx + dy * dy = 1
    /\ ~s.dead /\ k >= 2 => \A key \in Arrows : Ahead(Steer(s, key)) # s.body[2]

------------------------------------------------------------------------------
\* Tetris.  The board is the set of its locked cells <<row, column>>.

\* Four cells, given by row and column in a box of four by four.
Cells(rows, cols) == {<<rows[i], cols[i]>> : i \in 1..4}

tet_shapes == [piece \in 0..6 |->
  CASE piece = 0 -> <<Cells(<<0,0,0,0>>, <<0,1,2,3>>), Cells(<<0,1,2,3>>, <<2,2,2,2>>),
                      Cells(<<2,2,2,2>>, <<0,1,2,3>>), Cells(<<0,1,2,3>>, <<1,1,1,1>>)>>
    [] piece = 1 -> [rot \in 1..4 |-> Cells(<<0,0,1,1>>, <<1,2,1,2>>)]
    [] piece = 2 -> <<Cells(<<0,1,1,1>>, <<1,0,1,2>>), Cells(<<0,1,1,2>>, <<1,1,2,1>>),
                      Cells(<<1,1,1,2>>, <<0,1,2,1>>), Cells(<<0,1,1,2>>, <<1,0,1,1>>)>>
    [] piece = 3 -> <<Cells(<<0,0,1,1>>, <<1,2,0,1>>), Cells(<<0,1,1,2>>, <<1,1,2,2>>),
                      Cells(<<1,1,2,2>>, <<1,2,0,1>>), Cells(<<0,1,1,2>>, <<0,0,1,1>>)>>
    [] piece = 4 -> <<Cells(<<0,0,1,1>>, <<0,1,1,2>>), Cells(<<0,1,1,2>>, <<2,1,2,1>>),
                      Cells(<<1,1,2,2>>, <<0,1,1,2>>), Cells(<<0,1,1,2>>, <<1,0,1,0>>)>>
    [] piece = 5 -> <<Cells(<<0,1,1,1>>, <<0,0,1,2>>), Cells(<<0,0,1,2>>, <<1,2,1,1>>),
                      Cells(<<1,1,1,2>>, <<0,1,2,2>>), Cells(<<0,1,2,2>>, <<1,1,0,1>>)>>
    [] OTHER     -> <<Cells(<<0,1,1,1>>, <<2,0,1,2>>), Cells(<<0,1,2,2>>, <<1,1,1,2>>),
                      Cells(<<1,1,1,2>>, <<0,1,2,0>>), Cells(<<0,0,1,2>>, <<0,1,1,1>>)>>]

\* The cells a piece covers; rows above the board are negative.
Covers(s) == {<<s.py + d[1], s.px + d[2]>> : d \in tet_shapes[s.piece][s.rot + 1]}

tet_valid(s) ==
  \A cell \in Covers(s) : /\ cell[2] \in 0..TET_COLS - 1 /\ cell[1] < TET_ROWS
                          /\ cell \notin s.board

Full(board) == {r \in 0..TET_ROWS - 1 : \A c \in 0..TET_COLS - 1 : <<r, c>> \in board}

\* Full rows go, and what lies above slides down.
Settle(board) ==
  {<<cell[1] + Cardinality({r \in Full(board) : r > cell[1]}), cell[2]>> :
     cell \in {d \in board : d[1] \notin Full(board)}}

\* What sticks out above the board is lost.
tet_lock(s) == Settle(s.board \cup {cell \in Covers(s) : cell[1] >= 0})

\* The code's column 3 on a board of ten columns.
Spawn(s, p) == [s EXCEPT !.piece = p, !.rot = 0, !.px = (TET_COLS - 4) \div 2, !.py = -1]

TetrisNew ==
  Spawn([board |-> {}, piece |-> 0, rot |-> 0, px |-> 0, py |-> 0,
         dead |-> FALSE, init |-> TRUE], 0)
TetrisOpened == [TetrisNew EXCEPT !.init = FALSE]

IfValid(t, s) == IF tet_valid(t) THEN t ELSE s

Move(s, key) ==
  CASE key = "left"  -> IfValid([s EXCEPT !.px = @ - 1], s)
    [] key = "right" -> IfValid([s EXCEPT !.px = @ + 1], s)
    [] key = "down"  -> IfValid([s EXCEPT !.py = @ + 1], s)
    [] key = "up"    -> IfValid([s EXCEPT !.rot = (@ + 1) % 4], s)
    [] OTHER -> s

Fall(s, p) ==
  LET lower == [s EXCEPT !.py = @ + 1]
      next == Spawn([s EXCEPT !.board = tet_lock(s)], p)
  IN  IF tet_valid(lower) THEN lower ELSE [next EXCEPT !.dead = ~tet_valid(next)]

\* A click on a lost game only has it set up again by the next frame; the frame
\* that sets it up is too early for the piece to fall.
render_tetris(s, key, click, p) ==
  CASE ~s.init -> Move(TetrisNew, key)
    [] s.init /\ s.dead -> [s EXCEPT !.init = ~click]
    [] OTHER -> Fall(Move(s, key), p)

\* The falling piece lies in the well and on no locked cell, no row stays full,
\* and a game is lost only when its next piece has no room.
TetrisInOrder(s) ==
  /\ s.init => (s.dead <=> ~tet_valid(s))
  /\ Full(s.board) = {}
  /\ \A cell \in s.board : cell[1] \in 0..TET_ROWS - 1 /\ cell[2] \in 0..TET_COLS - 1

------------------------------------------------------------------------------
\* Breakout.

BRK_BW == 22
BRK_BH == 8
BRK_PAD_W == 40
BRK_PAD_H == 6
BRK_BALL_S == 6
Bricks == (0..BRK_ROWS - 1) \X (0..BRK_COLS - 1)

brk_init ==
  [bx |-> BRK_W \div 2, by |-> BRK_H - 50, bdx |-> 2, bdy |-> -2,
   bricks |-> Bricks, score |-> 0, dead |-> FALSE]

Paddle(mx) ==
  LET px == IF mx - BRK_PAD_W \div 2 < 0 THEN 0 ELSE mx - BRK_PAD_W \div 2
  IN  IF px + BRK_PAD_W > BRK_W - 4 THEN BRK_W - 4 - BRK_PAD_W ELSE px

Walls(s) ==
  LET x == s.bx + s.bdx
      y == s.by + s.bdy
  IN  [s EXCEPT !.bx = IF x <= 0 THEN 0
                       ELSE IF x + BRK_BALL_S >= BRK_W - 4 THEN BRK_W - 4 - BRK_BALL_S ELSE x,
                !.bdx = IF x <= 0 \/ x + BRK_BALL_S >= BRK_W - 4 THEN -@ ELSE @,
                !.by = IF y <= 0 THEN 0 ELSE y,
                !.bdy = IF y <= 0 THEN -@ ELSE @]

OnPaddle(s, px) ==
  LET pad_y == BRK_H - 20
  IN  IF /\ s.by + BRK_BALL_S >= pad_y /\ s.by < pad_y + BRK_PAD_H
         /\ s.bx + BRK_BALL_S >= px /\ s.bx <= px + BRK_PAD_W
      THEN [s EXCEPT !.by = pad_y - BRK_BALL_S, !.bdy = -@]
      ELSE s

\* Every brick the ball touches goes, and each of them turns the ball round.
HitBricks(s) ==
  LET hit == {b \in s.bricks :
                LET x == BRK_W \div 2 - (BRK_COLS * (BRK_BW + 2)) \div 2 + b[2] * (BRK_BW + 2)
                    y == 12 + b[1] * (BRK_BH + 2)
                IN  /\ s.bx + BRK_BALL_S >= x /\ s.bx <= x + BRK_BW
                    /\ s.by + BRK_BALL_S >= y /\ s.by <= y + BRK_BH}
  IN  [s EXCEPT !.bricks = @ \ hit,
                !.bdy = IF Cardinality(hit) % 2 = 1 THEN -@ ELSE @,
                !.score = @ + 10 * Cardinality(hit)]

Bounce(s, px) ==
  LET t == OnPaddle(Walls(s), px)
  IN  HitBricks([t EXCEPT !.dead = t.by + BRK_BALL_S >= BRK_H])

render_breakout(s, mx, click) ==
  LET t == IF s.dead THEN s ELSE Bounce(s, Paddle(mx))
  IN  IF click /\ t.dead THEN brk_init ELSE t

\* The ball stays between the walls, a lost ball is noticed in the frame that
\* loses it, and the score counts the bricks that are gone.
BreakoutInOrder(s) ==
  /\ s.bx \in 0..BRK_W - 4 - BRK_BALL_S /\ s.by >= 0
  /\ s.dead <=> s.by + BRK_BALL_S >= BRK_H
  /\ s.score = 10 * Cardinality(Bricks \ s.bricks)

------------------------------------------------------------------------------
\* Pong.  The points only count up and are left out.

PONG_PAD_W == 6
PONG_BALL == 5

PongOpened ==
  [bx |-> PONG_BX, by |-> PONG_BY, bdx |-> 2, bdy |-> 2, p1y |-> PONG_PY, p2y |-> PONG_PY]

Between(low, n, high) == IF n < low THEN low ELSE IF n > high THEN high ELSE n

Paddles(s, my) ==
  LET mid == s.p2y + PONG_PAD_H \div 2
      p2y == IF s.by > mid THEN s.p2y + 2 ELSE IF s.by < mid THEN s.p2y - 2 ELSE s.p2y
  IN  [s EXCEPT !.p1y = Between(0, my - PONG_PAD_H \div 2, PONG_H - PONG_PAD_H),
                !.p2y = Between(0, p2y, PONG_H - PONG_PAD_H)]

Fly(s) ==
  LET y == s.by + s.bdy
  IN  [s EXCEPT !.bx = @ + s.bdx,
                !.by = Between(0, y, PONG_H - PONG_BALL),
                !.bdy = IF y <= 0 \/ y + PONG_BALL >= PONG_H THEN -@ ELSE @]

Beside(s, py) == s.by + PONG_BALL >= py /\ s.by <= py + PONG_PAD_H

Return(s) ==
  LET t == IF s.bx <= PONG_PAD_W + 4 /\ Beside(s, s.p1y)
           THEN [s EXCEPT !.bx = PONG_PAD_W + 4, !.bdx = -@] ELSE s
  IN  IF t.bx + PONG_BALL >= PONG_W - PONG_PAD_W - 4 /\ Beside(t, t.p2y)
      THEN [t EXCEPT !.bx = PONG_W - PONG_PAD_W - 4 - PONG_BALL, !.bdx = -@] ELSE t

Serve(s) ==
  IF s.bx < 0 \/ s.bx > PONG_W
  THEN [s EXCEPT !.bx = PONG_W \div 2, !.by = PONG_H \div 2, !.bdx = IF s.bx < 0 THEN 2 ELSE -2]
  ELSE s

render_pong(s, my) == Serve(Return(Fly(Paddles(s, my))))

\* Ball and paddles stay on the field, and a ball that a paddle has just sent
\* back, or that was served, is on its way to the other side.
PongInOrder(s) ==
  /\ s.bx \in 0..PONG_W /\ s.by \in 0..PONG_H - PONG_BALL
  /\ s.p1y \in 0..PONG_H - PONG_PAD_H /\ s.p2y \in 0..PONG_H - PONG_PAD_H
  /\ s.bx <= PONG_PAD_W + 4 /\ Beside(s, s.p1y) => s.bdx = 2
  /\ s.bx + PONG_BALL >= PONG_W - PONG_PAD_W - 4 /\ Beside(s, s.p2y) => s.bdx = -2

==============================================================================
