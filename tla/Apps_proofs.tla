----------------------------- MODULE Apps_proofs -------------------------------
(***************************************************************************)
(* The programs of the desktop and the line of the shell, for boards,      *)
(* buffers and words of any size, and any order of frames, clicks and      *)
(* keys.  One invariant for each program: what it promises, with what a    *)
(* frame relies on from the one before, such as the snake's neck behind    *)
(* its head, the prompt in front of what was typed, or that the bytes of a *)
(* saved text are read back as its lines (LinesReturn).                    *)
(***************************************************************************)
EXTENDS Apps, FiniteSetTheorems, SequenceTheorems, NaturalsInduction, WellFoundedInduction, TLAPS

\* Snake.

Units == {<<1, 0>>, <<-1, 0>>, <<0, 1>>, <<0, -1>>}
Point == Int \X Int

Adjacent(p, q) == (p[1] - q[1]) * (p[1] - q[1]) + (p[2] - q[2]) * (p[2] - q[2]) = 1

\* The first k segments are a line of the board, the others have not left (0, 0).
Crawls(body, k) ==
  /\ k \in 1..Len(body) /\ k >= Len(body) - 2
  /\ \A i \in k + 1..Len(body) : body[i] = ZERO
  /\ \A i, j \in 1..k : body[i] = body[j] => i = j
  /\ \A i \in 1..k - 1 : Adjacent(body[i], body[i + 1])

NeckBehind(s, k) ==
  ~s.dead /\ k >= 2 => s.body[2] = <<s.body[1][1] - s.dir[1], s.body[1][2] - s.dir[2]>>

SnakeType(s) ==
  /\ {"body", "dir", "food", "dead"} \subseteq DOMAIN s
  /\ s.body \in Seq(Point) /\ s.dir \in Units /\ s.dead \in BOOLEAN

SnakeInv(s) == SnakeType(s) /\ \E k \in 1..Len(s.body) : Crawls(s.body, k) /\ NeckBehind(s, k)

\* Tetris.

TetrisInv(s) ==
  /\ {"board", "piece", "rot", "px", "py", "dead", "init"} \subseteq DOMAIN s
  /\ s.board \subseteq (0..TET_ROWS - 1) \X (0..TET_COLS - 1)
  /\ s.piece \in 0..6 /\ s.rot \in 0..3 /\ s.px \in Int /\ s.py \in Int
  /\ s.init \in BOOLEAN
  /\ TetrisInOrder(s)

\* Breakout and pong.

BreakoutInv(s) ==
  /\ {"bx", "by", "bdx", "bdy", "bricks", "score", "dead"} \subseteq DOMAIN s
  /\ s.by \in Int /\ s.bdx \in Int /\ s.bdy \in Int /\ s.bricks \subseteq Bricks
  /\ s.dead \in BOOLEAN
  /\ BreakoutInOrder(s)

PongInv(s) ==
  /\ {"bx", "by", "bdx", "bdy", "p1y", "p2y"} \subseteq DOMAIN s
  /\ s.bdy \in Int /\ s.bdx \in {-2, 2}
  /\ s.bdx = 2 => s.bx >= PONG_PAD_W + 4
  /\ s.bdx = -2 => s.bx <= PONG_W - PONG_PAD_W - 4 - PONG_BALL
  /\ PongInOrder(s)

\* Minesweeper, tic tac toe and slots.  The click that ends one of the first two
\* also resets it, so that between frames their games are open ones.

MinesInv(s) ==
  /\ {"mines", "open", "dead", "won"} \subseteq DOMAIN s
  /\ s.mines \subseteq Fields /\ s.open \subseteq Fields
  /\ Cardinality(s.mines) = MS_MINES /\ s.open \cap s.mines = {}
  /\ Cardinality(s.open) < MS_SIZE * MS_SIZE - MS_MINES
  /\ s.dead = FALSE /\ s.won = FALSE

TicTacToeInv(s) ==
  /\ {"board", "done"} \subseteq DOMAIN s
  /\ s.board \in [Squares -> 0..2]
  /\ Cardinality(Marks(s.board, 1)) = Cardinality(Marks(s.board, 2))
  /\ ~ttt_check(s.board, 1) /\ ~ttt_check(s.board, 2)
  /\ Free(s.board) # {} /\ s.done = 0

SlotsInv(s) ==
  /\ {"reels", "spinning", "age", "credits"} \subseteq DOMAIN s
  /\ s.credits \in Int /\ s.age \in Nat /\ s.spinning \in BOOLEAN
  /\ SlotsInOrder(s)

GameInv(a, s) ==
  /\ a = "snake" => SnakeInv(s)
  /\ a = "tetris" => TetrisInv(s)
  /\ a = "breakout" => BreakoutInv(s)
  /\ a = "pong" => PongInv(s)
  /\ a = "minesweeper" => MinesInv(s)
  /\ a = "tictactoe" => TicTacToeInv(s)
  /\ a = "slots" => SlotsInv(s)

------------------------------------------------------------------------------
\* Slots.

LEMMA SlotsOpenedInv == SlotsInv(SlotsOpened)
BY ParlorAssumption DEF SlotsInv, SlotsOpened, SlotsInOrder

LEMMA StopPays ==
  ASSUME NEW s, SlotsInv(s), s.spinning, NEW n
  PROVE  SlotsInv(Stop(s, n)) /\ ~Stop(s, n).spinning
<1> DEFINE r == [i \in 1..3 |-> Reel(i - 1, n)]
<1>1. Pay(r) \in {50, 5, -2}
  BY DEF Pay
<1>2. /\ {"reels", "spinning", "age", "credits"} \subseteq DOMAIN s
      /\ s.credits \in Int /\ s.credits >= 2
  BY DEF SlotsInv, SlotsInOrder
<1> DEFINE c == s.credits + Pay(r)
<1>3. c \in Int /\ c >= 0
  BY <1>1, <1>2
<1>4. /\ {"reels", "spinning", "age", "credits"} \subseteq DOMAIN Stop(s, n)
      /\ Stop(s, n).credits = c /\ Stop(s, n).age = 0 /\ Stop(s, n).spinning = FALSE
  BY <1>2 DEF Stop
<1> HIDE DEF c
<1>5. ~Stop(s, n).spinning /\ Stop(s, n).spinning \in BOOLEAN
  BY <1>4
<1>6. Stop(s, n).credits \in Int /\ Stop(s, n).credits >= 0 /\ Stop(s, n).age \in Nat
  BY <1>3, <1>4
<1> QED
  BY <1>4, <1>5, <1>6 DEF SlotsInv, SlotsInOrder

LEMMA SpinStakes ==
  ASSUME NEW s, SlotsInv(s)
  PROVE  SlotsInv(Spin(s))
<1>1. CASE s.spinning \/ s.credits < 2
  BY <1>1 DEF Spin
<1>2. CASE ~(s.spinning \/ s.credits < 2)
  <2>1. /\ {"reels", "spinning", "age", "credits"} \subseteq DOMAIN s
        /\ s.credits \in Int /\ s.credits >= 2
    BY <1>2 DEF SlotsInv, SlotsInOrder
  <2>2. Spin(s) = [s EXCEPT !.spinning = TRUE, !.age = 0]
    BY <1>2 DEF Spin
  <2>3. /\ {"reels", "spinning", "age", "credits"} \subseteq DOMAIN Spin(s)
        /\ Spin(s).credits = s.credits /\ Spin(s).age = 0 /\ Spin(s).spinning = TRUE
    BY <2>1, <2>2
  <2>4. Spin(s).spinning \in BOOLEAN
    BY <2>3
  <2>5. Spin(s).credits \in Int /\ Spin(s).credits >= 2 /\ Spin(s).age \in Nat
    BY <2>1, <2>3
  <2>6. Spin(s).credits >= 0
    BY <2>5
  <2> QED
    BY <2>3, <2>4, <2>5, <2>6 DEF SlotsInv, SlotsInOrder
<1> QED
  BY <1>1, <1>2

LEMMA SlotsKeep ==
  ASSUME NEW s, SlotsInv(s), NEW click \in BOOLEAN, NEW n, NEW t \in Nat
  PROVE  SlotsInv(render_slots(s, click, n, t))
<1> DEFINE aged == IF s.spinning THEN [s EXCEPT !.age = @ + t] ELSE s
           turned == [aged EXCEPT !.reels = [i \in 1..3 |-> (n + (i - 1) * 13) % N_SLOT_SYMS]]
           u == IF ~aged.spinning THEN aged ELSE IF aged.age > 40 THEN Stop(aged, n) ELSE turned
<1>1. SlotsInv(aged)
  BY DEF SlotsInv, SlotsInOrder
<1> HIDE DEF aged
<1>2. SlotsInv(turned)
  BY <1>1 DEF SlotsInv, SlotsInOrder
<1>3. SlotsInv(u)
  <2>1. CASE ~aged.spinning
    BY <1>1, <2>1
  <2>2. CASE aged.spinning /\ aged.age > 40
    <3>1. SlotsInv(Stop(aged, n))
      BY <1>1, <2>2, StopPays
    <3>2. u = Stop(aged, n)
      BY <2>2
    <3> QED
      BY <3>1, <3>2
  <2>3. CASE aged.spinning /\ ~(aged.age > 40)
    <3>1. u = turned
      BY <2>3
    <3> HIDE DEF u, turned
    <3> QED
      BY <1>2, <3>1
  <2> QED
    BY <2>1, <2>2, <2>3
<1>4. render_slots(s, click, n, t) = IF click THEN Spin(u) ELSE u
  BY DEF render_slots, aged
<1> HIDE DEF u
<1>5. SlotsInv(Spin(u))
  BY <1>3, SpinStakes
<1> QED
  BY <1>3, <1>4, <1>5

------------------------------------------------------------------------------
\* Pong.

LEMMA PongOpenedInv == PongInv(PongOpened)
BY ArcadeAssumption DEF PongInv, PongOpened, PongInOrder, Beside, PONG_PAD_W, PONG_BALL

\* What a frame knows of ball and paddles.
PongField(s) ==
  /\ {"bx", "by", "bdx", "bdy", "p1y", "p2y"} \subseteq DOMAIN s
  /\ s.bx \in Int /\ s.by \in 0..PONG_H - PONG_BALL
  /\ s.bdy \in Int /\ s.bdx \in {-2, 2}
  /\ s.p1y \in 0..PONG_H - PONG_PAD_H /\ s.p2y \in 0..PONG_H - PONG_PAD_H

LEMMA PaddlesMove ==
  ASSUME NEW s, PongField(s), NEW my \in Int
  PROVE  PongField(Paddles(s, my)) /\ Paddles(s, my).bx = s.bx /\ Paddles(s, my).bdx = s.bdx
<1> DEFINE mid == s.p2y + PONG_PAD_H \div 2
           p2 == IF s.by > mid THEN s.p2y + 2 ELSE IF s.by < mid THEN s.p2y - 2 ELSE s.p2y
           p1 == my - PONG_PAD_H \div 2
           room == PONG_H - PONG_PAD_H
<1>1. PONG_H \in Nat /\ PONG_PAD_H \in Nat /\ room \in Nat /\ PONG_PAD_H \div 2 \in Nat
  BY ArcadeAssumption
<1>2. p1 \in Int /\ p2 \in Int
  BY <1>1 DEF PongField, PONG_BALL
<1>3. Between(0, p1, room) \in 0..room /\ Between(0, p2, room) \in 0..room
  <2> HIDE DEF p1, p2, room
  <2> QED
    BY <1>1, <1>2 DEF Between
<1>4. Paddles(s, my) = [s EXCEPT !.p1y = Between(0, p1, room), !.p2y = Between(0, p2, room)]
  BY DEF Paddles
<1> HIDE DEF p1, p2
<1> QED
  BY <1>3, <1>4 DEF PongField

LEMMA FlyMoves ==
  ASSUME NEW s, PongField(s)
  PROVE  PongField(Fly(s)) /\ Fly(s).bx = s.bx + s.bdx /\ Fly(s).bdx = s.bdx
<1> DEFINE y == s.by + s.bdy
           top == PONG_H - PONG_BALL
           dy == IF y <= 0 \/ y + PONG_BALL >= PONG_H THEN -s.bdy ELSE s.bdy
<1>1. PONG_H \in Nat /\ top \in Nat /\ y \in Int /\ s.bx + s.bdx \in Int /\ dy \in Int
  BY ArcadeAssumption DEF PongField, PONG_BALL
<1>2. Between(0, y, top) \in 0..top
  <2> HIDE DEF y, top
  <2> QED
    BY <1>1 DEF Between
<1>3. Fly(s) = [s EXCEPT !.bx = s.bx + s.bdx, !.by = Between(0, y, top), !.bdy = dy]
  BY DEF Fly
<1> HIDE DEF y, dy
<1> QED
  BY <1>1, <1>2, <1>3 DEF PongField

LEMMA ReturnTurns ==
  ASSUME NEW s, PongField(s),
         s.bdx = 2 => s.bx >= PONG_PAD_W + 6,
         s.bdx = -2 => s.bx <= PONG_W - PONG_PAD_W - 6 - PONG_BALL
  PROVE  LET r == Return(s)
         IN  /\ PongField(r)
             /\ r.bdx = 2 => r.bx >= PONG_PAD_W + 4
             /\ r.bdx = -2 => r.bx <= PONG_W - PONG_PAD_W - 4 - PONG_BALL
             /\ r.bx <= PONG_PAD_W + 4 /\ Beside(r, r.p1y) => r.bdx = 2
             /\ r.bx + PONG_BALL >= PONG_W - PONG_PAD_W - 4 /\ Beside(r, r.p2y) => r.bdx = -2
<1> USE DEF PONG_PAD_W, PONG_BALL
<1> DEFINE left == PONG_PAD_W + 4
           right == PONG_W - PONG_PAD_W - 4 - PONG_BALL
           t == IF s.bx <= left /\ Beside(s, s.p1y) THEN [s EXCEPT !.bx = left, !.bdx = -@] ELSE s
           r == Return(s)
<1>1. PONG_W \in Nat /\ PONG_W >= 31 /\ PONG_H \in Nat /\ PONG_PAD_H \in Nat
  BY ArcadeAssumption
<1>2. /\ PongField(t)
      /\ t.bdx = 2 => t.bx >= left
      /\ t.bdx = -2 => t.bx <= right - 2
      /\ t.bx <= left /\ Beside(t, t.p1y) => t.bdx = 2
      /\ t.bx <= left => t.bx < right
  BY <1>1 DEF PongField, Beside
<1>3. r = IF t.bx + PONG_BALL >= PONG_W - PONG_PAD_W - 4 /\ Beside(t, t.p2y)
          THEN [t EXCEPT !.bx = right, !.bdx = -@] ELSE t
  BY DEF Return
<1> HIDE DEF t, r
<1>4. /\ PongField(r)
      /\ r.bdx = 2 => r.bx >= left
      /\ r.bdx = -2 => r.bx <= right
      /\ r.bx <= left /\ Beside(r, r.p1y) => r.bdx = 2
      /\ r.bx + PONG_BALL >= PONG_W - PONG_PAD_W - 4 /\ Beside(r, r.p2y) => r.bdx = -2
  BY <1>1, <1>2, <1>3 DEF PongField, Beside
<1> QED
  BY <1>4 DEF r

LEMMA PongKeeps ==
  ASSUME NEW s, PongInv(s), NEW my \in Int
  PROVE  PongInv(render_pong(s, my))
<1> USE DEF PONG_PAD_W, PONG_BALL
<1> DEFINE f == Fly(Paddles(s, my))
           r == Return(f)
<1>1. PONG_W \in Nat /\ PONG_W >= 31 /\ PONG_H \in Nat /\ PONG_H >= 9 /\ PONG_PAD_H \in Nat
  BY ArcadeAssumption
<1>2. PongField(s)
  BY <1>1 DEF PongInv, PongField, PongInOrder
<1>3. PongField(f) /\ f.bx = s.bx + s.bdx /\ f.bdx = s.bdx
  BY <1>2, PaddlesMove, FlyMoves
<1> HIDE DEF f
<1>4. f.bdx = 2 => f.bx >= PONG_PAD_W + 6
  BY <1>2, <1>3 DEF PongInv, PongField
<1>5. f.bdx = -2 => f.bx <= PONG_W - PONG_PAD_W - 6 - PONG_BALL
  BY <1>1, <1>2, <1>3 DEF PongInv, PongField
<1>6. /\ PongField(r)
      /\ r.bdx = 2 => r.bx >= PONG_PAD_W + 4
      /\ r.bdx = -2 => r.bx <= PONG_W - PONG_PAD_W - 4 - PONG_BALL
      /\ r.bx <= PONG_PAD_W + 4 /\ Beside(r, r.p1y) => r.bdx = 2
      /\ r.bx + PONG_BALL >= PONG_W - PONG_PAD_W - 4 /\ Beside(r, r.p2y) => r.bdx = -2
  BY <1>3, <1>4, <1>5, ReturnTurns
<1> HIDE DEF r
<1>7. PongInv(Serve(r))
  <2>1. CASE r.bx < 0 \/ r.bx > PONG_W
    BY <1>1, <1>6, <2>1 DEF PongInv, PongField, PongInOrder, Serve, Beside
  <2>2. CASE ~(r.bx < 0 \/ r.bx > PONG_W)
    BY <1>1, <1>6, <2>2 DEF PongInv, PongField, PongInOrder, Serve
  <2> QED
    BY <2>1, <2>2
<1> QED
  BY <1>7 DEF render_pong, r, f

------------------------------------------------------------------------------
\* Breakout.

LEMMA BricksFinite == IsFiniteSet(Bricks)
<1>1. BRK_ROWS - 1 \in Int /\ BRK_COLS - 1 \in Int
  BY ArcadeAssumption
<1>2. IsFiniteSet(0..BRK_ROWS - 1) /\ IsFiniteSet(0..BRK_COLS - 1)
  BY <1>1, FS_Interval
<1> QED
  BY <1>2, FS_Product DEF Bricks

LEMMA BreakoutOpened == BreakoutInv(brk_init)
<1>1. BRK_W \in Nat /\ BRK_W >= 51 /\ BRK_H \in Nat /\ BRK_H >= 51
  BY ArcadeAssumption
<1>2. Cardinality(Bricks \ brk_init.bricks) = 0
  BY FS_EmptySet DEF brk_init
<1>3. /\ {"bx", "by", "bdx", "bdy", "bricks", "score", "dead"} \subseteq DOMAIN brk_init
      /\ brk_init.by \in Int /\ brk_init.bdx \in Int /\ brk_init.bdy \in Int
      /\ brk_init.bricks \subseteq Bricks /\ brk_init.dead \in BOOLEAN
  BY <1>1 DEF brk_init
<1>4. brk_init.bx \in 0..BRK_W - 4 - BRK_BALL_S /\ brk_init.by >= 0
  BY <1>1 DEF brk_init, BRK_BALL_S
<1>5. ~brk_init.dead /\ ~(brk_init.by + BRK_BALL_S >= BRK_H)
  BY <1>1 DEF brk_init, BRK_BALL_S
<1>6. brk_init.score = 10 * Cardinality(Bricks \ brk_init.bricks)
  BY <1>2 DEF brk_init
<1> QED
  BY <1>3, <1>4, <1>5, <1>6 DEF BreakoutInv, BreakoutInOrder

\* The score counts what is gone, and a frame moves no brick back.
Counted(s) == s.bricks \subseteq Bricks /\ s.score = 10 * Cardinality(Bricks \ s.bricks)

BreakoutField(s) ==
  /\ {"bx", "by", "bdx", "bdy", "bricks", "score", "dead"} \subseteq DOMAIN s
  /\ s.bx \in 0..BRK_W - 4 - BRK_BALL_S /\ s.by \in Nat
  /\ s.bdx \in Int /\ s.bdy \in Int

LEMMA WallsHold ==
  ASSUME NEW s, BreakoutField(s)
  PROVE  /\ BreakoutField(Walls(s))
         /\ Walls(s).bricks = s.bricks /\ Walls(s).score = s.score
<1> USE DEF BRK_BALL_S
<1>1. BRK_W \in Nat /\ BRK_W >= 51
  BY ArcadeAssumption
<1> DEFINE x == s.bx + s.bdx
           y == s.by + s.bdy
           bx == IF x <= 0 THEN 0
                 ELSE IF x + BRK_BALL_S >= BRK_W - 4 THEN BRK_W - 4 - BRK_BALL_S ELSE x
           bdx == IF x <= 0 \/ x + BRK_BALL_S >= BRK_W - 4 THEN -s.bdx ELSE s.bdx
           by == IF y <= 0 THEN 0 ELSE y
           bdy == IF y <= 0 THEN -s.bdy ELSE s.bdy
<1>2. bx \in 0..BRK_W - 4 - BRK_BALL_S /\ bdx \in Int /\ by \in Nat /\ bdy \in Int
  BY <1>1 DEF BreakoutField
<1>3. Walls(s) = [s EXCEPT !.bx = bx, !.bdx = bdx, !.by = by, !.bdy = bdy]
  BY DEF Walls
<1> HIDE DEF bx, bdx, by, bdy
<1> QED
  BY <1>2, <1>3 DEF BreakoutField

LEMMA PaddleHolds ==
  ASSUME NEW s, BreakoutField(s), NEW px
  PROVE  /\ BreakoutField(OnPaddle(s, px))
         /\ OnPaddle(s, px).bricks = s.bricks /\ OnPaddle(s, px).score = s.score
<1>1. BRK_H \in Nat /\ BRK_H >= 51
  BY ArcadeAssumption
<1> DEFINE by == BRK_H - 20 - BRK_BALL_S
           t == [s EXCEPT !.by = by, !.bdy = -s.bdy]
<1>2. by \in Nat /\ -s.bdy \in Int
  BY <1>1 DEF BRK_BALL_S, BreakoutField
<1> HIDE DEF by
<1>3. BreakoutField(t) /\ t.bricks = s.bricks /\ t.score = s.score
  BY <1>2 DEF BreakoutField
<1>4. OnPaddle(s, px) = t \/ OnPaddle(s, px) = s
  BY DEF OnPaddle, by
<1> HIDE DEF t
<1> QED
  BY <1>3, <1>4

LEMMA BricksCount ==
  ASSUME NEW s, BreakoutField(s), Counted(s)
  PROVE  LET r == HitBricks(s)
         IN  /\ BreakoutField(r) /\ Counted(r)
             /\ r.by = s.by /\ r.dead = s.dead
<1> DEFINE hit == {b \in s.bricks :
                LET x == BRK_W \div 2 - (BRK_COLS * (BRK_BW + 2)) \div 2 + b[2] * (BRK_BW + 2)
                    y == 12 + b[1] * (BRK_BH + 2)
                IN  /\ s.bx + BRK_BALL_S >= x /\ s.bx <= x + BRK_BW
                    /\ s.by + BRK_BALL_S >= y /\ s.by <= y + BRK_BH}
           bdy == IF Cardinality(hit) % 2 = 1 THEN -s.bdy ELSE s.bdy
           r == [s EXCEPT !.bricks = s.bricks \ hit, !.bdy = bdy, !.score = s.score + 10 * Cardinality(hit)]
<1>1. HitBricks(s) = r
  BY DEF HitBricks
<1>2. hit \subseteq s.bricks
  OBVIOUS
<1> HIDE DEF hit
<1>3. bdy \in Int
  BY DEF BreakoutField
<1> HIDE DEF bdy
<1>4. /\ IsFiniteSet(hit) /\ IsFiniteSet(Bricks \ s.bricks)
      /\ Bricks \ (s.bricks \ hit) = (Bricks \ s.bricks) \cup hit
      /\ (Bricks \ s.bricks) \cap hit = {}
  BY <1>2, BricksFinite, FS_Subset DEF Counted
<1>5. /\ Cardinality(hit) \in Nat /\ Cardinality(Bricks \ s.bricks) \in Nat
      /\ Cardinality(Bricks \ (s.bricks \ hit)) = Cardinality(Bricks \ s.bricks) + Cardinality(hit)
  <2> DEFINE gone == Bricks \ s.bricks
  <2>1. /\ IsFiniteSet(hit) /\ IsFiniteSet(gone) /\ Bricks \ (s.bricks \ hit) = gone \cup hit
        /\ gone \cap hit = {}
    BY <1>4
  <2> HIDE DEF gone
  <2>2. Cardinality(gone \cup hit) = Cardinality(gone) + Cardinality(hit) - Cardinality(gone \cap hit)
    BY <2>1, FS_Union
  <2>3. Cardinality(gone \cap hit) = 0
    BY <2>1, FS_EmptySet
  <2>4. Cardinality(hit) \in Nat /\ Cardinality(gone) \in Nat
    BY <2>1, FS_CardinalityType
  <2>5. Cardinality(gone \cup hit) = Cardinality(gone) + Cardinality(hit)
    BY <2>2, <2>3, <2>4
  <2> QED
    BY <2>1, <2>4, <2>5 DEF gone
<1>6. /\ r.bricks = s.bricks \ hit /\ r.score = s.score + 10 * Cardinality(hit)
      /\ r.by = s.by /\ r.dead = s.dead /\ BreakoutField(r)
  BY <1>3 DEF BreakoutField
<1> HIDE DEF r
<1>7. r.score = 10 * Cardinality(Bricks \ r.bricks)
  BY <1>5, <1>6 DEF Counted
<1> QED
  BY <1>1, <1>6, <1>7 DEF Counted

LEMMA BounceKeeps ==
  ASSUME NEW s, BreakoutInv(s), NEW px
  PROVE  BreakoutInv(Bounce(s, px))
<1> DEFINE t == OnPaddle(Walls(s), px)
           lost == t.by + BRK_BALL_S >= BRK_H
           d == [t EXCEPT !.dead = lost]
           r == HitBricks(d)
<1>1. BreakoutField(s) /\ Counted(s)
  BY DEF BreakoutInv, BreakoutInOrder, BreakoutField, Counted
<1>2. BreakoutField(t) /\ Counted(t)
  BY <1>1, WallsHold, PaddleHolds DEF Counted
<1> HIDE DEF t
<1>3. lost \in BOOLEAN
  OBVIOUS
<1>4. BreakoutField(d) /\ Counted(d) /\ d.dead = lost /\ d.by = t.by
  BY <1>2, <1>3 DEF BreakoutField, Counted
<1> HIDE DEF d
<1>5. BreakoutField(r) /\ Counted(r) /\ r.by = t.by /\ r.dead = lost
  BY <1>4, BricksCount
<1>6. r = Bounce(s, px)
  BY DEF Bounce, t, d
<1> HIDE DEF r
<1>7. r.dead \in BOOLEAN /\ (r.dead <=> r.by + BRK_BALL_S >= BRK_H)
  BY <1>3, <1>5
<1> HIDE DEF lost
<1>8. BreakoutInv(r)
  BY <1>5, <1>7 DEF BreakoutInv, BreakoutInOrder, BreakoutField, Counted
<1> QED
  BY <1>6, <1>8

LEMMA BreakoutKeeps ==
  ASSUME NEW s, BreakoutInv(s), NEW mx, NEW click \in BOOLEAN
  PROVE  BreakoutInv(render_breakout(s, mx, click))
<1> DEFINE t == IF s.dead THEN s ELSE Bounce(s, Paddle(mx))
<1>1. BreakoutInv(t)
  BY BounceKeeps
<1>2. render_breakout(s, mx, click) = IF click /\ t.dead THEN brk_init ELSE t
  BY DEF render_breakout
<1> HIDE DEF t
<1> QED
  BY <1>1, <1>2, BreakoutOpened

------------------------------------------------------------------------------
\* Minesweeper.

LEMMA FieldsCount == IsFiniteSet(Fields) /\ Cardinality(Fields) = MS_SIZE * MS_SIZE
<1>1. MS_SIZE * MS_SIZE \in Nat
  BY ParlorAssumption
<1> DEFINE n == MS_SIZE * MS_SIZE
<1>2. IsFiniteSet(0..n - 1) /\ Cardinality(0..n - 1) = IF 0 > n - 1 THEN 0 ELSE n - 1 - 0 + 1
  <2> HIDE DEF n
  <2>1. n \in Nat
    BY <1>1 DEF n
  <2> QED
    BY <2>1, FS_Interval
<1> QED
  BY <1>1, <1>2 DEF Fields

LEMMA MinesLaid ==
  ASSUME NEW mines \in Minefields
  PROVE  MinesInv(ms_init(mines))
<1>1. mines \subseteq Fields /\ Cardinality(mines) = MS_MINES
  BY DEF Minefields
<1>2. MS_SIZE * MS_SIZE - MS_MINES > 0
  <2>1. MS_SIZE * MS_SIZE \in Nat
    BY ParlorAssumption
  <2> DEFINE n == MS_SIZE * MS_SIZE
  <2>2. n \in Nat /\ MS_MINES \in 1..n - 1
    BY <2>1, ParlorAssumption
  <2> HIDE DEF n
  <2>3. n - MS_MINES > 0
    BY <2>2
  <2> QED
    BY <2>3 DEF n
<1>3. Cardinality({}) = 0
  BY FS_EmptySet
<1>4. /\ {"mines", "open", "dead", "won"} \subseteq DOMAIN ms_init(mines)
      /\ ms_init(mines).mines = mines /\ ms_init(mines).open = {}
      /\ ms_init(mines).dead = FALSE /\ ms_init(mines).won = FALSE
  BY DEF ms_init
<1> QED
  BY <1>1, <1>2, <1>3, <1>4 DEF MinesInv

\* A field that ends no game leaves one more open, and not yet all.
LEMMA RevealOpens ==
  ASSUME NEW s, MinesInv(s), NEW field \in Fields,
         ~Reveal(s, field).dead, ~Reveal(s, field).won, field \notin s.open
  PROVE  MinesInv(Reveal(s, field))
<1> DEFINE r == Reveal(s, field)
           open == s.open \cup {field}
           all == MS_SIZE * MS_SIZE - MS_MINES
<1>1. /\ {"mines", "open", "dead", "won"} \subseteq DOMAIN s
      /\ s.mines \subseteq Fields /\ s.open \subseteq Fields /\ s.open \cap s.mines = {}
      /\ Cardinality(s.mines) = MS_MINES /\ Cardinality(s.open) < all
  BY DEF MinesInv
<1>2. /\ {"mines", "open", "dead", "won"} \subseteq DOMAIN r
      /\ r.mines = s.mines /\ r.open = open
      /\ r.dead = (field \in s.mines)
      /\ r.won = (field \notin s.mines /\ Cardinality(open \ s.mines) = all)
  BY <1>1 DEF Reveal
<1>3. field \notin s.mines /\ Cardinality(open \ s.mines) # all
  BY <1>2
<1>7. r.dead = FALSE /\ r.won = FALSE
  <2>1. ~r.dead /\ ~r.won
    OBVIOUS
  <2> HIDE DEF r, open, all
  <2>2. (field \in s.mines) \in BOOLEAN
    OBVIOUS
  <2>3. (field \notin s.mines /\ Cardinality(open \ s.mines) = all) \in BOOLEAN
    OBVIOUS
  <2>4. r.dead \in BOOLEAN /\ r.won \in BOOLEAN
    BY <1>2, <2>2, <2>3, Zenon
  <2> QED
    BY <2>1, <2>4
<1>4. open \ s.mines = open /\ open \cap s.mines = {} /\ open \subseteq Fields
  BY <1>1, <1>3
<1>5. Cardinality(open) < all
  <2>1. IsFiniteSet(s.open)
    BY <1>1, FieldsCount, FS_Subset
  <2>2. Cardinality(open) = Cardinality(s.open) + 1
    BY <2>1, FS_AddElement
  <2>3. Cardinality(s.open) \in Nat
    BY <2>1, FS_CardinalityType
  <2>4. all \in Int
    BY ParlorAssumption
  <2>5. Cardinality(open) # all
    BY <1>3, <1>4
  <2> HIDE DEF all, open
  <2> QED
    BY <1>1, <2>2, <2>3, <2>4, <2>5
<1> HIDE DEF r
<1>6. MinesInv(r)
  BY <1>1, <1>2, <1>4, <1>5, <1>7 DEF MinesInv
<1> QED
  BY <1>6 DEF r

LEMMA MinesKeep ==
  ASSUME NEW s, MinesInv(s), NEW field \in Fields \cup {NOWHERE}, NEW mines \in Minefields
  PROVE  MinesInv(render_minesweeper(s, TRUE, field, mines))
<1> DEFINE t == IF ~s.dead /\ ~s.won /\ field # NOWHERE THEN Reveal(s, field) ELSE s
<1>1. render_minesweeper(s, TRUE, field, mines) = IF t.dead \/ t.won THEN ms_init(mines) ELSE t
  BY DEF render_minesweeper
<1>2. CASE t.dead \/ t.won
  BY <1>1, <1>2, MinesLaid
<1>3. CASE ~(t.dead \/ t.won)
  <2>1. CASE t = s
    BY <1>1, <1>3, <2>1
  <2>2. CASE t # s
    <3>1. t = Reveal(s, field) /\ field \in Fields /\ field \notin s.open
      BY <2>2 DEF Reveal
    <3> HIDE DEF t
    <3>2. MinesInv(t)
      BY <1>3, <3>1, RevealOpens
    <3> QED
      BY <1>1, <1>3, <3>2
  <2> QED
    BY <2>1, <2>2
<1> QED
  BY <1>2, <1>3

------------------------------------------------------------------------------
\* Tic tac toe.

LEMMA SquaresFinite == IsFiniteSet(Squares)
<1> DEFINE n == 9
<1>1. n \in Nat /\ Squares = 0..n - 1
  BY DEF Squares
<1> HIDE DEF n
<1> QED
  BY <1>1, FS_Interval

LEMMA MarksCount ==
  ASSUME NEW b \in [Squares -> 0..2], NEW p
  PROVE  IsFiniteSet(Marks(b, p)) /\ Cardinality(Marks(b, p)) \in Nat
<1>2. IsFiniteSet(Marks(b, p))
  BY SquaresFinite, FS_Subset DEF Marks
<1> QED
  BY <1>2, FS_CardinalityType

LEMMA TicTacToeOpened == TicTacToeInv(TicTacToeNew)
<1> DEFINE b == [i \in Squares |-> 0]
<1>1. Marks(b, 1) = {} /\ Marks(b, 2) = {}
  BY DEF Marks
<1>2. Free(b) # {}
  BY DEF Free, Squares
<1>3. ~ttt_check(b, 1) /\ ~ttt_check(b, 2)
  BY DEF ttt_check, Lines, Squares
<1>4. b \in [Squares -> 0..2]
  OBVIOUS
<1>5. TicTacToeNew.board = b /\ TicTacToeNew.done = 0 /\ {"board", "done"} \subseteq DOMAIN TicTacToeNew
  BY DEF TicTacToeNew
<1> HIDE DEF b
<1> QED
  BY <1>1, <1>2, <1>3, <1>4, <1>5 DEF TicTacToeInv

\* Marking a free square adds one mark of the player and none of the other.
LEMMA MarkSquare ==
  ASSUME NEW b \in [Squares -> 0..2], NEW i \in Free(b), NEW p \in 1..2, NEW q \in 1..2, p # q
  PROVE  LET c == [b EXCEPT ![i] = p]
         IN  /\ c \in [Squares -> 0..2]
             /\ Cardinality(Marks(c, p)) = Cardinality(Marks(b, p)) + 1
             /\ Marks(c, q) = Marks(b, q)
             /\ ttt_check(c, q) <=> ttt_check(b, q)
<1> DEFINE c == [b EXCEPT ![i] = p]
<1>1. i \in Squares /\ b[i] = 0
  BY DEF Free
<1>2. c \in [Squares -> 0..2]
  BY <1>1
<1>3. \A j \in Squares : c[j] = IF j = i THEN p ELSE b[j]
  BY <1>1
<1>4. c[i] # q /\ b[i] # q /\ b[i] # p
  BY <1>1, <1>3
<1> HIDE DEF c
<1>5. Marks(c, p) = Marks(b, p) \cup {i} /\ i \notin Marks(b, p)
  BY <1>1, <1>3, <1>4 DEF Marks
<1>6. Cardinality(Marks(c, p)) = Cardinality(Marks(b, p)) + 1
  BY <1>5, MarksCount, FS_AddElement
<1>7. Marks(c, q) = Marks(b, q)
  BY <1>1, <1>3, <1>4 DEF Marks
<1>8. \A j \in Squares : c[j] = q <=> b[j] = q
  BY <1>3, <1>4
<1>9. \A line \in Lines : line \subseteq Squares
  BY DEF Lines, Squares
<1>10. ttt_check(c, q) <=> ttt_check(b, q)
  BY <1>8, <1>9 DEF ttt_check
<1> QED
  BY <1>2, <1>6, <1>7, <1>10 DEF c

LEMMA ReplyInOrder ==
  ASSUME NEW b \in [Squares -> 0..2], Free(b) # {},
         Cardinality(Marks(b, 1)) = Cardinality(Marks(b, 2)) + 1,
         ~ttt_check(b, 1), Reply(b).done = 0
  PROVE  TicTacToeInv(Reply(b))
<1> DEFINE i == CHOOSE j \in Free(b) : \A k \in Free(b) : j <= k
           c == [b EXCEPT ![i] = 2]
<1>1. i \in Free(b)
  <2>1. \E j \in Free(b) : \A k \in Free(b) : j <= k
    BY DEF Free, Squares
  <2> QED
    BY <2>1
<1>2. ttt_ai(b) = c
  BY DEF ttt_ai
<1> HIDE DEF i
<1>3. /\ c \in [Squares -> 0..2]
      /\ Cardinality(Marks(c, 2)) = Cardinality(Marks(b, 2)) + 1
      /\ Marks(c, 1) = Marks(b, 1)
      /\ ttt_check(c, 1) <=> ttt_check(b, 1)
  <2> DEFINE one == 1
             two == 2
             d == [b EXCEPT ![i] = two]
  <2>1. one \in 1..2 /\ two \in 1..2 /\ one # two
    OBVIOUS
  <2>2. d = c
    OBVIOUS
  <2> HIDE DEF one, two
  <2>3. /\ d \in [Squares -> 0..2]
        /\ Cardinality(Marks(d, two)) = Cardinality(Marks(b, two)) + 1
        /\ Marks(d, one) = Marks(b, one)
        /\ ttt_check(d, one) <=> ttt_check(b, one)
    BY <1>1, <2>1, MarkSquare
  <2> QED
    BY <2>2, <2>3 DEF one, two
<1>4. /\ {"board", "done"} \subseteq DOMAIN Reply(b) /\ Reply(b).board = c
      /\ Reply(b).done = IF ttt_check(c, 2) THEN 2 ELSE IF Free(c) = {} THEN 3 ELSE 0
  BY <1>2 DEF Reply
<1> HIDE DEF c
<1>5. ~ttt_check(c, 2) /\ Free(c) # {}
  BY <1>4
<1>6. Cardinality(Marks(c, 1)) = Cardinality(Marks(c, 2))
  BY <1>3
<1> QED
  BY <1>3, <1>4, <1>5, <1>6 DEF TicTacToeInv

LEMMA TicTacToeKeeps ==
  ASSUME NEW s, TicTacToeInv(s), NEW square \in Squares \cup {NOWHERE}
  PROVE  TicTacToeInv(render_tictactoe(s, TRUE, square))
<1> DEFINE b == [s.board EXCEPT ![square] = 1]
           t == IF s.done # 0 \/ square \notin Free(s.board) THEN s
                ELSE IF ttt_check(b, 1) THEN [board |-> b, done |-> 1]
                ELSE Reply(b)
<1>1. render_tictactoe(s, TRUE, square) = IF t.done # 0 THEN TicTacToeNew ELSE t
  BY DEF render_tictactoe
<1>2. CASE t.done # 0
  BY <1>1, <1>2, TicTacToeOpened
<1>3. CASE s.done # 0 \/ square \notin Free(s.board)
  <2>1. t = s
    BY <1>3
  <2> HIDE DEF t
  <2> QED
    BY <1>1, <2>1, TicTacToeOpened
<1>4. CASE s.done = 0 /\ square \in Free(s.board) /\ t.done = 0
  <2>1. ~ttt_check(b, 1) /\ t = Reply(b)
    BY <1>4
  <2>2. /\ s.board \in [Squares -> 0..2]
        /\ Cardinality(Marks(s.board, 1)) = Cardinality(Marks(s.board, 2))
    BY DEF TicTacToeInv
  <2>3. /\ b \in [Squares -> 0..2]
        /\ Cardinality(Marks(b, 1)) = Cardinality(Marks(s.board, 1)) + 1
        /\ Marks(b, 2) = Marks(s.board, 2)
    <3> DEFINE one == 1
               two == 2
               a == s.board
               d == [a EXCEPT ![square] = one]
    <3>1. one \in 1..2 /\ two \in 1..2 /\ one # two
      OBVIOUS
    <3>2. d = b
      OBVIOUS
    <3>3. a \in [Squares -> 0..2] /\ square \in Free(a)
      BY <1>4, <2>2
    <3> HIDE DEF one, two, a
    <3>4. /\ d \in [Squares -> 0..2]
          /\ Cardinality(Marks(d, one)) = Cardinality(Marks(a, one)) + 1
          /\ Marks(d, two) = Marks(a, two)
      BY <3>1, <3>3, MarkSquare
    <3> QED
      BY <3>2, <3>4 DEF one, two, a
  <2> HIDE DEF b, t
  <2>4. Reply(b).done = 0
    BY <1>4, <2>1
  <2>5. Free(b) # {}
    \* the ninth mark ends the game, and t.done is 0
    <3>1. SUFFICES ASSUME Free(b) = {} PROVE Reply(b).done # 0
      BY <2>4
    <3>2. ttt_ai(b) = b
      BY <3>1 DEF ttt_ai
    <3> QED
      BY <3>1, <3>2 DEF Reply
  <2>6. Cardinality(Marks(b, 1)) = Cardinality(Marks(b, 2)) + 1
    BY <2>2, <2>3
  <2>7. TicTacToeInv(Reply(b))
    BY <2>1, <2>3, <2>4, <2>5, <2>6, ReplyInOrder
  <2> QED
    BY <1>1, <1>4, <2>1, <2>7
<1> QED
  BY <1>2, <1>3, <1>4

------------------------------------------------------------------------------
\* Snake.

LEMMA ScaledInt ==
  ASSUME NEW i \in Int
  PROVE  Scaled(i) \in Int
BY ArcadeAssumption DEF Scaled

LEMMA ZeroPoint == ZERO \in Point /\ ZERO[1] = 0 /\ ZERO[2] = 0
BY DEF ZERO, Point

LEMMA SnakeOpenedInv == SnakeInv(SnakeOpened)
<1> DEFINE p == <<Scaled(10), Scaled(10)>>
           b == <<p, ZERO, ZERO>>
<1>1. p \in Point
  <2>1. 10 \in Int
    OBVIOUS
  <2>2. Scaled(10) \in Int
    BY <2>1, ArcadeAssumption DEF Scaled
  <2> QED
    BY <2>2 DEF Point
<1>2. SnakeOpened.body = b /\ SnakeOpened.dir = <<1, 0>> /\ SnakeOpened.dead = FALSE
  BY DEF SnakeOpened
<1>3. {"body", "dir", "food", "dead"} \subseteq DOMAIN SnakeOpened
  BY DEF SnakeOpened
<1> HIDE DEF p
<1>4. b \in Seq(Point) /\ Len(b) = 3 /\ b[2] = ZERO /\ b[3] = ZERO
  BY <1>1, ZeroPoint
<1> HIDE DEF b
<1>5. SnakeType(SnakeOpened)
  BY <1>2, <1>3, <1>4 DEF SnakeType, Units
<1>6. Crawls(b, 1)
  <2>1. \A i \in 1 + 1..3 : b[i] = ZERO
    BY <1>4
  <2> QED
    BY <1>4, <2>1 DEF Crawls
<1>7. NeckBehind(SnakeOpened, 1)
  BY DEF NeckBehind
<1> QED
  BY <1>2, <1>4, <1>5, <1>6, <1>7 DEF SnakeInv

LEMMA SnakeStarts == SnakeInv(snake_init)
<1> DEFINE m == Scaled(9)
           b == <<<<m, m>>, <<m - 1, m>>, <<m - 2, m>>>>
<1>1. m \in Int
  <2>1. 9 \in Int
    OBVIOUS
  <2> QED
    BY <2>1, ArcadeAssumption DEF Scaled
<1>2. snake_init.body = b /\ snake_init.dir = <<1, 0>> /\ snake_init.dead = FALSE
  BY DEF snake_init
<1>3. {"body", "dir", "food", "dead"} \subseteq DOMAIN snake_init
  BY DEF snake_init
<1> HIDE DEF m
<1>4. /\ b \in Seq(Point) /\ Len(b) = 3
      /\ b[1] = <<m, m>> /\ b[2] = <<m - 1, m>> /\ b[3] = <<m - 2, m>>
  BY <1>1 DEF Point
<1> HIDE DEF b
<1>5. SnakeType(snake_init)
  BY <1>2, <1>3, <1>4 DEF SnakeType, Units
<1>6. Crawls(b, 3)
  <2>1. b[1] # b[2] /\ b[1] # b[3] /\ b[2] # b[3]
    BY <1>1, <1>4
  <2>2. Adjacent(b[1], b[2]) /\ Adjacent(b[2], b[3])
    BY <1>1, <1>4 DEF Adjacent
  <2>3. \A i, j \in 1..3 : b[i] = b[j] => i = j
    <3> SUFFICES ASSUME NEW i \in 1..3, NEW j \in 1..3, b[i] = b[j] PROVE i = j
      OBVIOUS
    <3>1. (i = 1 \/ i = 2 \/ i = 3) /\ (j = 1 \/ j = 2 \/ j = 3)
      OBVIOUS
    <3> QED
      BY <2>1, <3>1
  <2>4. \A i \in 1..3 - 1 : Adjacent(b[i], b[i + 1])
    <3> SUFFICES ASSUME NEW i \in 1..2 PROVE Adjacent(b[i], b[i + 1])
      OBVIOUS
    <3>1. (i = 1 /\ i + 1 = 2) \/ (i = 2 /\ i + 1 = 3)
      OBVIOUS
    <3> QED
      BY <2>2, <3>1
  <2>5. 3 \in 1..Len(b) /\ 3 >= Len(b) - 2 /\ 3 + 1..Len(b) = {}
    BY <1>4
  <2> QED
    BY <2>3, <2>4, <2>5 DEF Crawls
<1>7. NeckBehind(snake_init, 3)
  <2>1. b[2] = <<b[1][1] - 1, b[1][2] - 0>>
    BY <1>1, <1>4
  <2> QED
    BY <1>2, <2>1 DEF NeckBehind
<1> QED
  BY <1>2, <1>4, <1>5, <1>6, <1>7 DEF SnakeInv

\* Keys turn the snake, and only to a side.
LEMMA SteerTurns ==
  ASSUME NEW s, SnakeType(s), NEW key \in Arrows
  PROVE  LET t == Steer(s, key)
         IN  /\ SnakeType(t) /\ t.body = s.body /\ t.dead = s.dead
             /\ t.dir = s.dir \/ (s.dir[1] = 0 /\ t.dir[2] = 0) \/ (s.dir[2] = 0 /\ t.dir[1] = 0)
<1> DEFINE up == [s EXCEPT !.dir = <<0, -1>>]
           down == [s EXCEPT !.dir = <<0, 1>>]
           left == [s EXCEPT !.dir = <<-1, 0>>]
           right == [s EXCEPT !.dir = <<1, 0>>]
           t == Steer(s, key)
<1>1. /\ SnakeType(up) /\ up.body = s.body /\ up.dead = s.dead /\ up.dir = <<0, -1>>
      /\ SnakeType(down) /\ down.body = s.body /\ down.dead = s.dead /\ down.dir = <<0, 1>>
      /\ SnakeType(left) /\ left.body = s.body /\ left.dead = s.dead /\ left.dir = <<-1, 0>>
      /\ SnakeType(right) /\ right.body = s.body /\ right.dead = s.dead /\ right.dir = <<1, 0>>
  BY DEF SnakeType, Units
<1>2. t = s \/ (s.dir[2] = 0 /\ t \in {up, down}) \/ (s.dir[1] = 0 /\ t \in {left, right})
  BY DEF Steer
<1> HIDE DEF up, down, left, right, t
<1>3. /\ SnakeType(t) /\ t.body = s.body /\ t.dead = s.dead
      /\ t.dir = s.dir \/ (s.dir[1] = 0 /\ t.dir[2] = 0) \/ (s.dir[2] = 0 /\ t.dir[1] = 0)
  BY <1>1, <1>2
<1> QED
  BY <1>3 DEF t

\* The body after a step: the head ahead, every segment where the one before it was.
LEMMA MovedUp ==
  ASSUME NEW b \in Seq(Point), Len(b) >= 1, NEW head \in Point
  PROVE  LET m == <<head>> \o Front(b)
         IN  /\ m \in Seq(Point) /\ Len(m) = Len(b) /\ m[1] = head
             /\ \A i \in 2..Len(b) : m[i] = b[i - 1]
<1> DEFINE f == Front(b)
           h == <<head>>
<1>1. Len(b) \in Nat
  OBVIOUS
<1>2. f \in Seq(Point) /\ Len(f) = Len(b) - 1 /\ \A i \in 1..Len(b) - 1 : f[i] = b[i]
  <2> DEFINE n == Len(b) - 1
  <2>1. n \in Int /\ n >= 0 /\ 1 \in Int /\ \A i \in 1..n : b[i] \in Point
    BY <1>1
  <2>2. f = SubSeq(b, 1, n)
    BY DEF Front
  <2> HIDE DEF n
  <2>3. /\ SubSeq(b, 1, n) \in Seq(Point)
        /\ Len(SubSeq(b, 1, n)) = IF 1 <= n THEN n - 1 + 1 ELSE 0
        /\ \A i \in 1..n - 1 + 1 : SubSeq(b, 1, n)[i] = b[1 + i - 1]
    BY <2>1, SubSeqProperties
  <2>4. Len(f) = n /\ \A i \in 1..n : f[i] = b[i]
    BY <2>1, <2>2, <2>3
  <2> QED
    BY <2>2, <2>3, <2>4 DEF n
<1>3. h \in Seq(Point) /\ Len(h) = 1 /\ h[1] = head
  OBVIOUS
<1> HIDE DEF f, h
<1> DEFINE m == h \o f
<1>4. /\ m \in Seq(Point) /\ Len(m) = Len(h) + Len(f)
      /\ \A i \in 1..Len(h) + Len(f) : m[i] = IF i <= Len(h) THEN h[i] ELSE f[i - Len(h)]
  BY <1>2, <1>3, ConcatProperties
<1> HIDE DEF m
<1>5. Len(m) = Len(b) /\ m[1] = head
  BY <1>1, <1>2, <1>3, <1>4
<1>6. ASSUME NEW i \in 2..Len(b) PROVE m[i] = b[i - 1]
  <2>1. i \in 1..Len(h) + Len(f) /\ ~(i <= Len(h)) /\ i - 1 \in 1..Len(b) - 1 /\ i - Len(h) = i - 1
    BY <1>1, <1>2, <1>3
  <2>2. m[i] = f[i - 1]
    BY <1>4, <2>1
  <2> QED
    BY <1>2, <2>1, <2>2
<1> QED
  BY <1>4, <1>5, <1>6 DEF m, h, f

\* A body that moved up, with or without a segment that grew.
LEMMA CrawledOn ==
  ASSUME NEW b \in Seq(Point), NEW k, Crawls(b, k), NEW head \in Point,
         NEW m \in Seq(Point), Len(m) \in {Len(b), Len(b) + 1}, m[1] = head,
         \A i \in 2..Len(b) : m[i] = b[i - 1],
         Len(m) = Len(b) + 1 => m[Len(b) + 1] = ZERO,
         \A i \in 1..Len(b) : b[i] # head,
         Adjacent(head, b[1])
  PROVE  Crawls(m, IF k < Len(b) THEN k + 1 ELSE k)
<1> DEFINE k1 == IF k < Len(b) THEN k + 1 ELSE k
<1>1. /\ Len(b) \in Nat /\ k \in 1..Len(b) /\ k >= Len(b) - 2
      /\ \A i \in k + 1..Len(b) : b[i] = ZERO
      /\ \A i, j \in 1..k : b[i] = b[j] => i = j
      /\ \A i \in 1..k - 1 : Adjacent(b[i], b[i + 1])
  BY DEF Crawls
<1>2. k1 \in 1..Len(m) /\ k1 >= Len(m) - 2 /\ k1 \in 1..Len(b) /\ k1 <= k + 1
  BY <1>1
<1>3. ASSUME NEW i \in k1 + 1..Len(m) PROVE m[i] = ZERO
  <2>1. CASE i = Len(b) + 1
    BY <1>1, <1>2, <1>3, <2>1
  <2>2. CASE i # Len(b) + 1
    <3>1. i \in 2..Len(b) /\ i - 1 \in k + 1..Len(b)
      BY <1>1, <1>2, <1>3, <2>2
    <3> QED
      BY <1>1, <3>1
  <2> QED
    BY <2>1, <2>2
<1> HIDE DEF k1
<1>4. ASSUME NEW i \in 2..k1 PROVE m[i] = b[i - 1] /\ i - 1 \in 1..k /\ i - 1 \in 1..Len(b)
  BY <1>1, <1>2
<1>5. ASSUME NEW i \in 1..k1, NEW j \in 1..k1, m[i] = m[j] PROVE i = j
  <2>1. CASE i = 1 /\ j = 1
    BY <2>1
  <2>2. CASE i = 1 /\ j # 1
    <3>1. j \in 2..k1
      BY <1>2, <2>2
    <3> QED
      BY <1>4, <1>5, <2>2, <3>1
  <2>3. CASE i # 1 /\ j = 1
    <3>1. i \in 2..k1
      BY <1>2, <2>3
    <3> QED
      BY <1>4, <1>5, <2>3, <3>1
  <2>4. CASE i # 1 /\ j # 1
    <3>1. i \in 2..k1 /\ j \in 2..k1
      BY <1>2, <2>4
    <3>2. b[i - 1] = b[j - 1] /\ i - 1 \in 1..k /\ j - 1 \in 1..k
      BY <1>4, <1>5, <3>1
    <3>3. i - 1 = j - 1
      BY <1>1, <3>2
    <3> QED
      BY <3>1, <3>3
  <2> QED
    BY <2>1, <2>2, <2>3, <2>4
<1>6. ASSUME NEW i \in 1..k1 - 1 PROVE Adjacent(m[i], m[i + 1])
  <2>1. i + 1 \in 2..k1 /\ i + 1 - 1 = i
    BY <1>2
  <2>2. m[i + 1] = b[i]
    BY <1>4, <2>1
  <2>3. CASE i = 1
    BY <2>2, <2>3
  <2>4. CASE i # 1
    <3>1. i \in 2..k1 /\ i - 1 \in 1..k - 1 /\ i - 1 + 1 = i
      BY <1>1, <1>2, <2>4
    <3>2. m[i] = b[i - 1]
      BY <1>4, <3>1
    <3>3. Adjacent(b[i - 1], b[i - 1 + 1])
      BY <1>1, <3>1
    <3> QED
      BY <2>2, <3>1, <3>2, <3>3
  <2> QED
    BY <2>3, <2>4
<1>7. Crawls(m, k1)
  BY <1>2, <1>3, <1>5, <1>6 DEF Crawls
<1> QED
  BY <1>7 DEF k1

LEMMA CrawlKeeps ==
  ASSUME NEW s, SnakeType(s), ~s.dead, NEW k \in 1..Len(s.body), Crawls(s.body, k), NEW n
  PROVE  SnakeInv(Crawl(s, n))
<1> DEFINE b == s.body
           head == Ahead(s)
           moved == <<head>> \o Front(b)
           off == head[1] \notin 0..SN_SIZE - 1 \/ head[2] \notin 0..SN_SIZE - 1
           grown == IF Len(moved) < SN_MAX THEN Append(moved, ZERO) ELSE moved
           lost == [s EXCEPT !.dead = TRUE]
           on == [s EXCEPT !.body = moved]
           ate == [s EXCEPT !.food = FoodAt(n), !.body = grown]
           r == Crawl(s, n)
<1>1. /\ {"body", "dir", "food", "dead"} \subseteq DOMAIN s
      /\ b \in Seq(Point) /\ s.dir \in Units /\ Len(b) \in Nat /\ Len(b) >= 1 /\ b[1] \in Point
  BY DEF SnakeType
<1>2. s.dir[1] \in Int /\ s.dir[2] \in Int /\ b[1][1] \in Int /\ b[1][2] \in Int
      /\ b[1] = <<b[1][1], b[1][2]>>
  BY <1>1 DEF Units, Point
<1>3. head = <<b[1][1] + s.dir[1], b[1][2] + s.dir[2]>> /\ head \in Point
  BY <1>2 DEF Ahead, Point
<1>4. Adjacent(head, b[1])
  <2>1. head[1] - b[1][1] = s.dir[1] /\ head[2] - b[1][2] = s.dir[2]
    BY <1>2, <1>3
  <2>2. s.dir[1] * s.dir[1] + s.dir[2] * s.dir[2] = 1
    BY <1>1 DEF Units
  <2> QED
    BY <2>1, <2>2 DEF Adjacent
<1>5. b[1] = <<head[1] - s.dir[1], head[2] - s.dir[2]>>
  <2>1. head[1] - s.dir[1] = b[1][1] /\ head[2] - s.dir[2] = b[1][2]
    BY <1>2, <1>3
  <2> QED
    BY <1>2, <2>1
<1>6. r = IF off \/ head \in Range(b) THEN lost ELSE IF head # s.food THEN on ELSE ate
  BY DEF Crawl
<1> HIDE DEF head, off, r
<1>7. CASE off \/ head \in Range(b)
  <2>1. r = lost
    BY <1>6, <1>7
  <2>2. SnakeType(lost) /\ lost.body = b /\ lost.dead
    BY <1>1 DEF SnakeType
  <2>3. NeckBehind(lost, k)
    BY <2>2 DEF NeckBehind
  <2> HIDE DEF lost
  <2>4. SnakeInv(r)
    BY <2>1, <2>2, <2>3 DEF SnakeInv
  <2> QED
    BY <2>4 DEF r
<1>8. CASE ~(off \/ head \in Range(b))
  <2>1. /\ moved \in Seq(Point) /\ Len(moved) = Len(b) /\ moved[1] = head
        /\ \A i \in 2..Len(b) : moved[i] = b[i - 1]
    BY <1>1, <1>3, MovedUp
  <2> HIDE DEF moved, b
  <2>2. /\ grown \in Seq(Point) /\ Len(grown) \in {Len(b), Len(b) + 1} /\ grown[1] = head
        /\ \A i \in 2..Len(b) : grown[i] = b[i - 1]
        /\ Len(grown) = Len(b) + 1 => grown[Len(b) + 1] = ZERO
    <3>1. CASE grown = moved
      BY <1>1, <2>1, <3>1
    <3>2. CASE grown = Append(moved, ZERO)
      <4>1. /\ Append(moved, ZERO) \in Seq(Point)
            /\ Len(Append(moved, ZERO)) = Len(moved) + 1
            /\ \A i \in 1..Len(moved) : Append(moved, ZERO)[i] = moved[i]
            /\ Append(moved, ZERO)[Len(moved) + 1] = ZERO
        BY <2>1, ZeroPoint, AppendProperties
      <4> HIDE DEF grown
      <4> QED
        BY <1>1, <2>1, <3>2, <4>1
    <3> QED
      BY <3>1, <3>2
  <2> HIDE DEF grown
  <2>3. \A i \in 1..Len(b) : b[i] # head
    BY <1>1, <1>8 DEF Range
  <2> DEFINE k1 == IF k < Len(b) THEN k + 1 ELSE k
  <2>4. Crawls(b, k)
    BY DEF b
  <2>5. Crawls(moved, k1)
    <3>1. Len(moved) \in {Len(b), Len(b) + 1} /\ Len(moved) # Len(b) + 1
      BY <1>1, <2>1
    <3>2. Len(moved) = Len(b) + 1 => moved[Len(b) + 1] = ZERO
      BY <3>1
    <3> QED
      BY <1>1, <1>3, <1>4, <2>1, <2>3, <2>4, <3>1, <3>2, CrawledOn
  <2>6. Crawls(grown, k1)
    BY <1>1, <1>3, <1>4, <2>2, <2>3, <2>4, CrawledOn
  <2> HIDE DEF k1
  <2>7. ASSUME NEW t, SnakeType(t), t.dir = s.dir, t.body[1] = head,
               \A i \in 2..Len(b) : t.body[i] = b[i - 1],
               Len(b) >= 2 \/ k1 = 1, Crawls(t.body, k1)
        PROVE  SnakeInv(t)
    <3>1. NeckBehind(t, k1)
      <4>1. CASE k1 >= 2
        <5>1. Len(b) >= 2
          BY <2>7, <4>1
        <5>2. t.body[2] = b[1]
          <6>1. 2 \in 2..Len(b) /\ 2 - 1 = 1
            BY <1>1, <5>1
          <6> QED
            BY <2>7, <6>1
        <5> QED
          BY <1>5, <2>7, <5>2 DEF NeckBehind
      <4>2. CASE ~(k1 >= 2)
        BY <4>2 DEF NeckBehind
      <4> QED
        BY <4>1, <4>2
    <3>2. k1 \in 1..Len(t.body)
      BY <2>7 DEF Crawls
    <3> QED
      BY <2>7, <3>1, <3>2 DEF SnakeInv
  <2>8. Len(b) >= 2 \/ k1 = 1
    BY <1>1 DEF k1, b
  <2>9. SnakeType(on) /\ on.dir = s.dir /\ on.body = moved
    BY <1>1, <2>1 DEF SnakeType
  <2>10. SnakeType(ate) /\ ate.dir = s.dir /\ ate.body = grown
    BY <1>1, <2>2 DEF SnakeType
  <2> HIDE DEF on, ate
  <2>11. SnakeInv(on)
    BY <2>1, <2>5, <2>7, <2>8, <2>9
  <2>12. SnakeInv(ate)
    BY <2>2, <2>6, <2>7, <2>8, <2>10
  <2>13. SnakeInv(r)
    BY <1>6, <1>8, <2>11, <2>12
  <2> QED
    BY <2>13 DEF r
<1> QED
  BY <1>7, <1>8

LEMMA SnakeKeeps ==
  ASSUME NEW s, SnakeInv(s), NEW key \in Arrows, NEW click \in BOOLEAN, NEW n
  PROVE  SnakeInv(render_snake(s, key, click, n))
<1> DEFINE t == Steer(s, key)
           u == IF click /\ t.dead THEN snake_init ELSE t
<1>1. PICK k \in 1..Len(s.body) : Crawls(s.body, k) /\ NeckBehind(s, k)
  BY DEF SnakeInv
<1>2. SnakeType(t) /\ t.body = s.body /\ t.dead = s.dead
  BY SteerTurns DEF SnakeInv
<1>3. render_snake(s, key, click, n) = IF u.dead THEN u ELSE Crawl(u, n)
  BY DEF render_snake
<1> HIDE DEF t
<1>4. SnakeType(u) /\ \E j \in 1..Len(u.body) : Crawls(u.body, j)
  <2>1. CASE click /\ t.dead
    <3>1. u = snake_init
      BY <2>1
    <3> QED
      BY <3>1, SnakeStarts DEF SnakeInv
  <2>2. CASE ~(click /\ t.dead)
    <3>1. u = t
      BY <2>2
    <3> QED
      BY <1>1, <1>2, <3>1
  <2> QED
    BY <2>1, <2>2
<1> HIDE DEF u
<1>5. PICK j \in 1..Len(u.body) : Crawls(u.body, j)
  BY <1>4
<1>6. CASE u.dead
  <2>1. NeckBehind(u, j)
    BY <1>6 DEF NeckBehind
  <2> QED
    BY <1>3, <1>4, <1>5, <1>6, <2>1 DEF SnakeInv
<1>7. CASE ~u.dead
  <2>1. SnakeInv(Crawl(u, n))
    BY <1>4, <1>5, <1>7, CrawlKeeps
  <2> QED
    BY <1>3, <1>7, <2>1
<1> QED
  BY <1>6, <1>7

LEMMA SnakeOrder ==
  ASSUME NEW s, SnakeInv(s)
  PROVE  SnakeInOrder(s)
<1>1. PICK k \in 1..Len(s.body) : Crawls(s.body, k) /\ NeckBehind(s, k)
  BY DEF SnakeInv
<1>2. /\ s.body \in Seq(Point) /\ s.dir \in Units /\ Len(s.body) \in Nat
  BY DEF SnakeInv, SnakeType
<1>3. ASSUME ~s.dead, k >= 2, NEW key \in Arrows PROVE Ahead(Steer(s, key)) # s.body[2]
  <2> DEFINE t == Steer(s, key)
             p == s.body[1]
  <2>1. /\ t.body = s.body /\ t.dir \in Units
        /\ t.dir = s.dir \/ (s.dir[1] = 0 /\ t.dir[2] = 0) \/ (s.dir[2] = 0 /\ t.dir[1] = 0)
    BY SteerTurns DEF SnakeInv, SnakeType
  <2> HIDE DEF t
  <2>2. Ahead(t) = <<p[1] + t.dir[1], p[2] + t.dir[2]>>
    BY <2>1 DEF Ahead
  <2>3. s.body[2] = <<p[1] - s.dir[1], p[2] - s.dir[2]>>
    BY <1>1, <1>3 DEF NeckBehind
  <2>4. p[1] \in Int /\ p[2] \in Int
    <3>1. p \in Point
      BY <1>2
    <3> QED
      BY <3>1 DEF Point
  <2> HIDE DEF p
  <2>5. t.dir[1] # -s.dir[1] \/ t.dir[2] # -s.dir[2]
    BY <1>2, <2>1 DEF Units
  <2>6. t.dir[1] \in Int /\ t.dir[2] \in Int /\ s.dir[1] \in Int /\ s.dir[2] \in Int
    BY <1>2, <2>1 DEF Units
  <2>7. p[1] + t.dir[1] # p[1] - s.dir[1] \/ p[2] + t.dir[2] # p[2] - s.dir[2]
    <3> DEFINE px == p[1]
               py == p[2]
               dx == t.dir[1]
               dy == t.dir[2]
               ex == s.dir[1]
               ey == s.dir[2]
    <3>1. /\ px \in Int /\ py \in Int /\ dx \in Int /\ dy \in Int /\ ex \in Int /\ ey \in Int
          /\ dx # -ex \/ dy # -ey
      BY <2>4, <2>5, <2>6
    <3> HIDE DEF px, py, dx, dy, ex, ey
    <3>2. px + dx # px - ex \/ py + dy # py - ey
      BY <3>1
    <3> QED
      BY <3>2 DEF px, py, dx, dy, ex, ey
  <2>8. Ahead(t) # s.body[2]
    BY <2>2, <2>3, <2>7
  <2> QED
    BY <2>8 DEF t
<1> QED
  BY <1>1, <1>3 DEF SnakeInOrder, Crawls, Adjacent

------------------------------------------------------------------------------
\* Tetris.

Pair == Int \X Int

LEMMA CellsPairs ==
  ASSUME NEW rows, NEW cols, \A i \in 1..4 : rows[i] \in Int /\ cols[i] \in Int
  PROVE  Cells(rows, cols) \subseteq Pair
BY DEF Cells, Pair

\* The rows that go below row x.
Below(gone, x) == {r \in gone : r > x}

LEMMA RowsSlide ==
  ASSUME NEW n \in Nat, NEW gone \in SUBSET (0..n - 1), NEW x \in 0..n - 1
  PROVE  Cardinality(Below(gone, x)) \in Nat /\ x + Cardinality(Below(gone, x)) <= n - 1
<1> DEFINE B == Below(gone, x)
           I == x + 1..n - 1
<1>1. B \subseteq I
  <2> SUFFICES ASSUME NEW r \in gone, r > x PROVE r \in x + 1..n - 1
    BY DEF Below
  <2>1. r \in Int /\ r <= n - 1
    OBVIOUS
  <2> QED
    BY <2>1
<1>2. x + 1 \in Int /\ n - 1 \in Int
  OBVIOUS
<1>3. IsFiniteSet(I) /\ Cardinality(I) = IF x + 1 > n - 1 THEN 0 ELSE n - 1 - (x + 1) + 1
  BY <1>2, FS_Interval
<1>4. Cardinality(I) = n - 1 - x
  BY <1>3
<1> HIDE DEF B, I
<1>5. IsFiniteSet(B) /\ Cardinality(B) <= Cardinality(I)
  BY <1>1, <1>3, FS_Subset
<1>6. Cardinality(B) \in Nat
  BY <1>5, FS_CardinalityType
<1>7. x + Cardinality(B) <= n - 1
  BY <1>4, <1>5, <1>6
<1> QED
  BY <1>6, <1>7 DEF B

\* Rows that stay keep their order.
LEMMA RowsKeepOrder ==
  ASSUME NEW n \in Nat, NEW gone \in SUBSET (0..n - 1),
         NEW x \in 0..n - 1, NEW y \in 0..n - 1, x < y, y \notin gone
  PROVE  x + Cardinality(Below(gone, x)) < y + Cardinality(Below(gone, y))
<1> DEFINE A == {r \in gone : r > x /\ r < y}
           B == Below(gone, y)
           I == x + 1..y - 1
<1>1. Below(gone, x) = A \cup B /\ A \cap B = {}
  <2>1. \A r \in gone : r \in Int
    OBVIOUS
  <2>2. \A r \in gone : r > x <=> (r > x /\ r < y) \/ r > y
    <3> SUFFICES ASSUME NEW r \in gone PROVE r > x <=> (r > x /\ r < y) \/ r > y
      OBVIOUS
    <3>1. r \in Int /\ r # y
      BY <2>1
    <3> QED
      BY <3>1
  <2>3. \A r \in gone : ~((r > x /\ r < y) /\ r > y)
    <3> SUFFICES ASSUME NEW r \in gone PROVE ~(r < y /\ r > y)
      OBVIOUS
    <3> QED
      BY <2>1
  <2> QED
    BY <2>2, <2>3 DEF Below
<1>2. A \subseteq I
  <2> SUFFICES ASSUME NEW r \in gone, r > x, r < y PROVE r \in x + 1..y - 1
    OBVIOUS
  <2>1. r \in Int
    OBVIOUS
  <2> QED
    BY <2>1
<1>3. x + 1 \in Int /\ y - 1 \in Int
  OBVIOUS
<1>4. IsFiniteSet(I) /\ Cardinality(I) = IF x + 1 > y - 1 THEN 0 ELSE y - 1 - (x + 1) + 1
  BY <1>3, FS_Interval
<1>5. Cardinality(I) = y - 1 - x
  BY <1>4
<1> DEFINE R == 0..n - 1
<1>6. IsFiniteSet(R) /\ B \subseteq R
  <2>1. 0 \in Int /\ n - 1 \in Int
    OBVIOUS
  <2>2. IsFiniteSet(R)
    BY <2>1, FS_Interval
  <2> QED
    BY <2>2 DEF Below
<1> HIDE DEF A, B, I, R
<1>7. IsFiniteSet(A) /\ Cardinality(A) <= Cardinality(I)
  BY <1>2, <1>4, FS_Subset
<1>8. IsFiniteSet(B)
  BY <1>6, FS_Subset
<1>9. Cardinality(A \cup B) = Cardinality(A) + Cardinality(B) - Cardinality(A \cap B)
  BY <1>7, <1>8, FS_Union
<1>10. Cardinality(A \cap B) = 0
  BY <1>1, FS_EmptySet
<1>11. Cardinality(A) \in Nat /\ Cardinality(B) \in Nat
  BY <1>7, <1>8, FS_CardinalityType
<1> DEFINE a == Cardinality(A)
           b == Cardinality(B)
           c == Cardinality(A \cup B)
<1>12. a \in Nat /\ b \in Nat /\ c = a + b /\ a <= y - 1 - x
  BY <1>5, <1>7, <1>9, <1>10, <1>11
<1> HIDE DEF a, b, c
<1>13. x + c < y + b
  BY <1>12
<1> QED
  BY <1>1, <1>13 DEF b, c, B

Grid == (0..TET_ROWS - 1) \X (0..TET_COLS - 1)

\* No row is full once the full ones have gone.
LEMMA SettleClears ==
  ASSUME NEW board \in SUBSET Grid
  PROVE  Settle(board) \subseteq Grid /\ Full(Settle(board)) = {}
<1> DEFINE F == Full(board)
           g(x) == x + Cardinality(Below(F, x))
           S == Settle(board)
<1>1. TET_ROWS \in Nat /\ TET_COLS \in Nat /\ 0 \in 0..TET_COLS - 1
  BY ArcadeAssumption
<1>2. F \in SUBSET (0..TET_ROWS - 1)
  BY DEF Full
<1>3. S = {<<g(cell[1]), cell[2]>> : cell \in {d \in board : d[1] \notin F}}
  BY DEF Settle, Below
<1> HIDE DEF F, S
<1>4. ASSUME NEW x \in 0..TET_ROWS - 1
      PROVE  g(x) \in 0..TET_ROWS - 1
  <2>1. Cardinality(Below(F, x)) \in Nat /\ x + Cardinality(Below(F, x)) <= TET_ROWS - 1
    BY <1>1, <1>2, RowsSlide
  <2> QED
    BY <1>1, <2>1
<1>5. ASSUME NEW x \in 0..TET_ROWS - 1, NEW y \in 0..TET_ROWS - 1, x \notin F, y \notin F, g(x) = g(y)
      PROVE  x = y
  <2>1. CASE x < y
    <3>1. g(x) < g(y)
      BY <1>1, <1>2, <1>5, <2>1, RowsKeepOrder
    <3>2. g(x) \in Int
      BY <1>4
    <3> HIDE DEF g
    <3> QED
      BY <1>5, <3>1, <3>2
  <2>2. CASE y < x
    <3>1. g(y) < g(x)
      BY <1>1, <1>2, <1>5, <2>2, RowsKeepOrder
    <3>2. g(x) \in Int
      BY <1>4
    <3> HIDE DEF g
    <3> QED
      BY <1>5, <3>1, <3>2
  <2> QED
    BY <2>1, <2>2
<1> HIDE DEF g
<1>6. ASSUME NEW d \in board
      PROVE  d[1] \in 0..TET_ROWS - 1 /\ d[2] \in 0..TET_COLS - 1 /\ d = <<d[1], d[2]>>
  BY DEF Grid
<1>7. S \subseteq Grid
  <2> SUFFICES ASSUME NEW d \in board, d[1] \notin F PROVE <<g(d[1]), d[2]>> \in Grid
    BY <1>3
  <2>1. g(d[1]) \in 0..TET_ROWS - 1
    BY <1>4, <1>6
  <2> QED
    BY <1>6, <2>1 DEF Grid
<1>8. ASSUME NEW q, NEW c, <<q, c>> \in S
      PROVE  \E x \in 0..TET_ROWS - 1 : x \notin F /\ g(x) = q /\ <<x, c>> \in board
  <2>1. PICK d \in board : d[1] \notin F /\ <<q, c>> = <<g(d[1]), d[2]>>
    BY <1>3, <1>8
  <2>2. q = g(d[1]) /\ c = d[2]
    BY <2>1
  <2> QED
    BY <1>6, <2>1, <2>2
<1>9. Full(S) = {}
  <2> SUFFICES ASSUME NEW q \in 0..TET_ROWS - 1, \A c \in 0..TET_COLS - 1 : <<q, c>> \in S
               PROVE  FALSE
    BY DEF Full
  <2>1. PICK x \in 0..TET_ROWS - 1 : x \notin F /\ g(x) = q /\ <<x, 0>> \in board
    BY <1>1, <1>8
  <2>2. ASSUME NEW c \in 0..TET_COLS - 1 PROVE <<x, c>> \in board
    <3>1. <<q, c>> \in S
      OBVIOUS
    <3>2. PICK y \in 0..TET_ROWS - 1 : y \notin F /\ g(y) = q /\ <<y, c>> \in board
      BY <1>8, <3>1
    <3>3. y = x
      BY <1>5, <2>1, <3>2
    <3> QED
      BY <3>2, <3>3
  <2>3. x \in F
    BY <2>2 DEF F, Full
  <2> QED
    BY <2>1, <2>3
<1> QED
  BY <1>7, <1>9 DEF S

LEMMA ShapesPairs ==
  ASSUME NEW piece \in 0..6, NEW rot \in 0..3
  PROVE  tet_shapes[piece][rot + 1] \subseteq Pair
<1> DEFINE shape == tet_shapes[piece]
<1>1. rot + 1 \in 1..4 /\ (rot = 0 \/ rot = 1 \/ rot = 2 \/ rot = 3)
  OBVIOUS
<1>2. CASE piece = 0
  <2>1. shape = <<Cells(<<0,0,0,0>>, <<0,1,2,3>>), Cells(<<0,1,2,3>>, <<2,2,2,2>>),
                  Cells(<<2,2,2,2>>, <<0,1,2,3>>), Cells(<<0,1,2,3>>, <<1,1,1,1>>)>>
    BY <1>2 DEF tet_shapes
  <2> QED
    BY <1>1, <2>1, CellsPairs
<1>3. CASE piece = 1
  <2>1. shape = [r \in 1..4 |-> Cells(<<0,0,1,1>>, <<1,2,1,2>>)]
    BY <1>3 DEF tet_shapes
  <2> QED
    BY <1>1, <2>1, CellsPairs
<1>4. CASE piece = 2
  <2>1. shape = <<Cells(<<0,1,1,1>>, <<1,0,1,2>>), Cells(<<0,1,1,2>>, <<1,1,2,1>>),
                  Cells(<<1,1,1,2>>, <<0,1,2,1>>), Cells(<<0,1,1,2>>, <<1,0,1,1>>)>>
    BY <1>4 DEF tet_shapes
  <2> QED
    BY <1>1, <2>1, CellsPairs
<1>5. CASE piece = 3
  <2>1. shape = <<Cells(<<0,0,1,1>>, <<1,2,0,1>>), Cells(<<0,1,1,2>>, <<1,1,2,2>>),
                  Cells(<<1,1,2,2>>, <<1,2,0,1>>), Cells(<<0,1,1,2>>, <<0,0,1,1>>)>>
    BY <1>5 DEF tet_shapes
  <2> QED
    BY <1>1, <2>1, CellsPairs
<1>6. CASE piece = 4
  <2>1. shape = <<Cells(<<0,0,1,1>>, <<0,1,1,2>>), Cells(<<0,1,1,2>>, <<2,1,2,1>>),
                  Cells(<<1,1,2,2>>, <<0,1,1,2>>), Cells(<<0,1,1,2>>, <<1,0,1,0>>)>>
    BY <1>6 DEF tet_shapes
  <2> QED
    BY <1>1, <2>1, CellsPairs
<1>7. CASE piece = 5
  <2>1. shape = <<Cells(<<0,1,1,1>>, <<0,0,1,2>>), Cells(<<0,0,1,2>>, <<1,2,1,1>>),
                  Cells(<<1,1,1,2>>, <<0,1,2,2>>), Cells(<<0,1,2,2>>, <<1,1,0,1>>)>>
    BY <1>7 DEF tet_shapes
  <2> QED
    BY <1>1, <2>1, CellsPairs
<1>8. CASE piece = 6
  <2>1. shape = <<Cells(<<0,1,1,1>>, <<2,0,1,2>>), Cells(<<0,1,2,2>>, <<1,1,1,2>>),
                  Cells(<<1,1,1,2>>, <<0,1,2,0>>), Cells(<<0,0,1,2>>, <<0,1,1,1>>)>>
    BY <1>8 DEF tet_shapes
  <2> QED
    BY <1>1, <2>1, CellsPairs
<1> QED
  BY <1>2, <1>3, <1>4, <1>5, <1>6, <1>7, <1>8

\* What a frame knows of the board and of the piece.
TetrisState(s) ==
  /\ {"board", "piece", "rot", "px", "py", "dead", "init"} \subseteq DOMAIN s
  /\ s.board \subseteq Grid /\ Full(s.board) = {}
  /\ s.piece \in 0..6 /\ s.rot \in 0..3 /\ s.px \in Int /\ s.py \in Int
  /\ s.init \in BOOLEAN

LEMMA TetrisInvIs ==
  ASSUME NEW s
  PROVE  TetrisInv(s) <=> TetrisState(s) /\ (s.init => (s.dead <=> ~tet_valid(s)))
<1>1. ASSUME s.board \subseteq Grid, NEW cell \in s.board
      PROVE  cell[1] \in 0..TET_ROWS - 1 /\ cell[2] \in 0..TET_COLS - 1
  BY <1>1 DEF Grid
<1> QED
  BY <1>1 DEF TetrisInv, TetrisState, TetrisInOrder, Grid

LEMMA SamePlace ==
  ASSUME NEW s, NEW t, t.board = s.board, t.piece = s.piece, t.rot = s.rot,
         t.px = s.px, t.py = s.py
  PROVE  tet_valid(t) <=> tet_valid(s)
<1>1. Covers(t) = Covers(s)
  BY DEF Covers
<1> QED
  BY <1>1 DEF tet_valid

LEMMA LowerState ==
  ASSUME NEW s, TetrisState(s)
  PROVE  LET down == [s EXCEPT !.py = @ + 1]
         IN  TetrisState(down) /\ down.dead = s.dead /\ down.init = s.init
BY DEF TetrisState

LEMMA MoveKeeps ==
  ASSUME NEW s, TetrisState(s), tet_valid(s), NEW key \in Arrows
  PROVE  LET t == Move(s, key)
         IN  TetrisState(t) /\ tet_valid(t) /\ t.dead = s.dead /\ t.init = s.init
<1> DEFINE left == [s EXCEPT !.px = @ - 1]
           right == [s EXCEPT !.px = @ + 1]
           down == [s EXCEPT !.py = @ + 1]
           turn == [s EXCEPT !.rot = (@ + 1) % 4]
           t == Move(s, key)
<1>1. /\ TetrisState(left) /\ left.dead = s.dead /\ left.init = s.init
      /\ TetrisState(right) /\ right.dead = s.dead /\ right.init = s.init
      /\ TetrisState(down) /\ down.dead = s.dead /\ down.init = s.init
  BY DEF TetrisState
<1>2. TetrisState(turn) /\ turn.dead = s.dead /\ turn.init = s.init
  <2>1. (s.rot + 1) % 4 \in 0..3
    BY DEF TetrisState
  <2> QED
    BY <2>1 DEF TetrisState
<1>3. \/ t = s
      \/ (tet_valid(left) /\ t = left) \/ (tet_valid(right) /\ t = right)
      \/ (tet_valid(down) /\ t = down) \/ (tet_valid(turn) /\ t = turn)
  BY DEF Move, IfValid
<1> HIDE DEF left, right, down, turn, t
<1>4. TetrisState(t) /\ tet_valid(t) /\ t.dead = s.dead /\ t.init = s.init
  BY <1>1, <1>2, <1>3
<1> QED
  BY <1>4 DEF t

\* What locks lies in the well.
LEMMA LockSettles ==
  ASSUME NEW s, TetrisState(s), tet_valid(s)
  PROVE  tet_lock(s) \subseteq Grid /\ Full(tet_lock(s)) = {}
<1> DEFINE in == {cell \in Covers(s) : cell[1] >= 0}
<1>1. in \subseteq Grid
  <2> SUFFICES ASSUME NEW cell \in Covers(s), cell[1] >= 0 PROVE cell \in Grid
    OBVIOUS
  <2>1. PICK d \in tet_shapes[s.piece][s.rot + 1] : cell = <<s.py + d[1], s.px + d[2]>>
    BY DEF Covers
  <2>2. d \in Pair
    BY <2>1, ShapesPairs DEF TetrisState
  <2>3. d[1] \in Int /\ d[2] \in Int
    BY <2>2 DEF Pair
  <2>4. cell[1] \in Int /\ cell = <<cell[1], cell[2]>>
    BY <2>1, <2>3 DEF TetrisState
  <2>5. cell[2] \in 0..TET_COLS - 1 /\ cell[1] < TET_ROWS
    BY DEF tet_valid
  <2>6. cell[1] \in 0..TET_ROWS - 1
    BY <2>4, <2>5, ArcadeAssumption
  <2> QED
    BY <2>4, <2>5, <2>6 DEF Grid
<1>2. s.board \cup in \in SUBSET Grid
  BY <1>1 DEF TetrisState
<1> HIDE DEF in
<1>3. Settle(s.board \cup in) \subseteq Grid /\ Full(Settle(s.board \cup in)) = {}
  BY <1>2, SettleClears
<1> QED
  BY <1>3 DEF tet_lock, in

LEMMA FallKeeps ==
  ASSUME NEW s, TetrisState(s), tet_valid(s), s.init, ~s.dead, NEW p \in 0..6
  PROVE  TetrisInv(Fall(s, p))
<1> DEFINE lower == [s EXCEPT !.py = @ + 1]
           next == Spawn([s EXCEPT !.board = tet_lock(s)], p)
           last == [next EXCEPT !.dead = ~tet_valid(next)]
<1>1. Fall(s, p) = IF tet_valid(lower) THEN lower ELSE last
  BY DEF Fall
<1>2. TetrisState(lower) /\ lower.init = s.init /\ lower.dead = s.dead
  BY LowerState
<1>3. CASE tet_valid(lower)
  <2> HIDE DEF lower
  <2>1. TetrisInv(lower)
    BY <1>2, <1>3, TetrisInvIs
  <2> QED
    BY <1>1, <1>3, <2>1
<1>4. CASE ~tet_valid(lower)
  <2>1. (TET_COLS - 4) \div 2 \in Int
    BY ArcadeAssumption
  <2>2. /\ {"board", "piece", "rot", "px", "py", "dead", "init"} \subseteq DOMAIN next
        /\ next.board = tet_lock(s) /\ next.piece = p /\ next.rot = 0
        /\ next.px = (TET_COLS - 4) \div 2 /\ next.py = -1 /\ next.init = s.init
    BY DEF Spawn, TetrisState
  <2> HIDE DEF next
  <2>3. TetrisState(next)
    <3>1. next.board \subseteq Grid /\ Full(next.board) = {}
      BY <2>2, LockSettles
    <3>2. next.piece \in 0..6 /\ next.rot \in 0..3 /\ next.px \in Int /\ next.py \in Int
      BY <2>1, <2>2
    <3>3. next.init \in BOOLEAN
      BY <2>2
    <3> QED
      BY <2>2, <3>1, <3>2, <3>3 DEF TetrisState
  <2>4. /\ last.board = next.board /\ last.piece = next.piece /\ last.rot = next.rot
        /\ last.px = next.px /\ last.py = next.py /\ last.init = next.init
        /\ last.dead = ~tet_valid(next)
        /\ {"board", "piece", "rot", "px", "py", "dead", "init"} \subseteq DOMAIN last
    BY <2>2
  <2> HIDE DEF last
  <2>5. tet_valid(last) <=> tet_valid(next)
    BY <2>4, SamePlace
  <2>6. TetrisState(last)
    BY <2>3, <2>4 DEF TetrisState
  <2>7. last.dead <=> ~tet_valid(last)
    BY <2>4, <2>5
  <2>8. TetrisInv(last)
    BY <2>6, <2>7, TetrisInvIs
  <2> QED
    BY <1>1, <1>4, <2>8
<1> QED
  BY <1>3, <1>4

LEMMA TetrisStarts ==
  /\ TetrisState(TetrisNew) /\ tet_valid(TetrisNew) /\ TetrisNew.init /\ ~TetrisNew.dead
  /\ TetrisInv(TetrisOpened)
<1> DEFINE x == (TET_COLS - 4) \div 2
<1>1. TET_COLS \in Nat /\ TET_COLS >= 4 /\ TET_ROWS \in Nat /\ TET_ROWS >= 1
  BY ArcadeAssumption
<1>2. x \in Int /\ x >= 0 /\ x + 3 <= TET_COLS - 1
  BY <1>1
<1>3. /\ {"board", "piece", "rot", "px", "py", "dead", "init"} \subseteq DOMAIN TetrisNew
      /\ TetrisNew.board = {} /\ TetrisNew.piece = 0 /\ TetrisNew.rot = 0
      /\ TetrisNew.px = x /\ TetrisNew.py = -1 /\ TetrisNew.dead = FALSE /\ TetrisNew.init = TRUE
  BY DEF TetrisNew, Spawn
<1> HIDE DEF x
<1>4. Full({}) = {}
  <2>1. 0 \in 0..TET_COLS - 1
    BY <1>1
  <2> QED
    BY <2>1 DEF Full
<1>5. TetrisState(TetrisNew)
  <2>1. TetrisNew.board \subseteq Grid /\ Full(TetrisNew.board) = {}
    BY <1>3, <1>4
  <2>2. TetrisNew.piece \in 0..6 /\ TetrisNew.rot \in 0..3 /\ TetrisNew.px \in Int /\ TetrisNew.py \in Int
    BY <1>2, <1>3
  <2>3. TetrisNew.init \in BOOLEAN
    BY <1>3
  <2> QED
    BY <1>3, <2>1, <2>2, <2>3 DEF TetrisState
<1>6. tet_valid(TetrisNew)
  <2>1. tet_shapes[0][0 + 1] = Cells(<<0,0,0,0>>, <<0,1,2,3>>)
    BY DEF tet_shapes
  <2>2. SUFFICES ASSUME NEW cell \in Covers(TetrisNew)
                 PROVE  cell[2] \in 0..TET_COLS - 1 /\ cell[1] < TET_ROWS
    BY <1>3 DEF tet_valid
  <2>3. PICK i \in 1..4 : cell = <<-1 + <<0,0,0,0>>[i], x + <<0,1,2,3>>[i]>>
    BY <1>3, <2>1 DEF Covers, Cells
  <2>4. <<0,0,0,0>>[i] = 0 /\ <<0,1,2,3>>[i] \in 0..3
    BY <2>3
  <2>5. cell[1] = -1 + <<0,0,0,0>>[i] /\ cell[2] = x + <<0,1,2,3>>[i]
    BY <2>3
  <2> DEFINE c == <<0,1,2,3>>[i]
  <2>6. c \in 0..3 /\ cell[1] = -1 /\ cell[2] = x + c
    BY <2>4, <2>5
  <2> HIDE DEF c
  <2> QED
    BY <1>1, <1>2, <2>6
<1>7. TetrisInv(TetrisOpened)
  <2>1. /\ {"board", "piece", "rot", "px", "py", "dead", "init"} \subseteq DOMAIN TetrisOpened
        /\ TetrisOpened.board = {} /\ TetrisOpened.piece = 0 /\ TetrisOpened.rot = 0
        /\ TetrisOpened.px = x /\ TetrisOpened.py = -1 /\ TetrisOpened.init = FALSE
    BY <1>3 DEF TetrisOpened
  <2>2. TetrisState(TetrisOpened)
    <3>1. TetrisOpened.board \subseteq Grid /\ Full(TetrisOpened.board) = {}
      BY <1>4, <2>1
    <3>2. /\ TetrisOpened.piece \in 0..6 /\ TetrisOpened.rot \in 0..3
          /\ TetrisOpened.px \in Int /\ TetrisOpened.py \in Int
      BY <1>2, <2>1
    <3>3. TetrisOpened.init \in BOOLEAN
      BY <2>1
    <3> QED
      BY <2>1, <3>1, <3>2, <3>3 DEF TetrisState
  <2> QED
    BY <2>1, <2>2, TetrisInvIs
<1> QED
  BY <1>3, <1>5, <1>6, <1>7

LEMMA TetrisKeeps ==
  ASSUME NEW s, TetrisInv(s), NEW key \in Arrows, NEW click \in BOOLEAN, NEW p \in 0..6
  PROVE  TetrisInv(render_tetris(s, key, click, p))
<1>1. TetrisState(s) /\ (s.init => (s.dead <=> ~tet_valid(s))) /\ s.init \in BOOLEAN
  BY TetrisInvIs DEF TetrisState
<1>2. CASE ~s.init
  <2> DEFINE t == Move(TetrisNew, key)
  <2>1. render_tetris(s, key, click, p) = t
    BY <1>2 DEF render_tetris
  <2>2. TetrisState(t) /\ tet_valid(t) /\ t.dead = TetrisNew.dead /\ t.init = TetrisNew.init
    BY TetrisStarts, MoveKeeps
  <2> HIDE DEF t
  <2>3. ~t.dead
    BY <2>2, TetrisStarts
  <2>4. TetrisInv(t)
    BY <2>2, <2>3, TetrisInvIs
  <2> QED
    BY <2>1, <2>4
<1>3. CASE s.init /\ s.dead
  <2> DEFINE t == [s EXCEPT !.init = ~click]
  <2>1. render_tetris(s, key, click, p) = t
    BY <1>3 DEF render_tetris
  <2>2. /\ t.board = s.board /\ t.piece = s.piece /\ t.rot = s.rot
        /\ t.px = s.px /\ t.py = s.py /\ t.dead = s.dead /\ t.init \in BOOLEAN
        /\ {"board", "piece", "rot", "px", "py", "dead", "init"} \subseteq DOMAIN t
    BY <1>1 DEF TetrisState
  <2> HIDE DEF t
  <2>3. TetrisState(t)
    BY <1>1, <2>2 DEF TetrisState
  <2>4. tet_valid(t) <=> tet_valid(s)
    BY <2>2, SamePlace
  <2>5. t.dead <=> ~tet_valid(t)
    BY <1>1, <1>3, <2>2, <2>4
  <2>6. TetrisInv(t)
    BY <2>3, <2>5, TetrisInvIs
  <2> QED
    BY <2>1, <2>6
<1>4. CASE s.init /\ ~s.dead
  <2> DEFINE t == Move(s, key)
  <2>1. render_tetris(s, key, click, p) = Fall(t, p)
    BY <1>4 DEF render_tetris
  <2>2. tet_valid(s)
    BY <1>1, <1>4
  <2>3. TetrisState(t) /\ tet_valid(t) /\ t.dead = s.dead /\ t.init = s.init
    BY <1>1, <2>2, MoveKeeps
  <2> HIDE DEF t
  <2>4. t.init /\ ~t.dead
    BY <1>4, <2>3
  <2>5. TetrisInv(Fall(t, p))
    BY <2>3, <2>4, FallKeeps
  <2> QED
    BY <2>1, <2>5
<1> QED
  BY <1>1, <1>2, <1>3, <1>4

------------------------------------------------------------------------------
\* The calculator, the file manager and the notepad.

\* After = and C the display shows both numbers.
CalcInv(s) ==
  /\ {"val", "accum", "op", "new", "disp", "halted"} \subseteq DOMAIN s
  /\ CalcInOrder(s)
  /\ s.new /\ s.op = "none" => s.accum = s.val

FilesInv(s) ==
  /\ {"count", "sel", "since"} \subseteq DOMAIN s
  /\ FilesInOrder(s)

LEMMA CalcOpened == CalcInv(CalcNew)
BY DEF CalcInv, CalcNew, CalcInOrder

LEMMA CalcKeeps ==
  ASSUME NEW s, CalcInv(s), NEW button \in 0..15
  PROVE  CalcInv(calc_press(s, button))
<1>1. ASSUME NEW d PROVE CalcInv(Digit(s, d))
  <2> DEFINE v == IF s.new THEN d ELSE Wrap(s.val * 10 + d)
  <2>1. Digit(s, d) = [s EXCEPT !.val = v, !.disp = v, !.new = FALSE]
    BY DEF Digit
  <2> HIDE DEF v
  <2> QED
    BY <2>1 DEF CalcInv, CalcInOrder
<1>2. CalcInv(Equals(s))
  <2> DEFINE a == Apply(s.op, s.accum, s.val)
  <2>1. Equals(s) = [s EXCEPT !.accum = a, !.disp = a, !.val = a, !.new = TRUE, !.op = "none"]
    BY DEF Equals
  <2> HIDE DEF a
  <2> QED
    BY <2>1 DEF CalcInv, CalcInOrder
<1>3. ASSUME NEW op, op # "none" PROVE CalcInv(Operator(s, op))
  <2> DEFINE a == Apply(s.op, s.accum, s.val)
             d == IF s.op = "none" THEN s.disp ELSE a
  <2>1. Operator(s, op) = [s EXCEPT !.accum = a, !.disp = d, !.op = op, !.new = TRUE]
    BY DEF Operator
  <2>2. d = a
    <3>1. CASE s.op = "none"
      BY <3>1 DEF CalcInv, CalcInOrder, Apply
    <3>2. CASE s.op # "none"
      BY <3>2
    <3> QED
      BY <3>1, <3>2
  <2> HIDE DEF a, d
  <2> QED
    BY <1>3, <2>1, <2>2 DEF CalcInv, CalcInOrder
<1>4. CalcInv([s EXCEPT !.halted = TRUE])
  BY DEF CalcInv, CalcInOrder
<1> DEFINE op == <<"+", "-", "*", "/">>[button - 11]
<1>5. button \in 12..15 => op # "none"
  OBVIOUS
<1>6. \/ calc_press(s, button) = Digit(s, button)
      \/ calc_press(s, button) = CalcNew
      \/ calc_press(s, button) = [s EXCEPT !.halted = TRUE]
      \/ calc_press(s, button) = Equals(s)
      \/ button \in 12..15 /\ calc_press(s, button) = Operator(s, op)
  BY DEF calc_press
<1> HIDE DEF op
<1> QED
  BY <1>1, <1>2, <1>3, <1>4, <1>5, <1>6, CalcOpened

LEMMA FilesKeep ==
  ASSUME NEW s, FilesInv(s), NEW refresh \in BOOLEAN, NEW row \in Int, NEW is_exec \in BOOLEAN,
         NEW files \in 0..FM_MAX, NEW elapsed
  PROVE  FilesInv(render_fileman(s, refresh, row, is_exec, files, elapsed))
<1> DEFINE since == IF s.since < FM_DBLCLICK_MS THEN s.since + elapsed ELSE s.since
           aged == [s EXCEPT !.since = since]
           u == IF refresh THEN Refresh(aged) ELSE aged
           t == Listed(u, files)
<1>1. FM_MAX \in Nat
  BY ParlorAssumption
<1>2. aged = [s EXCEPT !.since = IF @ < FM_DBLCLICK_MS THEN @ + elapsed ELSE @]
  OBVIOUS
<1> HIDE DEF since
<1>3. FilesInv(aged)
  BY DEF FilesInv, FilesInOrder
<1>4. render_fileman(s, refresh, row, is_exec, files, elapsed)
        = IF row \in 0..t.count - 1 THEN ClickRow(t, row, is_exec) ELSE t
  BY <1>2 DEF render_fileman
<1> HIDE DEF aged
<1>5. FilesInv(Refresh(aged))
  BY <1>1, <1>3 DEF FilesInv, FilesInOrder, Refresh
<1>6. FilesInv(u)
  BY <1>3, <1>5
<1> HIDE DEF u
<1>7. FilesInv(t)
  BY <1>1, <1>6 DEF FilesInv, FilesInOrder, Listed
<1> HIDE DEF t
<1>8. ASSUME row \in 0..t.count - 1 PROVE FilesInv(ClickRow(t, row, is_exec))
  <2>1. t.count \in 0..FM_MAX /\ row \in -1..t.count - 1
    BY <1>1, <1>7, <1>8 DEF FilesInv, FilesInOrder
  <2> DEFINE left == IF is_exec THEN -1 ELSE t.count
             ran == [count |-> left, sel |-> -1, since |-> 0]
             one == [t EXCEPT !.sel = row, !.since = 0]
  <2>2. FilesInv(ran)
    <3>1. left \in -1..FM_MAX /\ (left >= 0 => -1 \in -1..left - 1)
      BY <1>1, <2>1
    <3> HIDE DEF left
    <3> QED
      BY <3>1 DEF FilesInv, FilesInOrder
  <2>3. FilesInv(one)
    BY <1>7, <2>1 DEF FilesInv, FilesInOrder
  <2>4. ClickRow(t, row, is_exec) = ran \/ ClickRow(t, row, is_exec) = one
    BY DEF ClickRow
  <2> HIDE DEF ran, one, left
  <2> QED
    BY <2>2, <2>3, <2>4
<1> QED
  BY <1>4, <1>7, <1>8

LEMMA FilesStart == FilesInv(FilesOpened)
BY ParlorAssumption DEF FilesInv, FilesOpened, FilesInOrder

LEMMA NotepadKeeps ==
  ASSUME NEW len \in 0..WIN_TEXT_BUF - 1, NEW key
  PROVE  render_text_app(len, key) \in 0..WIN_TEXT_BUF - 1
BY TerminalAssumption DEF render_text_app

------------------------------------------------------------------------------
\* Induction over 0..N, as a set that holds 0 and with each number the next, and
\* what it gives: a recursive function has values.

LEMMA LeastExists ==
  ASSUME NEW S, S \subseteq Nat, S # {}
  PROVE  \E x \in S : \A y \in S : x <= y
<1> DEFINE R == {ss \in Nat \X Nat : ss[1] < ss[2]}
<1>1. IsWellFoundedOn(R, Nat)
  BY NatLessThanWellFounded DEF OpToRel
<1>2. PICK x \in S : \A y \in S : <<y, x>> \notin R
  <2> HIDE DEF R
  <2> QED
    BY <1>1, WFMin
<1>3. ASSUME NEW y \in S PROVE x <= y
  <2>1. x \in Nat /\ y \in Nat /\ <<y, x>> \in Nat \X Nat
    OBVIOUS
  <2>2. ~(<<y, x>>[1] < <<y, x>>[2])
    BY <1>2, <2>1
  <2> QED
    BY <2>1, <2>2
<1> QED
  BY <1>3

LEMMA RangeInduction ==
  ASSUME NEW N \in Nat, NEW T, 0 \in T, \A n \in 1..N : n - 1 \in T => n \in T
  PROVE  0..N \subseteq T
<1> DEFINE rest == (0..N) \ T
<1>1. SUFFICES ASSUME rest # {} PROVE FALSE
  OBVIOUS
<1>2. PICK x \in rest : \A y \in rest : x <= y
  <2>1. rest \subseteq Nat
    OBVIOUS
  <2> HIDE DEF rest
  <2> QED
    BY <1>1, <2>1, LeastExists
<1>3. x \in 1..N /\ x - 1 \in 0..N /\ ~(x <= x - 1)
  OBVIOUS
<1>4. x - 1 \in T
  BY <1>2, <1>3
<1> QED
  BY <1>3, <1>4

\* p is what the step h makes of a.
Runs(p, N, S, a, h) ==
  p \in [0..N -> S] /\ p[0] = a /\ \A n \in 1..N : p[n] = h[<<p[n - 1], n>>]

LEMMA RecursionExists ==
  ASSUME NEW N \in Nat, NEW S, NEW a \in S, NEW h \in [S \X (1..N) -> S]
  PROVE  \E p : Runs(p, N, S, a, h)
<1> DEFINE Good(p, m) == p[0] = a /\ \A n \in 1..m : p[n] = h[<<p[n - 1], n>>]
           T == {m \in 0..N : \E p \in [0..m -> S] : Good(p, m)}
<1>1. 0 \in T
  <2> DEFINE p == [i \in 0..0 |-> a]
  <2>1. p \in [0..0 -> S] /\ p[0] = a /\ 1..0 = {} /\ 0 \in 0..N
    OBVIOUS
  <2> HIDE DEF p
  <2>2. Good(p, 0)
    BY <2>1
  <2> HIDE DEF Good
  <2> QED
    BY <2>1, <2>2
<1>2. ASSUME NEW m \in 1..N, m - 1 \in T PROVE m \in T
  <2>1. PICK p \in [0..m - 1 -> S] : Good(p, m - 1)
    BY <1>2
  <2>2. m - 1 \in 0..m - 1 /\ m \in 0..N
    OBVIOUS
  <2> DEFINE v == h[<<p[m - 1], m>>]
             q == [i \in 0..m |-> IF i = m THEN v ELSE p[i]]
  <2>3. v \in S
    BY <2>2
  <2> HIDE DEF v
  <2>4. \A i \in 0..m - 1 : q[i] = p[i] /\ i \in 0..m
    OBVIOUS
  <2>5. q \in [0..m -> S]
    <3>1. \A i \in 0..m : i # m => i \in 0..m - 1
      OBVIOUS
    <3> QED
      BY <2>3, <3>1
  <2>6. q[m] = v
    OBVIOUS
  <2> HIDE DEF q
  <2>7. ASSUME NEW n \in 1..m PROVE q[n] = h[<<q[n - 1], n>>]
    <3>1. n - 1 \in 0..m - 1
      OBVIOUS
    <3>2. q[n - 1] = p[n - 1]
      BY <2>4, <3>1
    <3>3. CASE n = m
      BY <2>6, <3>2, <3>3 DEF v
    <3>4. CASE n # m
      <4>1. n \in 1..m - 1 /\ n \in 0..m - 1
        BY <3>4
      <4>2. q[n] = p[n]
        BY <2>4, <4>1
      <4> QED
        BY <2>1, <3>2, <4>1, <4>2
    <3> QED
      BY <3>3, <3>4
  <2>8. q[0] = a
    <3>1. 0 \in 0..m - 1
      OBVIOUS
    <3> QED
      BY <2>1, <2>4, <3>1
  <2>9. Good(q, m)
    BY <2>7, <2>8
  <2> QED
    BY <2>2, <2>5, <2>9
<1> HIDE DEF T
<1>3. 0..N \subseteq T
  BY <1>1, <1>2, RangeInduction
<1>4. N \in T
  BY <1>3
<1> QED
  BY <1>4 DEF T, Runs

------------------------------------------------------------------------------
\* The terminal.

Text == Seq(Char)
Shown == {t \in Text : Len(t) \in 1..WIN_TEXT_BUF - 1}

LEMMA TailProperties ==
  ASSUME NEW S, NEW s \in Seq(S), NEW m \in 1..Len(s) + 1
  PROVE  /\ SubSeq(s, m, Len(s)) \in Seq(S) /\ Len(SubSeq(s, m, Len(s))) = Len(s) - m + 1
         /\ \A i \in 1..Len(s) - m + 1 : SubSeq(s, m, Len(s))[i] = s[m + i - 1]
<1> DEFINE n == Len(s)
<1>1. n \in Nat /\ m \in Int /\ n \in Int /\ m <= n + 1
  OBVIOUS
<1>2. \A i \in m..n : s[i] \in S
  OBVIOUS
<1> HIDE DEF n
<1>3. /\ SubSeq(s, m, n) \in Seq(S)
      /\ Len(SubSeq(s, m, n)) = IF m <= n THEN n - m + 1 ELSE 0
      /\ \A i \in 1..n - m + 1 : SubSeq(s, m, n)[i] = s[m + i - 1]
  BY <1>1, <1>2, SubSeqProperties
<1>4. Len(SubSeq(s, m, n)) = n - m + 1
  BY <1>1, <1>3
<1> QED
  BY <1>3, <1>4 DEF n

LEMMA FrontProperties ==
  ASSUME NEW S, NEW s \in Seq(S), s # <<>>
  PROVE  /\ Front(s) \in Seq(S) /\ Len(Front(s)) = Len(s) - 1
         /\ \A i \in 1..Len(s) - 1 : Front(s)[i] = s[i]
         /\ Len(s) \in 1..Len(s) /\ Last(s) = s[Len(s)] /\ Last(s) \in S
<1>1. Len(s) \in Nat /\ Len(s) # 0
  BY EmptySeq
<1>2. Len(s) - 1 \in Nat /\ Len(s) \in 1..Len(s)
  BY <1>1
<1> DEFINE t == SubSeq(s, 1, Len(s) - 1)
<1>3. t \in Seq(S) /\ Len(t) = Len(s) - 1 /\ \A i \in 1..Len(s) - 1 : t[i] = s[i]
  <2> DEFINE n == Len(s) - 1
  <2>1. n \in Int /\ n - 1 + 1 = n /\ \A i \in 1..n : i \in 1..Len(s) /\ 1 + i - 1 = i
    BY <1>1
  <2>2. n \in Nat
    BY <1>2
  <2> HIDE DEF n
  <2>3. /\ SubSeq(s, 1, n) \in Seq(S)
        /\ Len(SubSeq(s, 1, n)) = IF 1 <= n THEN n - 1 + 1 ELSE 0
        /\ \A i \in 1..n - 1 + 1 : SubSeq(s, 1, n)[i] = s[1 + i - 1]
    BY <2>1, SubSeqProperties
  <2> QED
    BY <2>1, <2>2, <2>3 DEF t, n
<1> HIDE DEF t
<1> QED
  BY <1>2, <1>3 DEF Front, Last, t

LEMMA TrimmedFits ==
  ASSUME NEW text \in Text, Len(text) >= WIN_TEXT_BUF - 4
  PROVE  Trimmed(text) \in Text /\ Len(Trimmed(text)) < WIN_TEXT_BUF \div 2
<1> DEFINE half == WIN_TEXT_BUF \div 2
           n == Len(text)
           ends == {i \in n - half + 1..n : text[i] = "nl"}
<1>1. WIN_TEXT_BUF \in Nat /\ WIN_TEXT_BUF >= 10
  BY TerminalAssumption
<1>2. half \in Nat /\ half >= 5 /\ n \in Nat /\ n - half + 1 >= 1
  BY <1>1 DEF Text
<1>3. CASE ends = {}
  <2>1. Trimmed(text) = <<>>
    BY <1>3 DEF Trimmed
  <2> QED
    BY <1>2, <2>1 DEF Text
<1>4. CASE ends # {}
  <2> DEFINE m == Min(ends)
  <2>1. ends \subseteq Nat
    BY <1>2
  <2>2. m \in ends
    <3> HIDE DEF ends
    <3>1. \E x \in ends : \A y \in ends : x <= y
      BY <1>4, <2>1, LeastExists
    <3> QED
      BY <3>1 DEF Min
  <2>3. Trimmed(text) = SubSeq(text, m + 1, Len(text))
    BY <1>4 DEF Trimmed
  <2>4. m \in n - half + 1..n
    BY <2>2
  <2> HIDE DEF m, half, ends
  <2>5. m + 1 \in 1..n + 1 /\ n - (m + 1) + 1 < half
    BY <1>2, <2>4
  <2>6. /\ SubSeq(text, m + 1, Len(text)) \in Text
        /\ Len(SubSeq(text, m + 1, Len(text))) = n - (m + 1) + 1
    BY <2>5, TailProperties DEF Text
  <2> QED
    BY <2>3, <2>5, <2>6 DEF half
<1> QED
  BY <1>3, <1>4

LEMMA CharacterFits ==
  ASSUME NEW text \in Text, Len(text) < WIN_TEXT_BUF, NEW c \in Char
  PROVE  term_out_cb(text, c) \in Shown
<1> DEFINE t == IF Len(text) >= WIN_TEXT_BUF - 4 THEN Trimmed(text) ELSE text
<1>1. WIN_TEXT_BUF \in Nat /\ WIN_TEXT_BUF >= 10
  BY TerminalAssumption
<1>2. t \in Text /\ Len(t) < WIN_TEXT_BUF - 4
  <2>1. CASE Len(text) >= WIN_TEXT_BUF - 4
    <3>1. Trimmed(text) \in Text /\ Len(Trimmed(text)) < WIN_TEXT_BUF \div 2
      BY <2>1, TrimmedFits
    <3>2. Len(Trimmed(text)) \in Nat
      BY <3>1 DEF Text
    <3>3. Len(Trimmed(text)) < WIN_TEXT_BUF - 4
      BY <1>1, <3>1, <3>2
    <3> QED
      BY <2>1, <3>1, <3>3
  <2>2. CASE ~(Len(text) >= WIN_TEXT_BUF - 4)
    BY <1>1, <2>2 DEF Text
  <2> QED
    BY <2>1, <2>2
<1>3. term_out_cb(text, c) = Append(t, c)
  BY DEF term_out_cb
<1> HIDE DEF t
<1>4. Append(t, c) \in Text /\ Len(Append(t, c)) = Len(t) + 1 /\ Len(t) \in Nat
  BY <1>2, AppendProperties DEF Text
<1>5. Len(t) + 1 \in 1..WIN_TEXT_BUF - 1
  BY <1>1, <1>2, <1>4
<1> QED
  BY <1>3, <1>4, <1>5 DEF Shown

LEMMA OutputFits ==
  ASSUME NEW text \in Shown, NEW out \in Text
  PROVE  PrintOut(text, out) \in Shown
<1> DEFINE N == Len(out)
           Is(p) == p = [n \in 0..N |-> IF n = 0 THEN text ELSE term_out_cb(p[n - 1], out[n])]
           after == CHOOSE p : Is(p)
           h == [x \in Shown \X (1..N) |-> term_out_cb(x[1], out[x[2]])]
<1>1. N \in Nat
  BY DEF Text
<1>2. ASSUME NEW t \in Shown, NEW n \in 1..N PROVE term_out_cb(t, out[n]) \in Shown
  <2>1. t \in Text /\ Len(t) < WIN_TEXT_BUF /\ out[n] \in Char
    BY TerminalAssumption DEF Shown, Text
  <2> QED
    BY <2>1, CharacterFits
<1>3. \A t \in Shown, n \in 1..N : h[<<t, n>>] = term_out_cb(t, out[n])
  OBVIOUS
<1>14. h \in [Shown \X (1..N) -> Shown]
  BY <1>2
<1> HIDE DEF h, N, Is, after
<1>4. PICK p : p \in [0..N -> Shown] /\ p[0] = text /\ \A n \in 1..N : p[n] = h[<<p[n - 1], n>>]
  <2>1. \E p : Runs(p, N, Shown, text, h)
    BY <1>1, <1>14, RecursionExists
  <2> QED
    BY <2>1 DEF Runs
<1>5. ASSUME NEW n \in 0..N
      PROVE  p[n] = IF n = 0 THEN text ELSE term_out_cb(p[n - 1], out[n])
  <2>1. CASE n = 0
    BY <1>4, <2>1
  <2>2. CASE n # 0
    <3>1. n \in 1..N /\ n - 1 \in 0..N
      BY <1>1, <2>2
    <3>2. p[n - 1] \in Shown
      BY <1>4, <3>1
    <3> QED
      BY <1>3, <1>4, <2>2, <3>1, <3>2
  <2> QED
    BY <2>1, <2>2
<1>6. Is(p)
  BY <1>4, <1>5 DEF Is
<1>7. Is(after)
  BY <1>6 DEF after
<1>8. PrintOut(text, out) = after[N]
  BY DEF PrintOut, N, Is, after
<1>9. after[0] = text /\ \A n \in 1..N : after[n] = term_out_cb(after[n - 1], out[n])
  BY <1>1, <1>7 DEF Is
<1> DEFINE T == {n \in 0..N : after[n] \in Shown}
<1>10. 0 \in T
  BY <1>1, <1>9
<1>11. ASSUME NEW n \in 1..N, n - 1 \in T PROVE n \in T
  BY <1>1, <1>2, <1>9, <1>11
<1> HIDE DEF T
<1>12. 0..N \subseteq T
  BY <1>1, <1>10, <1>11, RangeInduction
<1>13. N \in T
  BY <1>1, <1>12
<1> QED
  BY <1>8, <1>13 DEF T

\* The last line is a prompt and what was typed.
Prompted(text, typed) ==
  LET k == Len(text) - Len(typed) - 2
  IN  /\ k >= 0 /\ text[k + 1] = "gt" /\ text[k + 2] = "sp"
      /\ k > 0 => text[k] = "nl"
      /\ \A i \in 1..Len(typed) : text[k + 2 + i] = typed[i] /\ typed[i] # "nl"

TerminalInv(s) ==
  /\ {"text", "typed", "fresh"} \subseteq DOMAIN s
  /\ s.text \in Shown /\ s.typed \in Text /\ s.fresh \in BOOLEAN
  /\ s.fresh => Prompted(s.text, s.typed)

LEMMA PromptText == PROMPT \in Text /\ Len(PROMPT) = 2 /\ PROMPT[1] = "gt" /\ PROMPT[2] = "sp"
BY DEF PROMPT, Text, Char

LEMMA ShownLength ==
  ASSUME NEW text \in Shown
  PROVE  /\ text \in Text /\ Len(text) \in Nat /\ Len(text) >= 1 /\ Len(text) < WIN_TEXT_BUF
         /\ WIN_TEXT_BUF \in Nat /\ WIN_TEXT_BUF >= 10
BY TerminalAssumption DEF Shown

LEMMA LastLineIs ==
  ASSUME NEW text \in Text, NEW typed \in Text, Prompted(text, typed)
  PROVE  LET k == Len(text) - Len(typed) - 2
         IN  LastLine(text) = SubSeq(text, k + 1, Len(text))
<1> DEFINE n == Len(text)
           m == Len(typed)
           k == n - m - 2
           starts == {1} \cup {i \in 2..n : text[i - 1] = "nl"}
<1>1. /\ n \in Nat /\ m \in Nat /\ k \in Nat
      /\ text[k + 1] = "gt" /\ text[k + 2] = "sp"
      /\ k > 0 => text[k] = "nl"
      /\ \A i \in 1..m : text[k + 2 + i] # "nl"
  BY DEF Prompted, Text
<1>2. n = k + 2 + m
  BY <1>1
<1> HIDE DEF n, m, k
<1>3. k + 1 \in starts
  <2>1. CASE k = 0
    BY <2>1
  <2>2. CASE k # 0
    <3>1. k + 1 \in 2..n /\ k + 1 - 1 = k /\ k > 0
      BY <1>1, <1>2, <2>2
    <3> QED
      BY <1>1, <3>1
  <2> QED
    BY <2>1, <2>2
<1>4. ASSUME NEW y \in starts PROVE y \in Int /\ k + 1 >= y
  <2>1. CASE y = 1
    BY <1>1, <2>1
  <2>2. CASE y \in 2..n /\ text[y - 1] = "nl"
    <3>1. SUFFICES ASSUME y > k + 1 PROVE FALSE
      BY <1>1, <2>2
    <3>2. y - 1 # k + 1 /\ y - 1 # k + 2
      BY <1>1, <2>2
    <3> DEFINE i == y - k - 3
    <3>3. i \in 1..m /\ k + 2 + i = y - 1
      BY <1>1, <1>2, <2>2, <3>1, <3>2
    <3> HIDE DEF i
    <3> QED
      BY <1>1, <2>2, <3>3
  <2> QED
    BY <2>1, <2>2
<1> HIDE DEF starts
<1>5. Max(starts) = k + 1
  <2>1. \A y \in starts : k + 1 >= y
    BY <1>4
  <2>2. \A x \in starts : (\A y \in starts : x >= y) => x = k + 1
    BY <1>1, <1>3, <1>4
  <2> QED
    BY <1>3, <2>1, <2>2 DEF Max
<1>6. LastLine(text) = SubSeq(text, Max(starts), n)
  BY DEF LastLine, starts, n
<1> QED
  BY <1>5, <1>6 DEF n, m, k

LEMMA CommandIsTyped ==
  ASSUME NEW text \in Text, NEW typed \in Text, Prompted(text, typed)
  PROVE  term_get_cmd(text) = Command(typed)
<1> DEFINE n == Len(text)
           m == Len(typed)
           k == n - m - 2
           line == LastLine(text)
           rest == SubSeq(line, 3, Len(line))
<1>1. /\ n \in Nat /\ m \in Nat /\ k \in Nat
      /\ text[k + 1] = "gt" /\ text[k + 2] = "sp"
      /\ \A i \in 1..m : text[k + 2 + i] = typed[i]
  BY DEF Prompted, Text
<1>2. n = k + 2 + m
  BY <1>1
<1>3. line = SubSeq(text, k + 1, n)
  BY LastLineIs
<1> HIDE DEF n, m, k, line
<1>4. /\ line \in Text /\ Len(line) = m + 2
      /\ \A i \in 1..m + 2 : line[i] = text[k + i]
  <2>1. k + 1 \in 1..Len(text) + 1 /\ n - (k + 1) + 1 = m + 2
    BY <1>1, <1>2 DEF n
  <2>2. /\ SubSeq(text, k + 1, Len(text)) \in Seq(Char)
        /\ Len(SubSeq(text, k + 1, Len(text))) = Len(text) - (k + 1) + 1
        /\ \A i \in 1..Len(text) - (k + 1) + 1 : SubSeq(text, k + 1, Len(text))[i] = text[k + 1 + i - 1]
    BY <2>1, TailProperties DEF Text
  <2>3. \A i \in 1..m + 2 : k + 1 + i - 1 = k + i
    BY <1>1
  <2> QED
    BY <1>3, <2>1, <2>2, <2>3 DEF n, Text
<1>5. line[1] = "gt" /\ line[2] = "sp"
  <2>1. 1 \in 1..m + 2 /\ 2 \in 1..m + 2
    BY <1>1
  <2> QED
    BY <1>1, <1>4, <2>1
<1>6. IsPrefix(PROMPT, line)
  <2> DEFINE u == SubSeq(line, 1, 2)
             v == SubSeq(PROMPT, 1, 2)
             two == 2
             one == 1
  <2>1. u \in Seq(Char) /\ Len(u) = 2 /\ u[1] = line[1] /\ u[2] = line[2]
    <3>1. two \in Int /\ one \in Int /\ \A i \in one..two : line[i] \in Char
      BY <1>1, <1>4 DEF Text
    <3>2. SubSeq(line, one, two) = u
      OBVIOUS
    <3> HIDE DEF one, two
    <3>3. /\ SubSeq(line, one, two) \in Seq(Char)
          /\ Len(SubSeq(line, one, two)) = IF one <= two THEN two - one + 1 ELSE 0
          /\ \A i \in 1..two - one + 1 : SubSeq(line, one, two)[i] = line[one + i - 1]
      BY <3>1, SubSeqProperties
    <3> HIDE DEF u
    <3>4. one <= two /\ two - one + 1 = 2 /\ 1 \in 1..2 /\ 2 \in 1..2 /\ one + 1 - 1 = 1 /\ one + 2 - 1 = 2
      BY DEF one, two
    <3> QED
      BY <3>2, <3>3, <3>4
  <2>2. v \in Seq(Char) /\ Len(v) = 2 /\ v[1] = PROMPT[1] /\ v[2] = PROMPT[2]
    <3>1. v = PROMPT
      BY PromptText, SubSeqFull DEF Text
    <3> QED
      BY <3>1, PromptText DEF Text
  <2> HIDE DEF u, v
  <2>3. \A i \in 1..2 : u[i] = v[i]
    <3> SUFFICES ASSUME NEW i \in 1..2 PROVE u[i] = v[i]
      OBVIOUS
    <3>1. i = 1 \/ i = 2
      OBVIOUS
    <3> QED
      BY <1>5, <2>1, <2>2, <3>1, PromptText
  <2>4. u = v
    BY <2>1, <2>2, <2>3, SeqEqual
  <2>5. Len(PROMPT) <= Len(line) /\ Len(PROMPT) = 2
    BY <1>1, <1>4, PromptText
  <2> QED
    BY <2>4, <2>5 DEF IsPrefix, u, v
<1>7. rest = typed
  <2> DEFINE three == 3
  <2>1. three \in 1..Len(line) + 1 /\ Len(line) - three + 1 = m
    BY <1>1, <1>4
  <2>2. rest = SubSeq(line, three, Len(line))
    OBVIOUS
  <2>3. \A i \in 1..m : three + i - 1 = i + 2 /\ i + 2 \in 1..m + 2 /\ k + (i + 2) = k + 2 + i
    BY <1>1
  <2> HIDE DEF three, rest
  <2>4. /\ rest \in Seq(Char) /\ Len(rest) = Len(line) - three + 1
        /\ \A i \in 1..Len(line) - three + 1 : rest[i] = line[three + i - 1]
    BY <1>4, <2>1, <2>2, TailProperties DEF Text
  <2>5. ASSUME NEW i \in 1..m PROVE rest[i] = typed[i]
    <3>1. rest[i] = line[i + 2]
      BY <2>1, <2>3, <2>4
    <3>2. line[i + 2] = text[k + 2 + i]
      BY <1>4, <2>3
    <3> QED
      BY <1>1, <3>1, <3>2
  <2>6. Len(rest) = Len(typed)
    BY <2>1, <2>4 DEF m
  <2> QED
    BY <2>1, <2>4, <2>5, <2>6, SeqEqual DEF Text, m
<1>8. term_get_cmd(text) = Command(IF IsPrefix(PROMPT, line) THEN rest ELSE line)
  BY DEF term_get_cmd, line, rest
<1> QED
  BY <1>6, <1>7, <1>8

\* A prompt at the start of a line.
LEMMA PromptAdded ==
  ASSUME NEW done \in Text
  PROVE  /\ done \o PROMPT \in Text /\ Len(done \o PROMPT) = Len(done) + 2
         /\ done = <<>> \/ Last(done) = "nl" => Prompted(done \o PROMPT, <<>>)
<1> DEFINE d == Len(done)
           t == done \o PROMPT
<1>1. d \in Nat /\ PROMPT \in Seq(Char) /\ Len(PROMPT) = 2 /\ PROMPT[1] = "gt" /\ PROMPT[2] = "sp"
  BY PromptText DEF Text
<1>2. /\ t \in Seq(Char) /\ Len(t) = d + 2
      /\ \A i \in 1..d + 2 : t[i] = IF i <= d THEN done[i] ELSE PROMPT[i - d]
  <2> DEFINE P == PROMPT
  <2>1. done \in Seq(Char) /\ P \in Seq(Char) /\ Len(P) = 2
    BY <1>1 DEF Text
  <2> HIDE DEF P
  <2>2. /\ done \o P \in Seq(Char) /\ Len(done \o P) = Len(done) + Len(P)
        /\ \A i \in 1..Len(done) + Len(P) :
             (done \o P)[i] = IF i <= Len(done) THEN done[i] ELSE P[i - Len(done)]
    BY <2>1, ConcatProperties
  <2> QED
    BY <2>1, <2>2 DEF P
<1> HIDE DEF t
<1>3. t[d + 1] = "gt" /\ t[d + 2] = "sp"
  <2>1. /\ d + 1 \in 1..d + 2 /\ ~(d + 1 <= d) /\ d + 1 - d = 1
        /\ d + 2 \in 1..d + 2 /\ ~(d + 2 <= d) /\ d + 2 - d = 2
    BY <1>1
  <2> QED
    BY <1>1, <1>2, <2>1
<1>4. ASSUME done = <<>> \/ Last(done) = "nl" PROVE Prompted(t, <<>>)
  <2>1. Len(<<>>) = 0 /\ Len(t) - 0 - 2 = d
    BY <1>1, <1>2
  <2>2. d > 0 => t[d] = "nl"
    <3>1. SUFFICES ASSUME d > 0 PROVE t[d] = "nl"
      OBVIOUS
    <3>2. d \in 1..d + 2 /\ d <= d
      BY <1>1, <3>1
    <3>3. t[d] = done[d]
      BY <1>2, <3>2
    <3>4. done # <<>>
      BY <3>1
    <3> QED
      BY <1>4, <3>3, <3>4 DEF Last
  <2>3. d >= 0 /\ 1..0 = {}
    BY <1>1
  <2> HIDE DEF d
  <2> QED
    BY <1>3, <2>1, <2>2, <2>3 DEF Prompted
<1> QED
  BY <1>2, <1>4 DEF t, Text

LEMMA TypeKeeps ==
  ASSUME NEW s, TerminalInv(s), NEW c \in Typed
  PROVE  TerminalInv(Type(s, c))
<1> DEFINE text == s.text
           typed == s.typed
           text1 == Append(text, c)
           typed1 == Append(typed, c)
           t == [s EXCEPT !.text = text1, !.typed = typed1]
<1>1. /\ {"text", "typed", "fresh"} \subseteq DOMAIN s
      /\ text \in Shown /\ typed \in Text /\ s.fresh \in BOOLEAN
      /\ s.fresh => Prompted(text, typed)
  BY DEF TerminalInv
<1>2. c \in Char /\ c # "nl"
  BY TerminalAssumption DEF Char
<1>3. CASE Len(text) >= WIN_TEXT_BUF - 2
  BY <1>3 DEF Type
<1>4. CASE ~(Len(text) >= WIN_TEXT_BUF - 2)
  <2> DEFINE n == Len(text)
             m == Len(typed)
  <2>1. /\ text \in Text /\ n \in Nat /\ n >= 1 /\ n < WIN_TEXT_BUF - 2 /\ WIN_TEXT_BUF \in Nat
        /\ m \in Nat
    BY <1>1, <1>4, ShownLength DEF Text
  <2>2. Type(s, c) = t
    BY <1>4 DEF Type
  <2>3. /\ text1 \in Text /\ Len(text1) = n + 1
        /\ \A i \in 1..n : text1[i] = text[i]
        /\ text1[n + 1] = c
    BY <1>2, <2>1, AppendProperties DEF Text
  <2>4. /\ typed1 \in Text /\ Len(typed1) = m + 1
        /\ \A i \in 1..m : typed1[i] = typed[i]
        /\ typed1[m + 1] = c
    BY <1>1, <1>2, AppendProperties DEF Text
  <2> HIDE DEF text, typed, text1, typed1
  <2>5. text1 \in Shown
    BY <2>1, <2>3 DEF Shown
  <2>6. ASSUME Prompted(text, typed) PROVE Prompted(text1, typed1)
    <3> DEFINE k == n - m - 2
    <3>1. /\ k \in Nat /\ text[k + 1] = "gt" /\ text[k + 2] = "sp"
          /\ k > 0 => text[k] = "nl"
          /\ \A i \in 1..m : text[k + 2 + i] = typed[i] /\ typed[i] # "nl"
      BY <2>1, <2>6 DEF Prompted
    <3>2. n = k + 2 + m /\ Len(text1) - Len(typed1) - 2 = k
      BY <2>1, <2>3, <2>4
    <3> HIDE DEF k, n, m
    <3>3. text1[k + 1] = "gt" /\ text1[k + 2] = "sp" /\ (k > 0 => text1[k] = "nl")
      <4>1. k + 1 \in 1..n /\ k + 2 \in 1..n /\ (k > 0 => k \in 1..n)
        BY <2>1, <3>1, <3>2
      <4> QED
        BY <2>3, <3>1, <4>1
    <3>4. ASSUME NEW i \in 1..m + 1 PROVE text1[k + 2 + i] = typed1[i] /\ typed1[i] # "nl"
      <4>1. CASE i = m + 1
        <5>1. k + 2 + i = n + 1
          BY <2>1, <3>1, <3>2, <4>1
        <5> QED
          BY <1>2, <2>3, <2>4, <4>1, <5>1
      <4>2. CASE i # m + 1
        <5>1. i \in 1..m /\ k + 2 + i \in 1..n
          BY <2>1, <3>1, <3>2, <4>2
        <5> QED
          BY <2>3, <2>4, <3>1, <5>1
      <4> QED
        BY <4>1, <4>2
    <3>5. k >= 0
      BY <3>1
    <3> QED
      BY <2>4, <3>2, <3>3, <3>4, <3>5 DEF Prompted
  <2>7. t.text = text1 /\ t.typed = typed1 /\ t.fresh = s.fresh /\ {"text", "typed", "fresh"} \subseteq DOMAIN t
    BY <1>1
  <2> HIDE DEF t
  <2> QED
    BY <1>1, <2>2, <2>4, <2>5, <2>6, <2>7 DEF TerminalInv
<1> QED
  BY <1>3, <1>4

LEMMA BackspaceKeeps ==
  ASSUME NEW s, TerminalInv(s)
  PROVE  TerminalInv(Backspace(s))
<1> DEFINE text == s.text
           typed == s.typed
           n == Len(text)
           m == Len(typed)
           text1 == Front(text)
           typed1 == IF typed = <<>> THEN typed ELSE Front(typed)
           t == [s EXCEPT !.text = text1, !.typed = typed1]
<1>1. /\ {"text", "typed", "fresh"} \subseteq DOMAIN s
      /\ text \in Shown /\ typed \in Text /\ s.fresh \in BOOLEAN
      /\ s.fresh => Prompted(text, typed)
  BY DEF TerminalInv
<1>2. CASE n < 3 \/ SubSeq(text, n - 1, n) = PROMPT
  BY <1>2 DEF Backspace
<1>3. CASE ~(n < 3 \/ SubSeq(text, n - 1, n) = PROMPT)
  <2>1. Backspace(s) = t
    BY <1>3 DEF Backspace
  <2>2. text \in Text /\ n \in Nat /\ n >= 3 /\ n < WIN_TEXT_BUF /\ WIN_TEXT_BUF \in Nat /\ m \in Nat
    BY <1>1, <1>3, ShownLength DEF Text
  <2>3. text1 \in Text /\ Len(text1) = n - 1 /\ \A i \in 1..n - 1 : text1[i] = text[i]
    <3>1. text # <<>>
      BY <2>2
    <3> QED
      BY <2>2, <3>1, FrontProperties DEF Text
  <2>4. typed1 \in Text
    <3>1. CASE typed = <<>>
      BY <1>1, <3>1
    <3>2. CASE typed # <<>>
      BY <1>1, <3>2, FrontProperties DEF Text
    <3> QED
      BY <3>1, <3>2
  <2>5. text1 \in Shown
    BY <2>2, <2>3 DEF Shown
  <2>6. ASSUME Prompted(text, typed) PROVE Prompted(text1, typed1)
    <3> HIDE DEF text, typed, text1, typed1
    <3> DEFINE k == n - m - 2
    <3>1. /\ k \in Nat /\ text[k + 1] = "gt" /\ text[k + 2] = "sp"
          /\ k > 0 => text[k] = "nl"
          /\ \A i \in 1..m : text[k + 2 + i] = typed[i] /\ typed[i] # "nl"
      BY <2>2, <2>6 DEF Prompted
    <3>2. n = k + 2 + m
      BY <2>2
    <3>3. typed # <<>>
      <4>1. SUFFICES ASSUME typed = <<>> PROVE SubSeq(text, n - 1, n) = PROMPT
        BY <1>3
      <4>2. m = 0
        BY <4>1
      <4> HIDE DEF n, m, k, text
      <4>3. n - 1 = k + 1 /\ n = k + 2 /\ n - 1 \in Int /\ n \in Int
        BY <2>2, <3>1, <3>2, <4>2
      <4>4. \A i \in n - 1..n : text[i] \in Char
        BY <1>1, <2>2, <4>3 DEF Text, n
      <4> DEFINE u == SubSeq(text, n - 1, n)
                 a == n - 1
      <4>5. a \in Int /\ n \in Int /\ n - a + 1 = 2 /\ a <= n /\ a + 1 - 1 = k + 1 /\ a + 2 - 1 = k + 2
        BY <4>3
      <4>6. u = SubSeq(text, a, n) /\ \A i \in a..n : text[i] \in Char
        BY <4>4
      <4> HIDE DEF u, a
      <4>7. /\ SubSeq(text, a, n) \in Seq(Char)
            /\ Len(SubSeq(text, a, n)) = IF a <= n THEN n - a + 1 ELSE 0
            /\ \A i \in 1..n - a + 1 : SubSeq(text, a, n)[i] = text[a + i - 1]
        BY <4>5, <4>6, SubSeqProperties
      <4>8. u \in Seq(Char) /\ Len(u) = 2 /\ u[1] = "gt" /\ u[2] = "sp"
        <5>1. 1 \in 1..n - a + 1 /\ 2 \in 1..n - a + 1
          BY <4>5
        <5> QED
          BY <3>1, <4>5, <4>6, <4>7, <5>1
      <4>9. \A i \in 1..2 : u[i] = PROMPT[i]
        <5> SUFFICES ASSUME NEW i \in 1..2 PROVE u[i] = PROMPT[i]
          OBVIOUS
        <5>1. i = 1 \/ i = 2
          OBVIOUS
        <5> QED
          BY <4>8, <5>1, PromptText
      <4>10. u = PROMPT
        BY <4>8, <4>9, PromptText, SeqEqual DEF Text
      <4> QED
        BY <4>10 DEF u
    <3>4. Len(typed1) = m - 1 /\ m >= 1 /\ \A i \in 1..m - 1 : typed1[i] = typed[i]
      <4>1. m # 0
        BY <1>1, <3>3, EmptySeq DEF Text
      <4>2. typed1 = Front(typed)
        BY <3>3 DEF typed1
      <4>3. typed \in Seq(Char)
        BY <1>1 DEF Text
      <4>4. /\ Len(Front(typed)) = Len(typed) - 1
            /\ \A i \in 1..Len(typed) - 1 : Front(typed)[i] = typed[i]
        BY <3>3, <4>3, FrontProperties
      <4>5. m >= 1
        BY <2>2, <4>1
      <4> QED
        BY <4>2, <4>4, <4>5
    <3>5. Len(text1) - Len(typed1) - 2 = k
      BY <2>2, <2>3, <3>4
    <3> HIDE DEF k, n, m
    <3>6. text1[k + 1] = "gt" /\ text1[k + 2] = "sp" /\ (k > 0 => text1[k] = "nl")
      <4>1. k + 1 \in 1..n - 1 /\ k + 2 \in 1..n - 1 /\ (k > 0 => k \in 1..n - 1)
        BY <2>2, <3>1, <3>2, <3>4
      <4> QED
        BY <2>3, <3>1, <4>1
    <3>7. ASSUME NEW i \in 1..m - 1 PROVE text1[k + 2 + i] = typed1[i] /\ typed1[i] # "nl"
      <4>1. i \in 1..m /\ k + 2 + i \in 1..n - 1
        BY <2>2, <3>1, <3>2
      <4> QED
        BY <2>3, <3>1, <3>4, <4>1
    <3>8. k >= 0
      BY <3>1
    <3> QED
      BY <3>4, <3>5, <3>6, <3>7, <3>8 DEF Prompted
  <2>7. t.text = text1 /\ t.typed = typed1 /\ t.fresh = s.fresh /\ {"text", "typed", "fresh"} \subseteq DOMAIN t
    BY <1>1
  <2> HIDE DEF t
  <2> QED
    BY <1>1, <2>1, <2>4, <2>5, <2>6, <2>7 DEF TerminalInv
<1> QED
  BY <1>2, <1>3

LEMMA CtrlCKeeps ==
  ASSUME NEW s, TerminalInv(s)
  PROVE  TerminalInv(CtrlC(s))
<1> DEFINE text == s.text
           mark == <<"other", "other", "nl">>
           line == text \o mark
           t == [text |-> line \o PROMPT, typed |-> <<>>, fresh |-> TRUE]
<1>1. CASE Len(text) >= WIN_TEXT_BUF - 6
  BY <1>1 DEF CtrlC
<1>2. CASE ~(Len(text) >= WIN_TEXT_BUF - 6)
  <2>1. text \in Shown
    BY DEF TerminalInv
  <2>2. text \in Seq(Char) /\ Len(text) \in Nat /\ Len(text) < WIN_TEXT_BUF - 6 /\ WIN_TEXT_BUF \in Nat
    BY <1>2, <2>1, ShownLength DEF Text
  <2>3. mark \in Seq(Char) /\ Len(mark) = 3 /\ mark[3] = "nl"
    BY DEF Char
  <2> HIDE DEF text, mark
  <2>4. /\ line \in Seq(Char) /\ Len(line) = Len(text) + Len(mark)
        /\ \A i \in 1..Len(text) + Len(mark) : line[i] = IF i <= Len(text) THEN text[i] ELSE mark[i - Len(text)]
    BY <2>2, <2>3, ConcatProperties
  <2> DEFINE n == Len(text)
  <2>5. n + 3 \in 1..n + 3 /\ ~(n + 3 <= n) /\ n + 3 - n = 3
    BY <2>2
  <2>6. Len(line) = n + 3 /\ line[n + 3] = "nl"
    BY <2>3, <2>4, <2>5
  <2> HIDE DEF line
  <2>7. line \in Text /\ Last(line) = "nl"
    BY <2>4, <2>6 DEF Text, Last
  <2>8. line \o PROMPT \in Text /\ Len(line \o PROMPT) = n + 3 + 2 /\ Prompted(line \o PROMPT, <<>>)
    BY <2>6, <2>7, PromptAdded
  <2>9. line \o PROMPT \in Shown
    <3>1. n + 3 + 2 \in 1..WIN_TEXT_BUF - 1
      BY <2>2
    <3> QED
      BY <2>8, <3>1 DEF Shown
  <2>10. TerminalInv(t)
    <3> DEFINE u == line \o PROMPT
    <3> HIDE DEF u
    <3>1. u \in Shown /\ Prompted(u, <<>>)
      BY <2>8, <2>9 DEF u
    <3>2. <<>> \in Text
      BY DEF Text
    <3>3. t = [text |-> u, typed |-> <<>>, fresh |-> TRUE]
      BY DEF u
    <3> HIDE DEF t
    <3> QED
      BY <3>1, <3>2, <3>3 DEF TerminalInv
  <2>11. CtrlC(s) = t
    BY <1>2 DEF CtrlC, text, mark, line
  <2> HIDE DEF t
  <2> QED
    BY <2>10, <2>11
<1> QED
  BY <1>1, <1>2

LEMMA EnterKeeps ==
  ASSUME NEW s, TerminalInv(s), NEW out \in Text
  PROVE  TerminalInv(Enter(s, out))
<1> DEFINE cmd == term_get_cmd(s.text)
           line == IF Len(s.text) < WIN_TEXT_BUF - 2 THEN Append(s.text, "nl") ELSE s.text
           done == IF cmd = <<"clear">> THEN <<>>
                   ELSE IF cmd = <<>> THEN line ELSE PrintOut(line, out)
           room == Len(done) < WIN_TEXT_BUF - 4
           text == IF room THEN done \o PROMPT ELSE done
           fresh == room /\ (done = <<>> \/ Last(done) = "nl")
           t == [text |-> text, typed |-> <<>>, fresh |-> fresh]
<1>1. WIN_TEXT_BUF \in Nat /\ WIN_TEXT_BUF >= 10
  BY TerminalAssumption
<1>2. Enter(s, out) = t
  BY DEF Enter
<1> HIDE DEF cmd
<1>3. line \in Shown
  <2>1. s.text \in Shown
    BY DEF TerminalInv
  <2>2. CASE Len(s.text) < WIN_TEXT_BUF - 2
    <3>1. s.text \in Seq(Char) /\ "nl" \in Char /\ Len(s.text) \in Nat
      BY <2>1, ShownLength DEF Text, Char
    <3>2. Append(s.text, "nl") \in Seq(Char) /\ Len(Append(s.text, "nl")) = Len(s.text) + 1
      BY <3>1, AppendProperties
    <3>3. Len(s.text) + 1 \in 1..WIN_TEXT_BUF - 1
      BY <1>1, <2>2, <3>1
    <3> QED
      BY <2>2, <3>2, <3>3 DEF Shown, Text
  <2>3. CASE ~(Len(s.text) < WIN_TEXT_BUF - 2)
    BY <2>1, <2>3
  <2> QED
    BY <2>2, <2>3
<1> HIDE DEF line
<1>4. done = <<>> \/ done \in Shown
  BY <1>3, OutputFits
<1>5. Len(<<>>) = 0 /\ <<>> \in Text
  BY EmptySeq DEF Text
<1> HIDE DEF done
<1>6. done \in Text /\ Len(done) \in Nat /\ Len(done) < WIN_TEXT_BUF
  <2>1. CASE done = <<>>
    BY <1>1, <1>5, <2>1
  <2>2. CASE done \in Shown
    BY <2>2, ShownLength
  <2> QED
    BY <1>4, <2>1, <2>2
<1>7. text \in Shown
  <2>1. CASE room
    <3>1. done \o PROMPT \in Text /\ Len(done \o PROMPT) = Len(done) + 2
      BY <1>6, PromptAdded
    <3>2. Len(done) + 2 \in 1..WIN_TEXT_BUF - 1
      BY <1>1, <1>6, <2>1
    <3> QED
      BY <2>1, <3>1, <3>2 DEF Shown
  <2>2. CASE ~room
    <3>1. done # <<>>
      BY <1>1, <1>5, <2>2
    <3> QED
      BY <1>4, <2>2, <3>1
  <2> QED
    BY <2>1, <2>2
<1>8. ASSUME fresh PROVE Prompted(text, <<>>)
  <2>1. room /\ (done = <<>> \/ Last(done) = "nl")
    BY <1>8
  <2>2. Prompted(done \o PROMPT, <<>>)
    BY <1>6, <2>1, PromptAdded
  <2> QED
    BY <2>1, <2>2
<1>9. fresh \in BOOLEAN
  OBVIOUS
<1> HIDE DEF text, fresh
<1>10. TerminalInv(t)
  BY <1>5, <1>7, <1>8, <1>9 DEF TerminalInv
<1> HIDE DEF t
<1> QED
  BY <1>2, <1>10

LEMMA TerminalKeeps ==
  ASSUME NEW s, TerminalInv(s), NEW out \in Outputs,
         NEW key \in Typed \cup {"none", "enter", "backspace", "ctrl-c"}
  PROVE  TerminalInv(render_terminal(s, key, out))
<1>1. out \in Text
  <2>1. out \in Seq(Char \ {"clear"})
    BY TerminalAssumption
  <2>2. Len(out) \in Nat /\ out = [i \in 1..Len(out) |-> out[i]] /\ \A i \in 1..Len(out) : out[i] \in Char
    BY <2>1
  <2> HIDE DEF Char
  <2>3. [i \in 1..Len(out) |-> out[i]] \in Seq(Char)
    BY <2>2
  <2> QED
    BY <2>2, <2>3 DEF Text
<1>2. CASE key = "none"
  BY <1>2 DEF render_terminal
<1>3. CASE key = "enter"
  <2>1. render_terminal(s, key, out) = Enter(s, out)
    BY <1>3 DEF render_terminal
  <2> QED
    BY <1>1, <2>1, EnterKeeps
<1>4. CASE key = "backspace"
  <2>1. render_terminal(s, key, out) = Backspace(s)
    BY <1>4 DEF render_terminal
  <2> QED
    BY <2>1, BackspaceKeeps
<1>5. CASE key = "ctrl-c"
  <2>1. render_terminal(s, key, out) = CtrlC(s)
    BY <1>5 DEF render_terminal
  <2> QED
    BY <2>1, CtrlCKeeps
<1>6. CASE key \notin {"none", "enter", "backspace", "ctrl-c"}
  <2>1. key \in Typed
    BY <1>6
  <2>2. render_terminal(s, key, out) = Type(s, key)
    BY <1>6 DEF render_terminal
  <2> QED
    BY <2>1, <2>2, TypeKeeps
<1> QED
  BY <1>2, <1>3, <1>4, <1>5, <1>6

LEMMA TerminalStarts == TerminalInv(TerminalOpened)
<1> DEFINE w == <<"other", "nl">>
           u == w \o PROMPT
<1>1. w \in Text /\ Len(w) = 2 /\ w # <<>>
  BY DEF Text, Char
<1>2. Last(w) = "nl"
  BY DEF Last
<1>3. TerminalOpened = [text |-> u, typed |-> <<>>, fresh |-> TRUE]
  BY DEF TerminalOpened
<1> HIDE DEF w
<1>4. u \in Text /\ Len(u) = 2 + 2 /\ Prompted(u, <<>>)
  BY <1>1, <1>2, PromptAdded
<1>5. 2 + 2 \in 1..WIN_TEXT_BUF - 1
  BY TerminalAssumption
<1>6. u \in Shown /\ <<>> \in Text
  BY <1>4, <1>5 DEF Shown, Text
<1> HIDE DEF u
<1> QED
  BY <1>3, <1>4, <1>6 DEF TerminalInv

LEMMA TerminalOrder ==
  ASSUME NEW s, TerminalInv(s)
  PROVE  TerminalInOrder(s)
<1>1. Len(s.text) \in 1..WIN_TEXT_BUF - 1 /\ s.text \in Text /\ s.typed \in Text
  BY DEF TerminalInv, Shown
<1>2. s.fresh => term_get_cmd(s.text) = Command(s.typed)
  BY <1>1, CommandIsTyped DEF TerminalInv
<1> QED
  BY <1>1, <1>2 DEF TerminalInOrder

------------------------------------------------------------------------------
\* Sequences that the editors change in one place.

LEMMA HeadPart ==
  ASSUME NEW S, NEW s \in Seq(S), NEW m \in 0..Len(s)
  PROVE  /\ SubSeq(s, 1, m) \in Seq(S) /\ Len(SubSeq(s, 1, m)) = m
         /\ \A i \in 1..m : SubSeq(s, 1, m)[i] = s[i]
<1> DEFINE one == 1
<1>1. one \in Int /\ m \in Int /\ one = 1
  OBVIOUS
<1>2. \A i \in one..m : s[i] \in S
  OBVIOUS
<1> HIDE DEF one
<1>3. /\ SubSeq(s, one, m) \in Seq(S)
      /\ Len(SubSeq(s, one, m)) = IF one <= m THEN m - one + 1 ELSE 0
      /\ \A i \in 1..m - one + 1 : SubSeq(s, one, m)[i] = s[one + i - 1]
  BY <1>1, <1>2, SubSeqProperties
<1>4. m - one + 1 = m /\ m \in Nat /\ \A i \in 1..m : one + i - 1 = i
  BY <1>1
<1>5. Len(SubSeq(s, one, m)) = m
  BY <1>1, <1>3, <1>4
<1>6. \A i \in 1..m : SubSeq(s, one, m)[i] = s[i]
  BY <1>3, <1>4
<1> QED
  BY <1>1, <1>3, <1>5, <1>6

LEMMA TailPart ==
  ASSUME NEW S, NEW s \in Seq(S), NEW m \in 0..Len(s)
  PROVE  /\ SubSeq(s, m + 1, Len(s)) \in Seq(S)
         /\ Len(SubSeq(s, m + 1, Len(s))) = Len(s) - m
<1> DEFINE k == m + 1
<1>1. k \in 1..Len(s) + 1 /\ Len(s) - k + 1 = Len(s) - m
  OBVIOUS
<1> HIDE DEF k
<1>2. SubSeq(s, k, Len(s)) \in Seq(S) /\ Len(SubSeq(s, k, Len(s))) = Len(s) - k + 1
  BY <1>1, TailProperties
<1> QED
  BY <1>1, <1>2 DEF k

LEMMA InsertProperties ==
  ASSUME NEW S, NEW s \in Seq(S), NEW m \in 0..Len(s), NEW e \in S
  PROVE  InsertAt(s, m + 1, e) \in Seq(S) /\ Len(InsertAt(s, m + 1, e)) = Len(s) + 1
<1> DEFINE a == SubSeq(s, 1, m)
           b == SubSeq(s, m + 1, Len(s))
           u == <<e>>
<1>1. a \in Seq(S) /\ Len(a) = m
  BY HeadPart
<1>2. b \in Seq(S) /\ Len(b) = Len(s) - m
  BY TailPart
<1>3. u \in Seq(S) /\ Len(u) = 1
  OBVIOUS
<1>4. m + 1 - 1 = m /\ Len(s) \in Nat /\ m \in Nat
  OBVIOUS
<1>5. InsertAt(s, m + 1, e) = (a \o u) \o b
  <2> DEFINE j == m + 1
             k == j - 1
  <2>1. k = m
    BY <1>4
  <2> HIDE DEF j
  <2>2. InsertAt(s, j, e) = (SubSeq(s, 1, k) \o <<e>>) \o SubSeq(s, j, Len(s))
    BY Zenon DEF InsertAt
  <2> HIDE DEF k
  <2> QED
    BY <2>1, <2>2 DEF j
<1> HIDE DEF a, b, u
<1>6. a \o u \in Seq(S) /\ Len(a \o u) = m + 1
  <2>1. a \o u \in Seq(S) /\ Len(a \o u) = Len(a) + Len(u)
    BY <1>1, <1>3, ConcatProperties
  <2> QED
    BY <1>1, <1>3, <2>1
<1>7. (a \o u) \o b \in Seq(S) /\ Len((a \o u) \o b) = m + 1 + (Len(s) - m)
  <2> DEFINE au == a \o u
  <2>1. au \in Seq(S) /\ Len(au) = m + 1
    BY <1>6
  <2> HIDE DEF au
  <2>2. au \o b \in Seq(S) /\ Len(au \o b) = Len(au) + Len(b)
    BY <1>2, <2>1, ConcatProperties
  <2> QED
    BY <1>2, <2>1, <2>2 DEF au
<1>8. m + 1 + (Len(s) - m) = Len(s) + 1
  BY <1>4
<1> DEFINE t == InsertAt(s, m + 1, e)
<1>9. t \in Seq(S) /\ Len(t) = m + 1 + (Len(s) - m)
  BY <1>5, <1>7
<1> HIDE DEF t
<1>10. t \in Seq(S) /\ Len(t) = Len(s) + 1
  BY <1>8, <1>9
<1> QED
  BY <1>10 DEF t

LEMMA RemoveProperties ==
  ASSUME NEW S, NEW s \in Seq(S), NEW m \in 1..Len(s)
  PROVE  /\ RemoveAt(s, m) \in Seq(S) /\ Len(RemoveAt(s, m)) = Len(s) - 1
         /\ \A i \in 1..m - 1 : RemoveAt(s, m)[i] = s[i]
<1> DEFINE k == m - 1
           a == SubSeq(s, 1, k)
           b == SubSeq(s, m + 1, Len(s))
<1>1. k \in 0..Len(s) /\ m \in 0..Len(s)
  OBVIOUS
<1>2. b \in Seq(S) /\ Len(b) = Len(s) - m
  BY <1>1, TailPart
<1>3. a \in Seq(S) /\ Len(a) = k /\ \A i \in 1..k : a[i] = s[i]
  <2> HIDE DEF k
  <2> QED
    BY <1>1, HeadPart
<1>4. RemoveAt(s, m) = a \o b
  BY DEF RemoveAt
<1>5. k = m - 1 /\ Len(s) \in Nat /\ m \in Nat
  OBVIOUS
<1> HIDE DEF a, b, k
<1>6. /\ a \o b \in Seq(S) /\ Len(a \o b) = Len(a) + Len(b)
      /\ \A i \in 1..Len(a) + Len(b) : (a \o b)[i] = IF i <= Len(a) THEN a[i] ELSE b[i - Len(a)]
  BY <1>2, <1>3, ConcatProperties
<1>7. Len(a) + Len(b) = Len(s) - 1
  BY <1>2, <1>3, <1>5
<1>8. \A i \in 1..k : (a \o b)[i] = s[i]
  <2> SUFFICES ASSUME NEW i \in 1..k PROVE (a \o b)[i] = s[i]
    OBVIOUS
  <2>1. i \in 1..Len(a) + Len(b) /\ i <= Len(a)
    BY <1>2, <1>3, <1>5
  <2>2. (a \o b)[i] = a[i]
    BY <1>6, <2>1
  <2> QED
    BY <1>3, <2>2
<1>9. \A i \in 1..m - 1 : (a \o b)[i] = s[i]
  BY <1>5, <1>8
<1> QED
  BY <1>4, <1>6, <1>7, <1>9

LEMMA ShorterProperties ==
  ASSUME NEW S, NEW s \in Seq(S), NEW n \in Nat
  PROVE  /\ Shorter(s, n) \in Seq(S) /\ Len(Shorter(s, n)) <= n /\ Len(Shorter(s, n)) <= Len(s)
         /\ Len(Shorter(s, n)) \in Nat
         /\ Len(s) <= n => Shorter(s, n) = s
<1> DEFINE m == IF Len(s) < n THEN Len(s) ELSE n
<1>1. m \in 0..Len(s) /\ m <= n /\ m \in Nat
  OBVIOUS
<1>2. Len(s) <= n => m = Len(s)
  OBVIOUS
<1>3. Shorter(s, n) = SubSeq(s, 1, m)
  BY DEF Shorter
<1> HIDE DEF m
<1>4. SubSeq(s, 1, m) \in Seq(S) /\ Len(SubSeq(s, 1, m)) = m
  BY <1>1, HeadPart
<1>5. SubSeq(s, 1, Len(s)) = s
  BY SubSeqFull
<1> DEFINE t == Shorter(s, n)
<1>6. t \in Seq(S) /\ Len(t) = m
  BY <1>3, <1>4
<1>7. Len(s) <= n => t = s
  BY <1>2, <1>3, <1>5
<1> HIDE DEF t
<1>8. Len(t) <= n /\ Len(t) <= Len(s) /\ Len(t) \in Nat
  BY <1>1, <1>6
<1> QED
  BY <1>6, <1>7, <1>8 DEF t

LEMMA AppendPart ==
  ASSUME NEW S, NEW s \in Seq(S), NEW n \in 1..Len(s)
  PROVE  /\ SubSeq(s, 1, n - 1) \in Seq(S) /\ s[n] \in S
         /\ Append(SubSeq(s, 1, n - 1), s[n]) = SubSeq(s, 1, n)
<1> DEFINE k == n - 1
           a == SubSeq(s, 1, k)
           b == SubSeq(s, 1, n)
           c == Append(a, s[n])
<1>1. k \in 0..Len(s) /\ n \in 0..Len(s) /\ n = k + 1 /\ k \in Nat
  OBVIOUS
<1> HIDE DEF k
<1>2. a \in Seq(S) /\ Len(a) = k /\ \A i \in 1..k : a[i] = s[i]
  BY <1>1, HeadPart
<1>3. b \in Seq(S) /\ Len(b) = n /\ \A i \in 1..n : b[i] = s[i]
  BY <1>1, HeadPart
<1>4. s[n] \in S
  OBVIOUS
<1> HIDE DEF a, b
<1>5. /\ c \in Seq(S) /\ Len(c) = k + 1
      /\ \A i \in 1..k + 1 : c[i] = IF i = k + 1 THEN s[n] ELSE a[i]
  BY <1>2, <1>4, AppendProperties
<1> HIDE DEF c
<1>6. \A i \in 1..Len(c) : c[i] = b[i]
  BY <1>1, <1>2, <1>3, <1>5
<1>7. Len(c) = Len(b)
  BY <1>1, <1>3, <1>5
<1>8. c = b
  BY <1>3, <1>5, <1>6, <1>7, SeqEqual
<1> QED
  BY <1>2, <1>4, <1>8 DEF k, a, b, c

LEMMA ConcatAppend ==
  ASSUME NEW S, NEW s \in Seq(S), NEW t \in Seq(S), NEW e \in S
  PROVE  s \o Append(t, e) = Append(s \o t, e)
<1> DEFINE w == Append(t, e)
           joined == s \o t
           a == s \o w
           b == Append(joined, e)
           m == Len(s)
           n == Len(t)
<1>1. /\ w \in Seq(S) /\ Len(w) = n + 1
      /\ \A i \in 1..n + 1 : w[i] = IF i = n + 1 THEN e ELSE t[i]
  BY AppendProperties
<1>2. joined \in Seq(S) /\ Len(joined) = m + n
      /\ \A i \in 1..m + n : joined[i] = IF i <= m THEN s[i] ELSE t[i - m]
  BY ConcatProperties
<1>3. m \in Nat /\ n \in Nat
  OBVIOUS
<1> HIDE DEF w, joined
<1>4. /\ a \in Seq(S) /\ Len(a) = m + Len(w)
      /\ \A i \in 1..m + Len(w) : a[i] = IF i <= m THEN s[i] ELSE w[i - m]
  BY <1>1, ConcatProperties
<1>5. /\ b \in Seq(S) /\ Len(b) = Len(joined) + 1
      /\ \A i \in 1..Len(joined) + 1 : b[i] = IF i = Len(joined) + 1 THEN e ELSE joined[i]
  <2>1. joined \in Seq(S)
    BY <1>2
  <2> QED
    BY <2>1, AppendProperties
<1> HIDE DEF a, b, m, n
<1>6. Len(a) = m + n + 1 /\ Len(b) = m + n + 1
  BY <1>1, <1>2, <1>3, <1>4, <1>5
<1>7. ASSUME NEW i \in 1..m + n + 1 PROVE a[i] = b[i]
  <2>1. a[i] = IF i <= m THEN s[i] ELSE w[i - m]
    BY <1>1, <1>3, <1>4
  <2>2. b[i] = IF i = m + n + 1 THEN e ELSE joined[i]
    BY <1>2, <1>3, <1>5
  <2>3. CASE i <= m
    <3>1. i \in 1..m + n /\ i # m + n + 1
      BY <1>3, <2>3
    <3> QED
      BY <1>2, <2>1, <2>2, <2>3, <3>1
  <2>4. CASE ~(i <= m) /\ i # m + n + 1
    <3>1. i \in 1..m + n /\ i - m \in 1..n + 1 /\ i - m # n + 1
      BY <1>3, <2>4
    <3> QED
      BY <1>1, <1>2, <2>1, <2>2, <2>4, <3>1
  <2>5. CASE i = m + n + 1
    <3>1. i - m = n + 1 /\ ~(i <= m) /\ n + 1 \in 1..n + 1
      BY <1>3, <2>5
    <3> QED
      BY <1>1, <2>1, <2>2, <2>5, <3>1
  <2> QED
    BY <2>3, <2>4, <2>5
<1>8. a = b
  BY <1>4, <1>5, <1>6, <1>7, SeqEqual
<1> QED
  BY <1>8 DEF a, b, w, joined

------------------------------------------------------------------------------
\* Reading and writing lines.

Byte == Chars \cup {"nl"}

Rows(L) == {l \in Seq(Chars) : Len(l) < L}

Reader(L) == [done : Seq(Rows(L)), cur : Rows(L)]

Nothing == [done |-> <<>>, cur |-> <<>>]

\* r is what has been read behind the bytes b.
Reads(p, b, L) == p[0] = Nothing /\ \A n \in 1..Len(b) : p[n] = Take(p[n - 1], b[n], L)
Ends(b, r, L) == \E p : Reads(p, b, L) /\ p[Len(b)] = r

LEMMA TakeReads ==
  ASSUME NEW L \in Nat \ {0}, NEW r \in Reader(L), NEW c \in Byte
  PROVE  Take(r, c, L) \in Reader(L)
<1>1. r.done \in Seq(Rows(L)) /\ r.cur \in Rows(L) /\ r.cur \in Seq(Chars)
  BY DEF Reader, Rows
<1>2. CASE c = "nl"
  <2>1. Append(r.done, r.cur) \in Seq(Rows(L))
    <3> HIDE DEF Rows
    <3> QED
      BY <1>1, AppendProperties
  <2>2. <<>> \in Rows(L)
    BY EmptySeq DEF Rows
  <2>3. Take(r, c, L) = [done |-> Append(r.done, r.cur), cur |-> <<>>]
    BY <1>2 DEF Take
  <2> HIDE DEF Rows
  <2> QED
    BY <2>1, <2>2, <2>3 DEF Reader
<1>3. CASE c # "nl"
  <2> DEFINE t == Append(r.cur, c)
             k == L - 1
  <2>1. t \in Seq(Chars) /\ k \in Nat
    BY <1>1, <1>3, AppendProperties DEF Byte
  <2>2. Take(r, c, L) = [done |-> r.done, cur |-> Shorter(t, k)]
    BY <1>3 DEF Take
  <2>3. k < L
    OBVIOUS
  <2> HIDE DEF t, k
  <2>4. Shorter(t, k) \in Seq(Chars) /\ Len(Shorter(t, k)) <= k /\ Len(Shorter(t, k)) \in Nat
    BY <2>1, ShorterProperties
  <2>5. Shorter(t, k) \in Rows(L)
    BY <2>1, <2>3, <2>4 DEF Rows
  <2> HIDE DEF Rows
  <2> QED
    BY <1>1, <2>2, <2>5 DEF Reader
<1> QED
  BY <1>2, <1>3

LEMMA NothingRead ==
  ASSUME NEW L \in Nat \ {0}
  PROVE  Nothing \in Reader(L) /\ Ends(<<>>, Nothing, L)
<1>1. <<>> \in Rows(L) /\ <<>> \in Seq(Rows(L)) /\ Len(<<>>) = 0
  BY EmptySeq DEF Rows
<1>2. Nothing \in Reader(L)
  <2> HIDE DEF Rows
  <2> QED
    BY <1>1 DEF Reader, Nothing
<1> DEFINE p == [i \in {0} |-> Nothing]
<1>3. p[0] = Nothing /\ 1..0 = {}
  OBVIOUS
<1> HIDE DEF p
<1>4. Reads(p, <<>>, L) /\ p[Len(<<>>)] = Nothing
  BY <1>1, <1>3 DEF Reads
<1> QED
  BY <1>2, <1>4 DEF Ends

LEMMA ReadOn ==
  ASSUME NEW S, NEW b \in Seq(S), NEW c \in S, NEW r, NEW L, Ends(b, r, L)
  PROVE  Ends(Append(b, c), Take(r, c, L), L)
<1> DEFINE n == Len(b)
           w == Append(b, c)
<1>1. PICK p : Reads(p, b, L) /\ p[n] = r
  BY DEF Ends
<1> DEFINE q == [i \in 0..n + 1 |-> IF i = n + 1 THEN Take(r, c, L) ELSE p[i]]
<1>2. n \in Nat /\ Len(w) = n + 1 /\ \A i \in 1..n + 1 : w[i] = IF i = n + 1 THEN c ELSE b[i]
  BY AppendProperties
<1>3. q[n + 1] = Take(r, c, L) /\ \A i \in 0..n : q[i] = p[i]
  <2>1. n + 1 \in 0..n + 1 /\ \A i \in 0..n : i \in 0..n + 1 /\ i # n + 1
    BY <1>2
  <2> HIDE DEF n
  <2> QED
    BY <2>1
<1> HIDE DEF q, w, n
<1>4. p[0] = Nothing /\ \A i \in 1..n : p[i] = Take(p[i - 1], b[i], L)
  BY <1>1 DEF Reads, n
<1>5. q[0] = Nothing
  BY <1>2, <1>3, <1>4
<1>6. ASSUME NEW i \in 1..n + 1 PROVE q[i] = Take(q[i - 1], w[i], L)
  <2>1. CASE i = n + 1
    <3>1. i - 1 = n /\ n \in 0..n
      BY <1>2, <2>1
    <3>2. q[i - 1] = r /\ w[i] = c
      BY <1>1, <1>2, <1>3, <2>1, <3>1
    <3> QED
      BY <1>3, <2>1, <3>2
  <2>2. CASE i # n + 1
    <3>1. i \in 1..n /\ i - 1 \in 0..n /\ i \in 0..n
      BY <1>2, <2>2
    <3>2. q[i - 1] = p[i - 1] /\ q[i] = p[i] /\ w[i] = b[i]
      BY <1>2, <1>3, <2>2, <3>1
    <3> QED
      BY <1>4, <3>1, <3>2
  <2> QED
    BY <2>1, <2>2
<1>7. Reads(q, w, L) /\ q[Len(w)] = Take(r, c, L)
  BY <1>2, <1>3, <1>5, <1>6 DEF Reads
<1> QED
  BY <1>7 DEF Ends, w

\* Every file is read to its end.
LEMMA ReadExists ==
  ASSUME NEW L \in Nat \ {0}, NEW b \in Seq(Byte)
  PROVE  \E r \in Reader(L) : Ends(b, r, L)
<1> DEFINE N == Len(b)
           Part(n) == SubSeq(b, 1, n)
           T == {n \in 0..N : \E r \in Reader(L) : Ends(Part(n), r, L)}
<1>1. N \in Nat
  OBVIOUS
<1> HIDE DEF N
<1>2. 0 \in T
  <2>1. Part(0) = <<>>
    BY SubSeqEmpty
  <2>2. 0 \in 0..N
    BY <1>1
  <2> HIDE DEF Part
  <2> QED
    BY <2>1, <2>2, NothingRead
<1>3. ASSUME NEW n \in 1..N, n - 1 \in T PROVE n \in T
  <2>1. PICK r \in Reader(L) : Ends(Part(n - 1), r, L)
    BY <1>3
  <2>2. Part(n - 1) \in Seq(Byte) /\ b[n] \in Byte /\ Append(Part(n - 1), b[n]) = Part(n)
    BY AppendPart DEF N
  <2> HIDE DEF Part
  <2>3. Ends(Part(n), Take(r, b[n], L), L)
    BY <2>1, <2>2, ReadOn
  <2>4. Take(r, b[n], L) \in Reader(L)
    BY <2>2, TakeReads
  <2>5. n \in 0..N
    BY <1>1
  <2> QED
    BY <2>3, <2>4, <2>5
<1> HIDE DEF T
<1>4. 0..N \subseteq T
  BY <1>1, <1>2, <1>3, RangeInduction
<1>5. N \in T
  BY <1>1, <1>4
<1>6. Part(N) = b
  BY SubSeqFull DEF N
<1> QED
  BY <1>5, <1>6 DEF T

LEMMA ReadIs ==
  ASSUME NEW L \in Nat \ {0}, NEW b \in Seq(Byte), NEW r, Ends(b, r, L)
  PROVE  ReadLines(b, L) = IF r.cur = <<>> THEN r.done ELSE Append(r.done, r.cur)
<1> DEFINE N == Len(b)
           Is(p) == p = [n \in 0..N |-> IF n = 0 THEN [done |-> <<>>, cur |-> <<>>]
                                        ELSE Take(p[n - 1], b[n], L)]
           read == CHOOSE p : Is(p)
<1>1. N \in Nat
  OBVIOUS
<1>2. PICK p : Reads(p, b, L) /\ p[N] = r
  BY DEF Ends
<1> DEFINE q == [n \in 0..N |-> p[n]]
<1>3. ReadLines(b, L) = IF read[N].cur = <<>> THEN read[N].done ELSE Append(read[N].done, read[N].cur)
  BY DEF ReadLines
<1> HIDE DEF N, Is, read
<1>4. p[0] = Nothing /\ \A n \in 1..N : p[n] = Take(p[n - 1], b[n], L)
  BY <1>2 DEF Reads, N
<1>5. \A n \in 0..N : q[n] = p[n]
  OBVIOUS
<1>6. ASSUME NEW n \in 0..N
      PROVE  q[n] = IF n = 0 THEN Nothing ELSE Take(q[n - 1], b[n], L)
  <2> HIDE DEF q
  <2>1. CASE n = 0
    BY <1>4, <1>5, <2>1
  <2>2. CASE n # 0
    <3>1. n \in 1..N /\ n - 1 \in 0..N
      BY <1>1, <2>2
    <3> QED
      BY <1>4, <1>5, <2>2, <3>1
  <2> QED
    BY <2>1, <2>2
<1>7. q = [n \in 0..N |-> q[n]]
  OBVIOUS
<1> HIDE DEF q
<1>8. Is(q)
  BY <1>6, <1>7 DEF Is, Nothing
<1>9. Is(read)
  BY <1>8 DEF read
<1>10. read[0] = Nothing /\ \A n \in 1..N : read[n] = Take(read[n - 1], b[n], L)
  BY <1>1, <1>9 DEF Is, Nothing
<1> DEFINE T == {n \in 0..N : read[n] = p[n]}
<1>11. 0 \in T
  BY <1>1, <1>4, <1>10
<1>12. ASSUME NEW n \in 1..N, n - 1 \in T PROVE n \in T
  BY <1>1, <1>4, <1>10, <1>12
<1> HIDE DEF T
<1>13. 0..N \subseteq T
  BY <1>1, <1>11, <1>12, RangeInduction
<1>14. read[N] = p[N]
  BY <1>1, <1>13 DEF T
<1> QED
  BY <1>2, <1>3, <1>14

\* What is read fits the rows.
LEMMA ReadFits ==
  ASSUME NEW L \in Nat \ {0}, NEW b \in Seq(Byte)
  PROVE  ReadLines(b, L) \in Seq(Rows(L))
<1>1. PICK r \in Reader(L) : Ends(b, r, L)
  BY ReadExists
<1>2. r.done \in Seq(Rows(L)) /\ r.cur \in Rows(L)
  BY DEF Reader
<1>3. Append(r.done, r.cur) \in Seq(Rows(L))
  <2> HIDE DEF Rows
  <2> QED
    BY <1>2, AppendProperties
<1> QED
  BY <1>1, <1>2, <1>3, ReadIs

LEMMA LineRead ==
  ASSUME NEW L \in Nat \ {0}, NEW b \in Seq(Byte), NEW d, NEW l \in Rows(L),
         Ends(b, [done |-> d, cur |-> <<>>], L)
  PROVE  /\ b \o l \o <<"nl">> \in Seq(Byte)
         /\ Ends(b \o l \o <<"nl">>, [done |-> Append(d, l), cur |-> <<>>], L)
<1> DEFINE N == Len(l)
           Part(n) == SubSeq(l, 1, n)
           T == {n \in 0..N : Ends(b \o Part(n), [done |-> d, cur |-> Part(n)], L)}
<1>1. N \in Nat /\ l \in Seq(Chars) /\ N <= L - 1
  BY DEF Rows
<1>2. Chars \subseteq Byte /\ "nl" \in Byte /\ "nl" \notin Chars
  BY EditorAssumption DEF Byte
<1>3. l \in Seq(Byte)
  BY <1>1, <1>2, SeqMonotonic
<1>4. 0 \in T
  <2>1. Part(0) = <<>>
    BY SubSeqEmpty
  <2>2. b \o <<>> = b
    BY ConcatEmptySeq
  <2>3. 0 \in 0..N
    BY <1>1
  <2> HIDE DEF Part
  <2> QED
    BY <2>1, <2>2, <2>3
<1>5. ASSUME NEW n \in 1..N, n - 1 \in T PROVE n \in T
  <2> DEFINE k == n - 1
             c == l[n]
             room == L - 1
  <2>1. /\ Part(k) \in Seq(Byte) /\ c \in Byte /\ Append(Part(k), c) = Part(n)
    BY <1>3, AppendPart
  <2>2. c \in Chars /\ c # "nl"
    BY <1>1, <1>2
  <2>3. n \in 0..N /\ room \in Nat /\ n <= room
    BY <1>1
  <2>4. Part(n) \in Seq(Chars) /\ Len(Part(n)) = n
    BY <1>1, <2>3, HeadPart
  <2>5. Ends(b \o Part(k), [done |-> d, cur |-> Part(k)], L)
    BY <1>5
  <2> HIDE DEF Part, k, c
  <2>6. b \o Part(k) \in Seq(Byte)
    BY <2>1, ConcatProperties
  <2>7. Append(b \o Part(k), c) = b \o Part(n)
    <3> DEFINE a == Part(k)
    <3>1. a \in Seq(Byte) /\ c \in Byte /\ Append(a, c) = Part(n)
      BY <2>1
    <3> HIDE DEF a
    <3>2. b \o Append(a, c) = Append(b \o a, c)
      <4>1. \A s, t \in Seq(Byte), e \in Byte : s \o Append(t, e) = Append(s \o t, e)
        BY ConcatAppend
      <4>2. b \in Seq(Byte)
        OBVIOUS
      <4> QED
        BY <3>1, <4>1, <4>2
    <3> QED
      BY <3>1, <3>2 DEF a
  <2> DEFINE r == [done |-> d, cur |-> Part(k)]
             bk == b \o Part(k)
  <2>8. Ends(Append(bk, c), Take(r, c, L), L)
    <3>1. bk \in Seq(Byte) /\ c \in Byte /\ Ends(bk, r, L)
      BY <2>1, <2>5, <2>6
    <3> HIDE DEF bk, r
    <3> QED
      BY <3>1, ReadOn
  <2>9. Take(r, c, L) = [done |-> d, cur |-> Shorter(Part(n), room)]
    BY <2>1, <2>2 DEF Take
  <2> HIDE DEF room
  <2>10. Shorter(Part(n), room) = Part(n)
    BY <2>3, <2>4, ShorterProperties
  <2> QED
    BY <2>3, <2>7, <2>8, <2>9, <2>10
<1> HIDE DEF T
<1>6. 0..N \subseteq T
  BY <1>1, <1>4, <1>5, RangeInduction
<1>7. Ends(b \o Part(N), [done |-> d, cur |-> Part(N)], L)
  BY <1>1, <1>6 DEF T
<1>8. Part(N) = l
  BY <1>1, SubSeqFull
<1> HIDE DEF Part, N
<1> DEFINE bl == b \o l
           r == [done |-> d, cur |-> l]
<1>9. bl \in Seq(Byte) /\ Ends(bl, r, L)
  BY <1>3, <1>7, <1>8, ConcatProperties
<1>10. Take(r, "nl", L) = [done |-> Append(d, l), cur |-> <<>>]
  BY DEF Take
<1> HIDE DEF bl, r
<1>11. Ends(Append(bl, "nl"), Take(r, "nl", L), L) /\ Append(bl, "nl") \in Seq(Byte)
  BY <1>2, <1>9, ReadOn, AppendProperties
<1>12. Append(bl, "nl") = bl \o <<"nl">>
  BY <1>9
<1> QED
  BY <1>10, <1>11, <1>12 DEF bl

\* What is written is read again, line by line.
LEMMA LinesReturn ==
  ASSUME NEW L \in Nat \ {0}, NEW lines \in Seq(Rows(L))
  PROVE  Bytes(lines) \in Seq(Byte) /\ ReadLines(Bytes(lines), L) = lines
<1> DEFINE N == Len(lines)
           S == Seq(Byte)
           nl == <<"nl">>
           Is(p) == p = [n \in 0..N |-> IF n = 0 THEN <<>> ELSE p[n - 1] \o lines[n] \o <<"nl">>]
           first == CHOOSE p : Is(p)
           h == [x \in S \X (1..N) |-> x[1] \o lines[x[2]] \o nl]
           Part(n) == SubSeq(lines, 1, n)
<1>1. N \in Nat /\ nl \in S /\ <<>> \in S
  BY EmptySeq DEF Byte
<1>2. \A n \in 1..N : lines[n] \in Rows(L) /\ lines[n] \in S
  <2>1. Chars \subseteq Byte
    BY DEF Byte
  <2> SUFFICES ASSUME NEW n \in 1..N PROVE lines[n] \in Rows(L) /\ lines[n] \in S
    OBVIOUS
  <2>2. lines[n] \in Rows(L)
    <3> HIDE DEF Rows
    <3> QED
      OBVIOUS
  <2>3. lines[n] \in Seq(Chars)
    BY <2>2 DEF Rows
  <2> QED
    BY <2>1, <2>2, <2>3, SeqMonotonic
<1>3. Bytes(lines) = first[N]
  BY DEF Bytes
<1>4. \A t \in S, n \in 1..N : h[<<t, n>>] = t \o lines[n] \o nl
  OBVIOUS
<1> HIDE DEF Is, first, S, nl
<1>5. \A t \in S, n \in 1..N : t \o lines[n] \o nl \in S
  <2> SUFFICES ASSUME NEW t \in S, NEW n \in 1..N PROVE t \o lines[n] \o nl \in S
    OBVIOUS
  <2> DEFINE tl == t \o lines[n]
  <2>1. tl \in S
    BY <1>2, ConcatProperties DEF S
  <2> HIDE DEF tl
  <2>2. tl \o nl \in S
    BY <1>1, <2>1, ConcatProperties DEF S
  <2> QED
    BY <2>2 DEF tl
<1>6. h \in [S \X (1..N) -> S]
  BY <1>5
<1> HIDE DEF h, N
<1>7. PICK p : p \in [0..N -> S] /\ p[0] = <<>> /\ \A n \in 1..N : p[n] = h[<<p[n - 1], n>>]
  <2>1. \E p : Runs(p, N, S, <<>>, h)
    BY <1>1, <1>6, RecursionExists
  <2> QED
    BY <2>1 DEF Runs
<1>8. ASSUME NEW n \in 0..N
      PROVE  p[n] = IF n = 0 THEN <<>> ELSE p[n - 1] \o lines[n] \o nl
  <2>1. CASE n = 0
    BY <1>7, <2>1
  <2>2. CASE n # 0
    <3>1. n \in 1..N /\ n - 1 \in 0..N
      BY <1>1, <2>2
    <3>2. p[n - 1] \in S
      BY <1>7, <3>1
    <3> QED
      BY <1>4, <1>7, <2>2, <3>1, <3>2
  <2> QED
    BY <2>1, <2>2
<1>9. Is(p)
  BY <1>7, <1>8 DEF Is, nl
<1>10. Is(first)
  BY <1>9 DEF first
<1>11. first[0] = <<>> /\ \A n \in 1..N : first[n] = first[n - 1] \o lines[n] \o nl
  BY <1>1, <1>10 DEF Is, nl
<1> DEFINE Done(n) == [done |-> Part(n), cur |-> <<>>]
           T == {n \in 0..N : first[n] \in S /\ Ends(first[n], Done(n), L)}
<1>12. 0 \in T
  <2>1. Part(0) = <<>>
    BY SubSeqEmpty
  <2>2. 0 \in 0..N /\ Done(0) = Nothing
    BY <1>1, <2>1 DEF Nothing
  <2> HIDE DEF Done
  <2> QED
    BY <1>1, <1>11, <2>2, NothingRead
<1>13. ASSUME NEW n \in 1..N, n - 1 \in T PROVE n \in T
  <2> DEFINE k == n - 1
             d == Part(k)
             b == first[k]
             l == lines[n]
  <2>1. b \in Seq(Byte) /\ Ends(b, [done |-> d, cur |-> <<>>], L)
    BY <1>13 DEF S
  <2>2. l \in Rows(L) /\ first[n] = b \o l \o nl
    BY <1>2, <1>11
  <2>3. Append(d, l) = Part(n)
    <3> DEFINE R == Rows(L)
    <3>1. lines \in Seq(R) /\ n \in 1..Len(lines)
      BY DEF N
    <3> HIDE DEF R
    <3> QED
      BY <3>1, AppendPart
  <2> HIDE DEF b, l, k, d
  <2>4. b \o l \o nl \in Seq(Byte) /\ Ends(b \o l \o nl, [done |-> Append(d, l), cur |-> <<>>], L)
    BY <2>1, <2>2, LineRead DEF nl
  <2>5. n \in 0..N
    BY <1>1
  <2> QED
    BY <2>2, <2>3, <2>4, <2>5 DEF S
<1> HIDE DEF T
<1>14. 0..N \subseteq T
  BY <1>1, <1>12, <1>13, RangeInduction
<1>15. first[N] \in Seq(Byte) /\ Ends(first[N], Done(N), L)
  BY <1>1, <1>14 DEF T, S
<1>16. Part(N) = lines
  BY SubSeqFull DEF N
<1>17. ReadLines(first[N], L) = lines
  <2> DEFINE b == first[N]
  <2> HIDE DEF b, Part
  <2>1. ReadLines(b, L) = Part(N)
    BY <1>15, ReadIs DEF b
  <2> QED
    BY <1>16, <2>1 DEF b
<1> QED
  BY <1>3, <1>15, <1>17

------------------------------------------------------------------------------
\* ed.

Row == Rows(ED_LINE_LEN)

EdFields ==
  {"lines", "row", "col", "modified", "insert", "pd", "py", "yank", "yank_ok", "file",
   "cut", "asked", "running", "overrun"}

\* The cursor is in the text, and the text in the buffer.
EdPlace(s) ==
  /\ EdFields \subseteq DOMAIN s
  /\ s.lines \in Seq(Row) /\ Len(s.lines) \in 1..ED_MAX_LINES
  /\ s.row \in 0..Len(s.lines) - 1 /\ s.col \in 0..Len(Line(s))
  /\ s.yank \in Row

EdInv(s) == EdPlace(s) /\ (~s.modified /\ ~s.cut => ed_load(s.file) = s.lines)

EdSizes == ED_MAX_LINES \in Nat /\ ED_MAX_LINES >= 2 /\ ED_LINE_LEN \in Nat /\ ED_LINE_LEN >= 2

LEMMA EdSizesHold == EdSizes
BY EditorAssumption DEF EdSizes

LEMMA EmptyRow == <<>> \in Row /\ Len(<<>>) = 0
BY EdSizesHold, EmptySeq DEF Row, Rows, EdSizes

\* A change that leaves the text alone.
LEMMA SameText ==
  ASSUME NEW s, EdInv(s), NEW t, DOMAIN t = DOMAIN s, t.lines = s.lines, t.file = s.file,
         t.cut = s.cut, t.modified = s.modified, t.yank \in Row,
         t.row \in 0..Len(s.lines) - 1, t.col \in 0..Len(s.lines[t.row + 1])
  PROVE  EdInv(t)
<1>1. EdPlace(t)
  BY DEF EdInv, EdPlace, Line
<1> QED
  BY <1>1 DEF EdInv

LEMMA NewText ==
  ASSUME NEW t, EdPlace(t), t.modified
  PROVE  EdInv(t)
BY DEF EdInv

LEMMA PlaceFacts ==
  ASSUME NEW s, EdPlace(s)
  PROVE  /\ EdFields \subseteq DOMAIN s
         /\ s.lines \in Seq(Row) /\ Len(s.lines) \in Nat /\ Len(s.lines) >= 1
         /\ Len(s.lines) <= ED_MAX_LINES
         /\ s.row \in Nat /\ s.row + 1 \in 1..Len(s.lines) /\ s.row \in 0..Len(s.lines) - 1
         /\ Line(s) = s.lines[s.row + 1] /\ Line(s) \in Row
         /\ Line(s) \in Seq(Chars) /\ Len(Line(s)) \in Nat /\ Len(Line(s)) < ED_LINE_LEN
         /\ s.col \in 0..Len(Line(s)) /\ s.yank \in Row
<1>1. /\ EdFields \subseteq DOMAIN s
      /\ s.lines \in Seq(Row) /\ Len(s.lines) \in 1..ED_MAX_LINES
      /\ s.row \in 0..Len(s.lines) - 1 /\ s.col \in 0..Len(Line(s)) /\ s.yank \in Row
  BY DEF EdPlace
<1>2. Len(s.lines) \in Nat /\ Len(s.lines) >= 1 /\ Len(s.lines) <= ED_MAX_LINES
  BY <1>1, EdSizesHold DEF EdSizes
<1>3. s.row \in Nat /\ s.row + 1 \in 1..Len(s.lines)
  BY <1>1, <1>2
<1>4. Line(s) = s.lines[s.row + 1] /\ Line(s) \in Row
  BY <1>1, <1>3, ElementOfSeq DEF Line
<1>5. Line(s) \in Seq(Chars) /\ Len(Line(s)) < ED_LINE_LEN
  BY <1>4 DEF Row, Rows
<1>6. Len(Line(s)) \in Nat
  BY <1>5, LenProperties
<1> QED
  BY <1>1, <1>2, <1>3, <1>4, <1>5, <1>6

LEMMA ColumnSet ==
  ASSUME NEW s, EdInv(s), NEW col \in 0..Len(Line(s))
  PROVE  EdInv(AtCol(s, col))
<1> DEFINE t == AtCol(s, col)
<1>1. EdPlace(s)
  BY DEF EdInv
<1>2. EdFields \subseteq DOMAIN s /\ "col" \in DOMAIN s /\ Line(s) = s.lines[s.row + 1]
  BY <1>1, PlaceFacts DEF EdFields
<1>3. /\ DOMAIN t = DOMAIN s /\ t.lines = s.lines /\ t.file = s.file /\ t.cut = s.cut
      /\ t.modified = s.modified /\ t.yank = s.yank /\ t.row = s.row /\ t.col = col
  BY <1>2 DEF AtCol
<1>4. s.yank \in Row /\ s.row \in 0..Len(s.lines) - 1
  BY <1>1, PlaceFacts
<1> HIDE DEF t
<1>5. EdInv(t)
  BY <1>2, <1>3, <1>4, SameText
<1> QED
  BY <1>5 DEF t

LEMMA RowSet ==
  ASSUME NEW s, EdInv(s), NEW r \in 0..Len(s.lines) - 1
  PROVE  /\ EdInv(ed_clamp([s EXCEPT !.row = r]))
         /\ EdInv([s EXCEPT !.row = r, !.col = 0])
<1> DEFINE u == [s EXCEPT !.row = r]
           t == ed_clamp(u)
           z == [s EXCEPT !.row = r, !.col = 0]
           n == Len(s.lines[r + 1])
<1>1. EdPlace(s)
  BY DEF EdInv
<1>2. /\ EdFields \subseteq DOMAIN s /\ s.yank \in Row /\ s.lines \in Seq(Row)
      /\ Len(s.lines) \in Nat /\ s.col \in Nat
  <2>1. s.col \in 0..Len(Line(s)) /\ Len(Line(s)) \in Nat
    BY <1>1, PlaceFacts
  <2> QED
    BY <1>1, <2>1, PlaceFacts
<1>3. n \in Nat
  <2>1. r + 1 \in 1..Len(s.lines)
    BY <1>2
  <2>2. s.lines[r + 1] \in Row
    BY <1>2, <2>1, ElementOfSeq
  <2> QED
    BY <2>2, LenProperties DEF Row, Rows
<1>4. /\ DOMAIN u = DOMAIN s /\ u.lines = s.lines /\ u.file = s.file /\ u.cut = s.cut
      /\ u.modified = s.modified /\ u.yank = s.yank /\ u.row = r /\ u.col = s.col
  BY <1>2 DEF EdFields
<1>5. /\ DOMAIN z = DOMAIN s /\ z.lines = s.lines /\ z.file = s.file /\ z.cut = s.cut
      /\ z.modified = s.modified /\ z.yank = s.yank /\ z.row = r /\ z.col = 0
  BY <1>2 DEF EdFields
<1>6. Line(u) = s.lines[r + 1]
  BY <1>4 DEF Line
<1>7. t = IF s.col > n THEN [u EXCEPT !.col = n] ELSE u
  BY <1>4, <1>6 DEF ed_clamp, AtCol
<1> HIDE DEF u, z, n
<1>8. /\ DOMAIN t = DOMAIN s /\ t.lines = s.lines /\ t.file = s.file /\ t.cut = s.cut
      /\ t.modified = s.modified /\ t.yank = s.yank /\ t.row = r
      /\ t.col = IF s.col > n THEN n ELSE s.col
  <2> HIDE DEF t
  <2> QED
    BY <1>2, <1>4, <1>7 DEF EdFields
<1> HIDE DEF t
<1>9. t.col \in 0..n /\ 0 \in 0..n
  BY <1>2, <1>3, <1>8
<1>10. EdInv(t)
  BY <1>2, <1>8, <1>9, SameText DEF n
<1>11. EdInv(z)
  BY <1>2, <1>5, <1>9, SameText DEF n
<1> QED
  BY <1>10, <1>11 DEF t, u, z

LEMMA TravelKeeps ==
  ASSUME NEW s, EdInv(s), NEW key
  PROVE  EdInv(Travel(s, key))
<1>1. /\ Len(s.lines) \in Nat /\ s.row \in 0..Len(s.lines) - 1
      /\ Len(Line(s)) \in Nat /\ s.col \in 0..Len(Line(s))
  BY PlaceFacts DEF EdInv
<1>2. CASE key = "up" /\ s.row > 0
  <2>1. s.row - 1 \in 0..Len(s.lines) - 1
    BY <1>1, <1>2
  <2>2. Travel(s, key) = ed_clamp([s EXCEPT !.row = s.row - 1])
    BY <1>2 DEF Travel
  <2> QED
    BY <2>1, <2>2, RowSet
<1>3. CASE key = "down" /\ s.row < Len(s.lines) - 1
  <2>1. s.row + 1 \in 0..Len(s.lines) - 1
    BY <1>1, <1>3
  <2>2. Travel(s, key) = ed_clamp([s EXCEPT !.row = s.row + 1])
    BY <1>3 DEF Travel
  <2> QED
    BY <2>1, <2>2, RowSet
<1>4. CASE key = "left" /\ s.col > 0
  <2>1. s.col - 1 \in 0..Len(Line(s))
    BY <1>1, <1>4
  <2>2. Travel(s, key) = AtCol(s, s.col - 1)
    BY <1>4 DEF Travel
  <2> QED
    BY <2>1, <2>2, ColumnSet
<1>5. CASE key = "right" /\ s.col < Len(Line(s))
  <2>1. s.col + 1 \in 0..Len(Line(s))
    BY <1>1, <1>5
  <2>2. Travel(s, key) = AtCol(s, s.col + 1)
    BY <1>5 DEF Travel
  <2> QED
    BY <2>1, <2>2, ColumnSet
<1>6. CASE key = "home" \/ key = "end"
  <2>1. 0 \in 0..Len(Line(s)) /\ Len(Line(s)) \in 0..Len(Line(s))
    BY <1>1
  <2>2. Travel(s, key) = AtCol(s, 0) \/ Travel(s, key) = AtCol(s, Len(Line(s)))
    BY <1>6 DEF Travel
  <2>3. EdInv(AtCol(s, 0)) /\ EdInv(AtCol(s, Len(Line(s))))
    BY <2>1, ColumnSet
  <2> QED
    BY <2>2, <2>3
<1>7. CASE /\ ~(key = "up" /\ s.row > 0) /\ ~(key = "down" /\ s.row < Len(s.lines) - 1)
           /\ ~(key = "left" /\ s.col > 0) /\ ~(key = "right" /\ s.col < Len(Line(s)))
           /\ key # "home" /\ key # "end"
  <2>1. Travel(s, key) = s
    BY <1>7 DEF Travel
  <2> QED
    BY <2>1
<1> QED
  BY <1>2, <1>3, <1>4, <1>5, <1>6, <1>7

\* What a changed line leaves.
LEMMA LineSet ==
  ASSUME NEW s, EdPlace(s), NEW line \in Row, NEW col \in 0..Len(line)
  PROVE  LET t == WithLine(s, line)
         IN  /\ EdInv([t EXCEPT !.col = col]) /\ DOMAIN t = DOMAIN s /\ t.col = s.col
             /\ t.lines \in Seq(Row) /\ Len(t.lines) = Len(s.lines) /\ t.row = s.row
             /\ t.yank = s.yank /\ t.modified /\ Line(t) = line
             /\ s.col \in 0..Len(line) => EdInv(t)
<1> DEFINE k == s.row + 1
           lines == [s.lines EXCEPT ![k] = line]
           t == WithLine(s, line)
           u == [t EXCEPT !.col = col]
<1>1. /\ EdFields \subseteq DOMAIN s /\ s.lines \in Seq(Row) /\ k \in 1..Len(s.lines)
      /\ s.row \in 0..Len(s.lines) - 1 /\ s.yank \in Row
      /\ Len(s.lines) \in 1..ED_MAX_LINES
  BY PlaceFacts DEF EdPlace
<1>2. t = [s EXCEPT !.lines = lines, !.modified = TRUE]
  BY <1>1 DEF WithLine, EdFields
<1> HIDE DEF k
<1>3. lines \in Seq(Row) /\ Len(lines) = Len(s.lines) /\ lines[k] = line
  BY <1>1, ExceptSeq
<1> HIDE DEF lines, t
<1>4. /\ DOMAIN t = DOMAIN s /\ t.lines = lines /\ t.row = s.row /\ t.yank = s.yank
      /\ t.modified = TRUE /\ t.col = s.col
  BY <1>1, <1>2 DEF EdFields
<1>5. /\ DOMAIN u = DOMAIN s /\ u.lines = lines /\ u.row = s.row /\ u.yank = s.yank
      /\ u.modified = TRUE /\ u.col = col
  BY <1>1, <1>4 DEF EdFields
<1> HIDE DEF u
<1>6. Line(u) = line /\ Line(t) = line
  BY <1>3, <1>4, <1>5 DEF Line, k
<1>7. EdPlace(u)
  BY <1>1, <1>3, <1>5, <1>6 DEF EdPlace
<1>8. EdInv(u)
  BY <1>5, <1>7, NewText
<1>9. ASSUME s.col \in 0..Len(line) PROVE EdInv(t)
  <2>1. EdPlace(t)
    BY <1>1, <1>3, <1>4, <1>6, <1>9 DEF EdPlace
  <2> QED
    BY <1>4, <2>1, NewText
<1> QED
  BY <1>3, <1>4, <1>6, <1>8, <1>9 DEF t, u

LEMMA InsKeeps ==
  ASSUME NEW s, EdInv(s), NEW c \in Chars
  PROVE  EdInv(ed_ins(s, c))
<1>1. EdPlace(s)
  BY DEF EdInv
<1>2. CASE Len(Line(s)) >= ED_LINE_LEN - 1
  BY <1>2 DEF ed_ins
<1>3. CASE ~(Len(Line(s)) >= ED_LINE_LEN - 1)
  <2> DEFINE line == InsertAt(Line(s), s.col + 1, c)
             col == s.col + 1
  <2>1. /\ Line(s) \in Seq(Chars) /\ Len(Line(s)) \in Nat /\ s.col \in 0..Len(Line(s))
        /\ EdFields \subseteq DOMAIN s
    BY <1>1, PlaceFacts
  <2>2. line \in Seq(Chars) /\ Len(line) = Len(Line(s)) + 1
    <3> DEFINE m == s.col
    <3>1. m \in 0..Len(Line(s))
      BY <2>1
    <3> HIDE DEF m
    <3>2. InsertAt(Line(s), m + 1, c) \in Seq(Chars) /\ Len(InsertAt(Line(s), m + 1, c)) = Len(Line(s)) + 1
      BY <2>1, <3>1, InsertProperties
    <3> QED
      BY <3>2 DEF m
  <2>3. ed_ins(s, c) = AtCol(WithLine(s, line), col)
    BY <1>3 DEF ed_ins
  <2> HIDE DEF line
  <2>4. line \in Row
    BY <1>3, <2>1, <2>2, EdSizesHold DEF Row, Rows, EdSizes
  <2>5. col \in 0..Len(line)
    BY <2>1, <2>2
  <2> HIDE DEF col
  <2>6. EdInv([WithLine(s, line) EXCEPT !.col = col])
    BY <1>1, <2>4, <2>5, LineSet
  <2> QED
    BY <2>3, <2>6 DEF AtCol
<1> QED
  BY <1>2, <1>3

LEMMA DelchKeeps ==
  ASSUME NEW s, EdInv(s)
  PROVE  EdInv(ed_delch(s))
<1>1. EdPlace(s)
  BY DEF EdInv
<1>2. CASE s.col >= Len(Line(s))
  BY <1>2 DEF ed_delch
<1>3. CASE ~(s.col >= Len(Line(s)))
  <2> DEFINE m == s.col + 1
             line == RemoveAt(Line(s), m)
  <2>1. /\ Line(s) \in Seq(Chars) /\ Len(Line(s)) \in Nat /\ s.col \in 0..Len(Line(s))
        /\ Len(Line(s)) < ED_LINE_LEN
    BY <1>1, PlaceFacts
  <2>2. m \in 1..Len(Line(s))
    BY <1>3, <2>1
  <2>3. ed_delch(s) = WithLine(s, line)
    BY <1>3 DEF ed_delch
  <2> HIDE DEF m
  <2>4. line \in Seq(Chars) /\ Len(line) = Len(Line(s)) - 1
    BY <2>1, <2>2, RemoveProperties
  <2> HIDE DEF line
  <2>5. line \in Row /\ s.col \in 0..Len(line)
    BY <1>3, <2>1, <2>4, EdSizesHold DEF Row, Rows, EdSizes
  <2>6. 0 \in 0..Len(line)
    BY <2>5
  <2>7. EdInv(WithLine(s, line))
    BY <1>1, <2>5, <2>6, LineSet
  <2> QED
    BY <2>3, <2>7
<1> QED
  BY <1>2, <1>3

LEMMA DellineKeeps ==
  ASSUME NEW s, EdInv(s)
  PROVE  EdInv(ed_delline(s))
<1> DEFINE m == s.row + 1
           rest == RemoveAt(s.lines, m)
           none == <<<<>>>>
           lines == IF rest = <<>> THEN none ELSE rest
           row == IF s.row >= Len(rest) /\ rest # <<>> THEN Len(rest) - 1 ELSE s.row
           t == ed_delline(s)
<1>1. /\ EdFields \subseteq DOMAIN s
      /\ s.lines \in Seq(Row) /\ Len(s.lines) \in Nat /\ Len(s.lines) >= 1
      /\ Len(s.lines) <= ED_MAX_LINES
      /\ s.row \in Nat /\ m \in 1..Len(s.lines) /\ s.row \in 0..Len(s.lines) - 1
      /\ Line(s) \in Row
  BY PlaceFacts DEF EdInv
<1>2. t = [s EXCEPT !.lines = lines, !.row = row, !.col = 0, !.modified = TRUE,
                    !.yank = Line(s), !.yank_ok = TRUE]
  BY <1>1 DEF ed_delline, EdFields
<1>3. m = s.row + 1
  OBVIOUS
<1> HIDE DEF m, t
<1>4. rest \in Seq(Row) /\ Len(rest) = Len(s.lines) - 1
  BY <1>1, RemoveProperties
<1>5. none \in Seq(Row) /\ Len(none) = 1
  BY EmptyRow
<1> HIDE DEF rest, none
<1>6. rest = <<>> <=> Len(rest) = 0
  BY <1>4, EmptySeq
<1>7. /\ lines \in Seq(Row) /\ Len(lines) \in 1..ED_MAX_LINES
      /\ row \in 0..Len(lines) - 1
  <2>1. CASE rest = <<>>
    <3>1. lines = none /\ row = s.row
      BY <2>1
    <3>2. Len(rest) = 0
      BY <1>6, <2>1
    <3>3. s.row = 0
      <4> DEFINE n == Len(s.lines) - 1
      <4>1. n = 0
        BY <1>4, <3>2
      <4>2. s.row \in 0..n
        BY <1>1
      <4> HIDE DEF n
      <4> QED
        BY <4>1, <4>2
    <3> HIDE DEF lines, row
    <3>4. Len(lines) = 1 /\ row = 0 /\ lines \in Seq(Row)
      BY <1>5, <3>1, <3>3
    <3>5. 1 \in 1..ED_MAX_LINES /\ 0 \in 0..1 - 1
      BY EdSizesHold DEF EdSizes
    <3> QED
      BY <3>4, <3>5
  <2>2. CASE rest # <<>>
    <3>1. lines = rest /\ row = IF s.row >= Len(rest) THEN Len(rest) - 1 ELSE s.row
      BY <2>2
    <3>2. Len(rest) \in Nat /\ Len(rest) >= 1
      BY <1>1, <1>4, <1>6, <2>2
    <3> HIDE DEF lines, row
    <3> QED
      BY <1>1, <1>4, <3>1, <3>2, EdSizesHold DEF EdSizes
  <2> QED
    BY <2>1, <2>2
<1> HIDE DEF lines, row
<1>8. /\ DOMAIN t = DOMAIN s /\ t.lines = lines /\ t.row = row /\ t.col = 0
      /\ t.modified = TRUE /\ t.yank = Line(s)
  BY <1>1, <1>2 DEF EdFields
<1>9. 0 \in 0..Len(Line(t))
  <2>1. row + 1 \in 1..Len(lines)
    BY <1>7, EdSizesHold DEF EdSizes
  <2>2. lines[row + 1] \in Row
    BY <1>7, <2>1, ElementOfSeq
  <2>3. Len(lines[row + 1]) \in Nat
    BY <2>2, LenProperties DEF Row, Rows
  <2> QED
    BY <1>8, <2>3 DEF Line
<1>10. EdPlace(t)
  BY <1>1, <1>7, <1>8, <1>9 DEF EdPlace
<1>11. EdInv(t)
  BY <1>8, <1>10, NewText
<1> QED
  BY <1>11 DEF t

\* A state whose column is about to be set.
EdLoose(s) ==
  /\ EdFields \subseteq DOMAIN s
  /\ s.lines \in Seq(Row) /\ Len(s.lines) \in 1..ED_MAX_LINES
  /\ s.row \in 0..Len(s.lines) - 1 /\ s.yank \in Row

LEMMA LineAdded ==
  ASSUME NEW s, EdLoose(s), ~NoRoom(s), NEW line \in Row, NEW row \in 0..Len(s.lines)
  PROVE  EdInv(AddLine(s, row, line))
<1> DEFINE m == row + 1
           lines == InsertAt(s.lines, m, line)
           t == AddLine(s, row, line)
<1>1. /\ EdFields \subseteq DOMAIN s /\ s.lines \in Seq(Row) /\ Len(s.lines) \in Nat
      /\ Len(s.lines) < ED_MAX_LINES - 1
      /\ s.yank \in Row
  BY EdSizesHold DEF EdLoose, EdSizes, NoRoom
<1>2. t = [s EXCEPT !.lines = lines, !.row = row, !.col = 0, !.modified = TRUE]
  BY <1>1 DEF AddLine, EdFields
<1>3. lines \in Seq(Row) /\ Len(lines) = Len(s.lines) + 1
  BY <1>1, InsertProperties
<1> HIDE DEF lines, t
<1>4. /\ DOMAIN t = DOMAIN s /\ t.lines = lines /\ t.row = row /\ t.col = 0
      /\ t.modified = TRUE /\ t.yank = s.yank
  BY <1>1, <1>2 DEF EdFields
<1>5. m \in 1..Len(lines) /\ row \in 0..Len(lines) - 1 /\ Len(lines) \in 1..ED_MAX_LINES
  BY <1>1, <1>3, EdSizesHold DEF EdSizes
<1>6. 0 \in 0..Len(Line(t))
  <2>1. lines[m] \in Row
    BY <1>3, <1>5, ElementOfSeq
  <2>2. Len(lines[m]) \in Nat
    BY <2>1, LenProperties DEF Row, Rows
  <2> QED
    BY <1>4, <2>2 DEF Line
<1>7. EdPlace(t)
  BY <1>1, <1>3, <1>4, <1>5, <1>6 DEF EdPlace
<1>8. EdInv(t)
  BY <1>4, <1>7, NewText
<1> QED
  BY <1>8 DEF t

LEMMA AddKeeps ==
  ASSUME NEW s, EdInv(s), NEW line \in Row, NEW row \in 0..Len(s.lines)
  PROVE  EdInv(AddLine(s, row, line))
<1>1. CASE NoRoom(s)
  BY <1>1 DEF AddLine
<1>2. CASE ~NoRoom(s)
  <2>1. EdLoose(s)
    BY DEF EdInv, EdPlace, EdLoose
  <2> QED
    BY <1>2, <2>1, LineAdded
<1> QED
  BY <1>1, <1>2

LEMMA SplitKeeps ==
  ASSUME NEW s, EdInv(s)
  PROVE  EdInv(ed_split(s))
<1>1. EdPlace(s)
  BY DEF EdInv
<1>2. CASE NoRoom(s)
  BY <1>2 DEF ed_split
<1>3. CASE ~NoRoom(s)
  <2> DEFINE old == Line(s)
             col == s.col
             head == Shorter(old, col)
             tail == SubSeq(old, col + 1, Len(old))
             t == WithLine(s, head)
             row == s.row + 1
  <2>1. /\ old \in Seq(Chars) /\ Len(old) \in Nat /\ col \in 0..Len(old) /\ Len(old) < ED_LINE_LEN
        /\ Len(s.lines) \in Nat /\ s.row \in 0..Len(s.lines) - 1 /\ s.row \in Nat
        /\ EdFields \subseteq DOMAIN s
    BY <1>1, PlaceFacts
  <2>2. ed_split(s) = AddLine(t, row, tail)
    BY <1>3 DEF ed_split
  <2> HIDE DEF old, col
  <2>3. head \in Seq(Chars) /\ Len(head) <= Len(old) /\ Len(head) \in Nat
    BY <2>1, ShorterProperties
  <2>4. tail \in Seq(Chars) /\ Len(tail) = Len(old) - col
    BY <2>1, TailPart
  <2> HIDE DEF head, tail
  <2>5. head \in Row /\ tail \in Row /\ 0 \in 0..Len(head)
    BY <2>1, <2>3, <2>4, EdSizesHold DEF Row, Rows, EdSizes
  <2>6. /\ DOMAIN t = DOMAIN s /\ t.lines \in Seq(Row) /\ Len(t.lines) = Len(s.lines)
        /\ t.row = s.row /\ t.yank = s.yank
    BY <1>1, <2>5, LineSet
  <2> HIDE DEF t
  <2>7. EdLoose(t)
    <3>1. Len(s.lines) \in 1..ED_MAX_LINES /\ s.row \in 0..Len(s.lines) - 1 /\ s.yank \in Row
      BY <1>1 DEF EdPlace
    <3> QED
      BY <2>1, <2>6, <3>1 DEF EdLoose
  <2>8. ~NoRoom(t)
    BY <1>3, <2>6 DEF NoRoom
  <2>9. row \in 0..Len(t.lines)
    BY <2>1, <2>6
  <2> HIDE DEF row
  <2>10. EdInv(AddLine(t, row, tail))
    BY <2>5, <2>7, <2>8, <2>9, LineAdded
  <2> QED
    BY <2>2, <2>10
<1> QED
  BY <1>2, <1>3

LEMMA JoinKeeps ==
  ASSUME NEW s, EdInv(s), s.row > 0
  PROVE  EdInv(Joined(s))
<1> DEFINE r == s.row
           k == r + 1
           above == s.lines[r]
           line == above \o Line(s)
           joined == [s.lines EXCEPT ![r] = line]
           lines == RemoveAt(joined, k)
           t == Joined(s)
           o == [s EXCEPT !.overrun = TRUE]
           u == [s EXCEPT !.lines = lines, !.row = r - 1, !.col = Len(above), !.modified = TRUE]
<1>1. /\ EdFields \subseteq DOMAIN s /\ s.lines \in Seq(Row) /\ Len(s.lines) \in Nat
      /\ r \in Nat /\ r \in 1..Len(s.lines) /\ k \in 1..Len(s.lines)
      /\ Line(s) \in Seq(Chars) /\ Len(Line(s)) \in Nat
      /\ s.yank \in Row /\ s.col \in 0..Len(Line(s)) /\ Line(s) = s.lines[s.row + 1]
      /\ Len(s.lines) <= ED_MAX_LINES /\ s.row \in 0..Len(s.lines) - 1
  <2>1. EdPlace(s)
    BY DEF EdInv
  <2>2. s.row \in Nat /\ s.row + 1 \in 1..Len(s.lines) /\ Len(s.lines) \in Nat
    BY <2>1, PlaceFacts
  <2>3. r \in 1..Len(s.lines)
    BY <2>2
  <2> QED
    BY <2>1, <2>2, <2>3, PlaceFacts
<1>2. t = IF Len(line) >= ED_LINE_LEN THEN o ELSE u
  BY <1>1 DEF Joined, EdFields
<1>3. CASE Len(line) >= ED_LINE_LEN
  <2>1. /\ DOMAIN o = DOMAIN s /\ o.lines = s.lines /\ o.file = s.file /\ o.cut = s.cut
        /\ o.modified = s.modified /\ o.yank = s.yank /\ o.row = s.row /\ o.col = s.col
    BY <1>1 DEF EdFields
  <2> HIDE DEF o
  <2>2. EdInv(o)
    BY <1>1, <2>1, SameText
  <2> QED
    BY <1>2, <1>3, <2>2
<1>4. CASE ~(Len(line) >= ED_LINE_LEN)
  <2>1. above \in Row /\ above \in Seq(Chars) /\ Len(above) \in Nat
    <3>1. above \in Row
      BY <1>1, ElementOfSeq
    <3>2. above \in Seq(Chars)
      BY <3>1 DEF Row, Rows
    <3> QED
      BY <3>1, <3>2, LenProperties
  <2>2. t = u
    BY <1>2, <1>4
  <2> HIDE DEF above, t
  <2>3. line \in Seq(Chars) /\ Len(line) = Len(above) + Len(Line(s))
    BY <1>1, <2>1, ConcatProperties
  <2>4. Len(line) < ED_LINE_LEN /\ Len(line) \in Nat
    <3>1. Len(line) \in Nat
      BY <1>1, <2>1, <2>3
    <3> HIDE DEF line
    <3> QED
      BY <1>4, <3>1, EdSizesHold DEF EdSizes
  <2>5. line \in Row
    BY <2>3, <2>4 DEF Row, Rows
  <2>6. Len(above) \in 0..Len(line)
    BY <1>1, <2>1, <2>3
  <2> HIDE DEF line
  <2>7. joined \in Seq(Row) /\ Len(joined) = Len(s.lines) /\ joined[r] = line
    BY <1>1, <2>5, ExceptSeq
  <2>8. k = r + 1
    OBVIOUS
  <2> HIDE DEF joined, k, u, r
  <2>9. /\ lines \in Seq(Row) /\ Len(lines) = Len(joined) - 1
        /\ \A i \in 1..k - 1 : lines[i] = joined[i]
    <3>1. k \in 1..Len(joined)
      BY <1>1, <2>7
    <3> QED
      BY <2>7, <3>1, RemoveProperties
  <2> HIDE DEF lines
  <2>10. lines[r] = line
    <3>1. r \in 1..k - 1
      BY <1>1, <2>8
    <3> QED
      BY <2>7, <2>9, <3>1
  <2>11. /\ DOMAIN u = DOMAIN s /\ u.lines = lines /\ u.row = r - 1 /\ u.col = Len(above)
         /\ u.modified = TRUE /\ u.yank = s.yank
    BY <1>1 DEF EdFields, u
  <2>12. Len(lines) = Len(s.lines) - 1
    BY <2>7, <2>9
  <2>13. Len(lines) \in 1..ED_MAX_LINES /\ r - 1 \in 0..Len(lines) - 1 /\ r - 1 + 1 = r
    <3>1. r <= Len(s.lines) - 1
      BY <1>1, <2>8
    <3> QED
      BY <1>1, <2>12, <3>1, EdSizesHold DEF EdSizes
  <2>14. Line(u) = line
    <3> DEFINE i == u.row + 1
    <3>1. i = r
      BY <2>11, <2>13
    <3>2. Line(u) = lines[i]
      BY <2>11 DEF Line
    <3> HIDE DEF i
    <3> QED
      BY <2>10, <3>1, <3>2
  <2>15. EdPlace(u)
    BY <1>1, <2>6, <2>9, <2>11, <2>13, <2>14 DEF EdPlace
  <2>16. EdInv(u)
    BY <2>11, <2>15, NewText
  <2> QED
    BY <2>2, <2>16 DEF t
<1> QED
  BY <1>3, <1>4

LEMMA SaveKeeps ==
  ASSUME NEW s, EdInv(s), NEW room \in Nat \cup {-1}
  PROVE  EdInv(ed_save(s, room))
<1> DEFINE bytes == Bytes(s.lines)
           file == Shorter(bytes, room)
           cut == room < Len(bytes)
           t == ed_save(s, room)
<1>1. CASE room < 0
  BY <1>1 DEF ed_save
<1>2. CASE ~(room < 0)
  <2>1. room \in Nat
    BY <1>2
  <2>2. EdPlace(s) /\ EdFields \subseteq DOMAIN s /\ s.lines \in Seq(Row) /\ Len(s.lines) >= 1
    BY PlaceFacts DEF EdInv
  <2>3. t = [s EXCEPT !.file = file, !.cut = cut, !.modified = FALSE]
    BY <1>2 DEF ed_save
  <2>4. bytes \in Seq(Byte) /\ ReadLines(bytes, ED_LINE_LEN) = s.lines
    BY <2>2, EdSizesHold, LinesReturn DEF Row, EdSizes
  <2>5. s.lines # <<>>
    BY <2>2, EmptyRow
  <2>6. ed_load(bytes) = s.lines
    BY <2>4, <2>5 DEF ed_load
  <2>7. ~cut => file = bytes
    <3> HIDE DEF bytes
    <3>1. Len(bytes) \in Nat
      BY <2>4
    <3>2. Len(bytes) <= room => file = bytes
      BY <2>1, <2>4, ShorterProperties
    <3> QED
      BY <2>1, <3>1, <3>2
  <2> HIDE DEF bytes, file, cut, t
  <2>8. /\ DOMAIN t = DOMAIN s /\ t.lines = s.lines /\ t.file = file /\ t.cut = cut
        /\ t.yank = s.yank /\ t.row = s.row /\ t.col = s.col
    BY <2>2, <2>3 DEF EdFields
  <2>9. EdPlace(t)
    BY <2>2, <2>8 DEF EdPlace, Line
  <2>10. ~t.cut => ed_load(t.file) = t.lines
    BY <2>6, <2>7, <2>8
  <2>11. EdInv(t)
    BY <2>9, <2>10 DEF EdInv
  <2> QED
    BY <2>11 DEF t
<1> QED
  BY <1>1, <1>2

\* A change of flags only.
LEMMA FlagsSet ==
  ASSUME NEW s, EdInv(s), NEW t, DOMAIN t = DOMAIN s, t.lines = s.lines, t.file = s.file,
         t.cut = s.cut, t.modified = s.modified, t.yank = s.yank, t.row = s.row, t.col = s.col
  PROVE  EdInv(t)
<1>1. /\ s.yank \in Row /\ s.row \in 0..Len(s.lines) - 1
      /\ s.col \in 0..Len(s.lines[s.row + 1])
  BY DEF EdInv, EdPlace, Line
<1> QED
  BY <1>1, SameText

LEMMA QuitKeeps ==
  ASSUME NEW s, EdInv(s)
  PROVE  EdInv(Quit(s))
<1> DEFINE t == Quit(s)
<1>1. EdFields \subseteq DOMAIN s
  BY DEF EdInv, EdPlace
<1>2. /\ DOMAIN t = DOMAIN s /\ t.lines = s.lines /\ t.file = s.file
      /\ t.cut = s.cut /\ t.modified = s.modified /\ t.yank = s.yank
      /\ t.row = s.row /\ t.col = s.col
  BY <1>1 DEF Quit, EdFields
<1> HIDE DEF t
<1>3. EdInv(t)
  BY <1>2, FlagsSet
<1> QED
  BY <1>3 DEF t

LEMMA ColonKeeps ==
  ASSUME NEW s, EdInv(s), NEW arg, NEW room \in Nat \cup {-1}
  PROVE  EdInv(ed_colon(s, arg, room))
<1> DEFINE first == 0
           last == Len(s.lines) - 1
<1>1. first \in 0..Len(s.lines) - 1 /\ last \in 0..Len(s.lines) - 1
  BY PlaceFacts DEF EdInv
<1>2. ed_colon(s, arg, room)
        \in {ed_save(s, room), Quit(s), Quit(ed_save(s, room)),
             [s EXCEPT !.row = first, !.col = 0], [s EXCEPT !.row = last, !.col = 0], s}
  BY DEF ed_colon
<1> HIDE DEF first, last
<1>3. EdInv(ed_save(s, room)) /\ EdInv(Quit(s)) /\ EdInv(Quit(ed_save(s, room)))
  BY SaveKeeps, QuitKeeps
<1>4. EdInv([s EXCEPT !.row = first, !.col = 0]) /\ EdInv([s EXCEPT !.row = last, !.col = 0])
  BY <1>1, RowSet
<1> QED
  BY <1>2, <1>3, <1>4

LEMMA InsertingKeeps ==
  ASSUME NEW s, EdInv(s), NEW key
  PROVE  EdInv(Inserting(s, key))
<1> DEFINE c == IF s.col > 0 THEN s.col - 1 ELSE 0
           back == s.col - 1
           t == [s EXCEPT !.insert = FALSE, !.col = c]
<1>1. /\ EdFields \subseteq DOMAIN s /\ Len(Line(s)) \in Nat /\ s.col \in 0..Len(Line(s))
      /\ Line(s) = s.lines[s.row + 1] /\ s.row \in 0..Len(s.lines) - 1 /\ s.yank \in Row
      /\ s.row \in Nat
  BY PlaceFacts DEF EdInv
<1>2. t = [s EXCEPT !.insert = FALSE, !.col = IF @ > 0 THEN @ - 1 ELSE 0]
  BY <1>1 DEF EdFields
<1> HIDE DEF t
<1>3. \/ Inserting(s, key) = t
      \/ s.col > 0 /\ Inserting(s, key) = ed_delch(AtCol(s, back))
      \/ s.row > 0 /\ Inserting(s, key) = Joined(s)
      \/ Inserting(s, key) = ed_split(s)
      \/ key \in Chars /\ Inserting(s, key) = ed_ins(s, key)
      \/ Inserting(s, key) = Travel(s, key)
  BY <1>2 DEF Inserting
<1>4. EdInv(t)
  <2>1. c \in 0..Len(Line(s))
    BY <1>1
  <2> HIDE DEF c
  <2>2. /\ DOMAIN t = DOMAIN s /\ t.lines = s.lines /\ t.file = s.file
        /\ t.cut = s.cut /\ t.modified = s.modified /\ t.yank = s.yank
        /\ t.row = s.row /\ t.col = c
    BY <1>1 DEF EdFields, t
  <2> QED
    BY <1>1, <2>1, <2>2, SameText
<1>5. ASSUME s.col > 0 PROVE EdInv(ed_delch(AtCol(s, back)))
  <2>1. back \in 0..Len(Line(s))
    BY <1>1, <1>5
  <2> HIDE DEF back
  <2> QED
    BY <2>1, ColumnSet, DelchKeeps
<1>6. ASSUME s.row > 0 PROVE EdInv(Joined(s))
  BY <1>6, JoinKeeps
<1>7. ASSUME key \in Chars PROVE EdInv(ed_ins(s, key))
  BY <1>7, InsKeeps
<1> QED
  BY <1>3, <1>4, <1>5, <1>6, <1>7, SplitKeeps, TravelKeeps

LEMMA DoubledKeeps ==
  ASSUME NEW s, EdInv(s), NEW key \in {"d", "y"}
  PROVE  EdInv(Doubled(s, key))
<1> DEFINE l == ed_delline(s)
           a == [l EXCEPT !.pd = FALSE, !.py = FALSE]
           b == [s EXCEPT !.pd = TRUE, !.py = FALSE]
           c == [s EXCEPT !.yank = Line(s), !.yank_ok = TRUE, !.py = FALSE]
           d == [s EXCEPT !.py = TRUE, !.pd = FALSE]
<1>1. Doubled(s, key) = a \/ Doubled(s, key) = b \/ Doubled(s, key) = c \/ Doubled(s, key) = d
  <2> HIDE DEF l
  <2>1. CASE key = "d"
    BY <2>1 DEF Doubled, l
  <2>2. CASE key = "y"
    BY <2>2 DEF Doubled, l
  <2> QED
    BY <2>1, <2>2
<1>2. /\ EdFields \subseteq DOMAIN s /\ s.yank \in Row /\ s.row \in 0..Len(s.lines) - 1
      /\ Line(s) \in Row /\ s.col \in 0..Len(Line(s)) /\ Line(s) = s.lines[s.row + 1]
  BY PlaceFacts DEF EdInv
<1>3. EdInv(l)
  BY DellineKeeps
<1> HIDE DEF l
<1>4. EdFields \subseteq DOMAIN l
  BY <1>3 DEF EdInv, EdPlace
<1>5. /\ DOMAIN a = DOMAIN l /\ a.lines = l.lines /\ a.file = l.file
      /\ a.cut = l.cut /\ a.modified = l.modified /\ a.yank = l.yank
      /\ a.row = l.row /\ a.col = l.col
  BY <1>4 DEF EdFields
<1>6. /\ DOMAIN b = DOMAIN s /\ b.lines = s.lines /\ b.file = s.file
      /\ b.cut = s.cut /\ b.modified = s.modified /\ b.yank = s.yank
      /\ b.row = s.row /\ b.col = s.col
  BY <1>2 DEF EdFields
<1>7. /\ DOMAIN c = DOMAIN s /\ c.lines = s.lines /\ c.file = s.file
      /\ c.cut = s.cut /\ c.modified = s.modified /\ c.yank = Line(s)
      /\ c.row = s.row /\ c.col = s.col
  BY <1>2 DEF EdFields
<1>8. /\ DOMAIN d = DOMAIN s /\ d.lines = s.lines /\ d.file = s.file
      /\ d.cut = s.cut /\ d.modified = s.modified /\ d.yank = s.yank
      /\ d.row = s.row /\ d.col = s.col
  BY <1>2 DEF EdFields
<1> HIDE DEF a, b, c, d
<1>9. EdInv(a)
  BY <1>3, <1>5, FlagsSet
<1>10. EdInv(b) /\ EdInv(d)
  BY <1>6, <1>8, FlagsSet
<1>11. EdInv(c)
  BY <1>2, <1>7, SameText
<1> QED
  BY <1>1, <1>9, <1>10, <1>11

LEMMA ModeSet ==
  ASSUME NEW s, EdInv(s)
  PROVE  EdInv(Ins(s)) /\ EdInv([s EXCEPT !.modified = TRUE])
<1> DEFINE t == Ins(s)
           u == [s EXCEPT !.modified = TRUE]
<1>1. EdFields \subseteq DOMAIN s /\ EdPlace(s)
  BY DEF EdInv, EdPlace
<1>2. /\ DOMAIN t = DOMAIN s /\ t.lines = s.lines /\ t.file = s.file
      /\ t.cut = s.cut /\ t.modified = s.modified /\ t.yank = s.yank
      /\ t.row = s.row /\ t.col = s.col
  BY <1>1 DEF Ins, EdFields
<1>3. /\ DOMAIN u = DOMAIN s /\ u.lines = s.lines /\ u.yank = s.yank
      /\ u.row = s.row /\ u.col = s.col /\ u.modified = TRUE
  BY <1>1 DEF EdFields
<1> HIDE DEF t, u
<1>4. EdInv(t)
  BY <1>2, FlagsSet
<1>5. EdPlace(u)
  BY <1>1, <1>3 DEF EdPlace, Line
<1>6. EdInv(u)
  BY <1>3, <1>5, NewText
<1> QED
  BY <1>4, <1>6 DEF t, u

LEMMA NormalKeeps ==
  ASSUME NEW s, EdInv(s), NEW key, NEW c \in Chars
  PROVE  EdInv(Normal(s, key, c))
<1> DEFINE zero == 0
           below == s.row + 1
           last == Len(s.lines) - 1
           none == <<>>
           del == ed_delch(s)
           x == [del EXCEPT !.modified = TRUE]
           head == Shorter(Line(s), s.col)
           end == IF Line(s) = <<>> THEN 0 ELSE Len(Line(s)) - 1
           m == s.col + 1
           other == [Line(s) EXCEPT ![m] = c]
           G == [s EXCEPT !.row = last, !.col = 0]
           g == [s EXCEPT !.row = zero, !.col = 0]
<1>1. /\ EdPlace(s) /\ EdFields \subseteq DOMAIN s /\ Line(s) \in Seq(Chars)
      /\ Len(Line(s)) \in Nat /\ Len(Line(s)) < ED_LINE_LEN /\ s.col \in 0..Len(Line(s))
      /\ Len(s.lines) \in Nat /\ s.row \in 0..Len(s.lines) - 1 /\ s.yank \in Row
      /\ s.row \in Nat
  BY PlaceFacts DEF EdInv
<1>2. \/ Normal(s, key, c) = Ins(s)
      \/ Normal(s, key, c) = Ins(AtCol(s, zero))
      \/ Normal(s, key, c) = Ins(Travel(s, "right"))
      \/ Normal(s, key, c) = Ins(Travel(s, "end"))
      \/ Normal(s, key, c) = Ins(AddLine(s, below, none))
      \/ Normal(s, key, c) = Ins(AddLine(s, s.row, none))
      \/ Normal(s, key, c) = x
      \/ Normal(s, key, c) = WithLine(s, head)
      \/ Normal(s, key, c) = AddLine(s, below, s.yank)
      \/ Normal(s, key, c) = G
      \/ Normal(s, key, c) = g
      \/ Normal(s, key, c) = AtCol(s, end)
      \/ s.col < Len(Line(s)) /\ Normal(s, key, c) = WithLine(s, other)
      \/ Normal(s, key, c) = s
  BY DEF Normal
<1>3. /\ zero \in 0..Len(Line(s)) /\ zero \in 0..Len(s.lines) - 1
      /\ below \in 0..Len(s.lines) /\ s.row \in 0..Len(s.lines)
      /\ last \in 0..Len(s.lines) - 1 /\ none \in Row
  BY <1>1, EmptyRow
<1>4. end \in 0..Len(Line(s))
  <2>1. Line(s) # <<>> => Len(Line(s)) # 0
    BY <1>1, EmptySeq
  <2> QED
    BY <1>1, <2>1
<1> HIDE DEF zero, below, last, none, end
<1>5. /\ EdInv(Ins(s)) /\ EdInv(Ins(AtCol(s, zero))) /\ EdInv(Ins(Travel(s, "right")))
      /\ EdInv(Ins(Travel(s, "end"))) /\ EdInv(AtCol(s, end))
  BY <1>3, <1>4, ModeSet, ColumnSet, TravelKeeps
<1>6. /\ EdInv(Ins(AddLine(s, below, none))) /\ EdInv(Ins(AddLine(s, s.row, none)))
      /\ EdInv(AddLine(s, below, s.yank))
  BY <1>1, <1>3, AddKeeps, ModeSet
<1>7. EdInv(x)
  <2>1. EdInv(del)
    BY DelchKeeps
  <2> HIDE DEF del
  <2> QED
    BY <2>1, ModeSet
<1>8. EdInv(G) /\ EdInv(g)
  BY <1>3, RowSet
<1>9. EdInv(WithLine(s, head))
  <2> DEFINE k == s.col
             l == Line(s)
  <2>1. l \in Seq(Chars) /\ k \in Nat /\ k \in 0..Len(l) /\ Len(l) \in Nat /\ Len(l) < ED_LINE_LEN
    BY <1>1
  <2> HIDE DEF k, l
  <2>2. SubSeq(l, 1, k) \in Seq(Chars) /\ Len(SubSeq(l, 1, k)) = k
    BY <2>1, HeadPart
  <2>3. Shorter(l, k) = SubSeq(l, 1, k)
    <3>1. (IF Len(l) < k THEN Len(l) ELSE k) = k
      BY <2>1
    <3> QED
      BY <3>1 DEF Shorter
  <2>4. head \in Seq(Chars) /\ Len(head) = k
    BY <2>2, <2>3 DEF k, l
  <2> HIDE DEF head
  <2>5. head \in Row /\ k \in 0..Len(head)
    BY <2>1, <2>4, EdSizesHold DEF Row, Rows, EdSizes
  <2>6. EdInv(WithLine(s, head))
    BY <1>1, <2>5, LineSet DEF k
  <2> QED
    BY <2>6
<1>10. ASSUME s.col < Len(Line(s)) PROVE EdInv(WithLine(s, other))
  <2> DEFINE l == Line(s)
  <2>1. l \in Seq(Chars) /\ m \in 1..Len(l) /\ Len(l) < ED_LINE_LEN
    BY <1>1, <1>10
  <2> HIDE DEF m, l
  <2>2. [l EXCEPT ![m] = c] \in Seq(Chars) /\ Len([l EXCEPT ![m] = c]) = Len(l)
    BY <2>1, ExceptSeq
  <2>3. other \in Seq(Chars) /\ Len(other) = Len(l)
    BY <2>2 DEF l
  <2> HIDE DEF other
  <2>4. other \in Row /\ s.col \in 0..Len(other)
    BY <1>1, <2>1, <2>3 DEF Row, Rows, l
  <2> QED
    BY <1>1, <2>4, LineSet
<1> HIDE DEF x, G, g, head, other
<1> QED
  BY <1>2, <1>5, <1>6, <1>7, <1>8, <1>9, <1>10

LEMMA EdKeeps ==
  ASSUME NEW s, EdInv(s), NEW key, NEW c \in Chars, NEW room \in Nat \cup {-1}
  PROVE  EdInv(builtin_ed(s, key, c, room))
<1> DEFINE t == [s EXCEPT !.asked = FALSE]
           calm == [t EXCEPT !.pd = FALSE, !.py = FALSE]
           u == builtin_ed(s, key, c, room)
<1>1. EdFields \subseteq DOMAIN s
  BY DEF EdInv, EdPlace
<1>2. /\ DOMAIN t = DOMAIN s /\ t.lines = s.lines /\ t.file = s.file
      /\ t.cut = s.cut /\ t.modified = s.modified /\ t.yank = s.yank
      /\ t.row = s.row /\ t.col = s.col
  BY <1>1 DEF EdFields
<1>3. \/ u = Inserting(t, key)
      \/ key \in {"d", "y"} /\ u = Doubled(t, key)
      \/ u = ed_colon(calm, key, room)
      \/ u = Normal(t, key, c)
      \/ u = Travel(t, key)
      \/ u = Travel(calm, Letters[key])
      \/ u = Normal(calm, key, c)
      \/ u = t
  BY DEF builtin_ed
<1> HIDE DEF t
<1>4. EdInv(t)
  BY <1>2, FlagsSet
<1>5. /\ DOMAIN calm = DOMAIN t /\ calm.lines = t.lines /\ calm.file = t.file
      /\ calm.cut = t.cut /\ calm.modified = t.modified /\ calm.yank = t.yank
      /\ calm.row = t.row /\ calm.col = t.col
  BY <1>1, <1>2 DEF EdFields
<1> HIDE DEF calm, u
<1>6. EdInv(calm)
  BY <1>4, <1>5, FlagsSet
<1>7. EdInv(u)
  BY <1>3, <1>4, <1>6, InsertingKeeps, DoubledKeeps, ColonKeeps, NormalKeeps, TravelKeeps
<1> QED
  BY <1>7 DEF u

LEMMA EdStarts ==
  ASSUME NEW file \in Seq(Byte), Len(ReadLines(file, ED_LINE_LEN)) <= ED_MAX_LINES
  PROVE  EdInv(EdOpened(file))
<1> DEFINE lines == ReadLines(file, ED_LINE_LEN)
           none == <<<<>>>>
           text == ed_load(file)
           t == EdOpened(file)
<1>1. lines \in Seq(Row)
  BY ReadFits, EdSizesHold DEF Row, EdSizes
<1>2. none \in Seq(Row) /\ Len(none) = 1
  BY EmptyRow
<1>3. text = IF lines = <<>> THEN none ELSE lines
  BY DEF ed_load
<1> HIDE DEF lines, none, text
<1>4. Len(lines) \in Nat /\ Len(lines) <= ED_MAX_LINES /\ (lines = <<>> <=> Len(lines) = 0)
  BY <1>1, EmptySeq DEF lines
<1>5. text \in Seq(Row) /\ Len(text) \in 1..ED_MAX_LINES
  <2>1. CASE lines = <<>>
    <3>1. text \in Seq(Row) /\ Len(text) = 1
      BY <1>2, <1>3, <2>1
    <3> QED
      BY <3>1, EdSizesHold DEF EdSizes
  <2>2. CASE lines # <<>>
    <3>1. text = lines
      BY <1>3, <2>2
    <3>2. Len(lines) # 0
      BY <1>4, <2>2
    <3>3. Len(lines) \in 1..ED_MAX_LINES
      BY <1>4, <3>2, EdSizesHold DEF EdSizes
    <3> QED
      BY <1>1, <3>1, <3>3
  <2> QED
    BY <2>1, <2>2
<1>6. /\ EdFields \subseteq DOMAIN t /\ t.lines = text /\ t.row = 0 /\ t.col = 0
      /\ t.yank = <<>> /\ t.file = file
  BY DEF EdOpened, EdFields, text
<1> HIDE DEF t
<1>7. 0 \in 0..Len(text) - 1 /\ 0 + 1 = 1 /\ 1 \in 1..Len(text)
  BY <1>5, EdSizesHold DEF EdSizes
<1>8. 0 \in 0..Len(Line(t))
  <2>1. text[1] \in Row
    BY <1>5, <1>7, ElementOfSeq
  <2>2. Len(text[1]) \in Nat
    BY <2>1, LenProperties DEF Row, Rows
  <2>3. Line(t) = text[1]
    BY <1>6, <1>7 DEF Line
  <2> QED
    BY <2>2, <2>3
<1>9. EdPlace(t)
  BY <1>5, <1>6, <1>7, <1>8, EmptyRow DEF EdPlace
<1>10. ed_load(t.file) = t.lines
  BY <1>6 DEF text
<1> QED
  BY <1>9, <1>10 DEF EdInv, t

LEMMA EdOrder ==
  ASSUME NEW s, EdInv(s)
  PROVE  EdInOrder(s)
<1>1. EdPlace(s) /\ (~s.modified /\ ~s.cut => ed_load(s.file) = s.lines)
  BY DEF EdInv
<1>2. \A i \in DOMAIN s.lines : Len(s.lines[i]) < ED_LINE_LEN
  <2> SUFFICES ASSUME NEW i \in DOMAIN s.lines PROVE Len(s.lines[i]) < ED_LINE_LEN
    OBVIOUS
  <2>1. s.lines \in Seq(Row)
    BY <1>1 DEF EdPlace
  <2>2. i \in 1..Len(s.lines)
    BY <2>1, LenProperties
  <2>3. s.lines[i] \in Row
    BY <2>1, <2>2, ElementOfSeq
  <2> QED
    BY <2>3 DEF Row, Rows
<1> QED
  BY <1>1, <1>2 DEF EdInOrder, EdPlace

------------------------------------------------------------------------------
\* Writer.

WriterLine == Rows(LINE_LEN)

WriterInv(s) ==
  /\ {"lines", "file", "saved", "cut", "running"} \subseteq DOMAIN s
  /\ s.lines \in Seq(WriterLine) /\ Len(s.lines) <= MAX_LINES
  /\ ~s.cut => load_file(s.file) = s.saved

WriterSizes == MAX_LINES \in Nat /\ LINE_LEN \in Nat \ {0} /\ LOAD_BUF \in Nat \ {0}

LEMMA WriterSizesHold == WriterSizes
BY EditorAssumption DEF WriterSizes

LEMMA LoadFits ==
  ASSUME NEW file \in Seq(Byte)
  PROVE  load_file(file) \in Seq(WriterLine) /\ Len(load_file(file)) <= MAX_LINES
<1> DEFINE room == LOAD_BUF - 1
           bytes == Shorter(file, room)
           lines == ReadLines(bytes, LINE_LEN)
<1>1. room \in Nat
  BY WriterSizesHold DEF WriterSizes
<1> HIDE DEF room
<1>2. bytes \in Seq(Byte)
  BY <1>1, ShorterProperties
<1> HIDE DEF bytes
<1>3. lines \in Seq(WriterLine)
  BY <1>2, ReadFits, WriterSizesHold DEF WriterLine, WriterSizes
<1>4. load_file(file) = Shorter(lines, MAX_LINES)
  BY DEF load_file, lines, bytes, room
<1> HIDE DEF lines
<1>5. Shorter(lines, MAX_LINES) \in Seq(WriterLine) /\ Len(Shorter(lines, MAX_LINES)) <= MAX_LINES
  BY <1>3, ShorterProperties, WriterSizesHold DEF WriterSizes
<1> QED
  BY <1>4, <1>5

LEMMA WriterStarts ==
  ASSUME NEW file \in Seq(Byte)
  PROVE  WriterInv(WriterOpened(file))
BY LoadFits DEF WriterInv, WriterOpened

LEMMA CopyFits ==
  ASSUME NEW text \in Seq(Chars)
  PROVE  line_copy(text) \in WriterLine
<1> DEFINE k == LINE_LEN - 1
<1>1. k \in Nat /\ k < LINE_LEN
  BY WriterSizesHold DEF WriterSizes
<1> HIDE DEF k
<1>2. Shorter(text, k) \in Seq(Chars) /\ Len(Shorter(text, k)) <= k /\ Len(Shorter(text, k)) \in Nat
  BY <1>1, ShorterProperties
<1>3. line_copy(text) = Shorter(text, k)
  BY DEF line_copy, k
<1> QED
  BY <1>1, <1>2, <1>3, WriterSizesHold DEF WriterLine, Rows, WriterSizes

LEMMA FileSaved ==
  ASSUME NEW s, WriterInv(s), NEW room \in Nat \cup {-1}
  PROVE  WriterInv(save_file(s, room))
<1> DEFINE bytes == Bytes(s.lines)
           file == Shorter(bytes, room)
           cut == room < Len(bytes) \/ Len(bytes) >= LOAD_BUF
           t == save_file(s, room)
           most == LOAD_BUF - 1
<1>1. /\ {"lines", "file", "saved", "cut", "running"} \subseteq DOMAIN s
      /\ s.lines \in Seq(WriterLine) /\ Len(s.lines) <= MAX_LINES
  BY DEF WriterInv
<1>2. CASE room < 0
  BY <1>2 DEF save_file
<1>3. CASE ~(room < 0)
  <2>1. room \in Nat /\ LOAD_BUF \in Nat /\ most \in Nat /\ MAX_LINES \in Nat
    BY <1>3, WriterSizesHold DEF WriterSizes
  <2>2. bytes \in Seq(Byte) /\ ReadLines(bytes, LINE_LEN) = s.lines
    BY <1>1, WriterSizesHold, LinesReturn DEF WriterLine, WriterSizes
  <2>3. t = [s EXCEPT !.file = file, !.saved = s.lines, !.cut = cut]
    BY <1>3 DEF save_file
  <2> HIDE DEF bytes, t
  <2>4. ASSUME ~cut PROVE load_file(file) = s.lines
    <3>1. Len(bytes) \in Nat /\ Len(bytes) <= room /\ Len(bytes) <= most
      BY <2>1, <2>2, <2>4
    <3> HIDE DEF most
    <3>2. file = bytes /\ Shorter(bytes, most) = bytes
      BY <2>1, <2>2, <3>1, ShorterProperties
    <3>3. Shorter(s.lines, MAX_LINES) = s.lines
      BY <1>1, <2>1, ShorterProperties
    <3>4. load_file(file) = Shorter(ReadLines(Shorter(file, most), LINE_LEN), MAX_LINES)
      BY DEF load_file, most
    <3> QED
      BY <2>2, <3>2, <3>3, <3>4
  <2> HIDE DEF file, cut
  <2>5. /\ DOMAIN t = DOMAIN s /\ t.lines = s.lines /\ t.file = file
        /\ t.saved = s.lines /\ t.cut = cut
    BY <1>1, <2>3
  <2>6. WriterInv(t)
    BY <1>1, <2>4, <2>5 DEF WriterInv
  <2> QED
    BY <2>6 DEF t
<1> QED
  BY <1>2, <1>3

LEMMA WriterKeeps ==
  ASSUME NEW s, WriterInv(s), NEW cmd, NEW n \in Int, NEW text \in Seq(Chars),
         NEW room \in Nat \cup {-1}
  PROVE  WriterInv(writer_main(s, cmd, n, text, room))
<1> DEFINE line == line_copy(text)
           a == [s EXCEPT !.lines = Append(s.lines, line)]
           d == [s EXCEPT !.lines = RemoveAt(s.lines, n)]
           r == [s EXCEPT !.lines[n] = line]
           q == [s EXCEPT !.running = FALSE]
           t == writer_main(s, cmd, n, text, room)
<1>1. /\ {"lines", "file", "saved", "cut", "running"} \subseteq DOMAIN s
      /\ s.lines \in Seq(WriterLine) /\ Len(s.lines) <= MAX_LINES /\ Len(s.lines) \in Nat
      /\ MAX_LINES \in Nat /\ DOMAIN s.lines = 1..Len(s.lines)
      /\ (~s.cut => load_file(s.file) = s.saved)
  BY WriterSizesHold, LenProperties DEF WriterInv, WriterSizes
<1>2. line \in WriterLine
  BY CopyFits
<1> HIDE DEF line
<1>3. \/ Len(s.lines) < MAX_LINES /\ t = a
      \/ n \in DOMAIN s.lines /\ t = d
      \/ n \in DOMAIN s.lines /\ t = r
      \/ t = save_file(s, room)
      \/ t = q
      \/ t = s
  BY <1>1 DEF writer_main, line
<1> SUFFICES WriterInv(t)
  OBVIOUS
<1> HIDE DEF t
<1> DEFINE With(lines) == [s EXCEPT !.lines = lines]
<1>4. ASSUME NEW lines \in Seq(WriterLine), Len(lines) <= MAX_LINES
      PROVE  WriterInv(With(lines))
  BY <1>1, <1>4 DEF WriterInv
<1>5. a = With(Append(s.lines, line)) /\ d = With(RemoveAt(s.lines, n))
      /\ r = With([s.lines EXCEPT ![n] = line])
  BY <1>1
<1> HIDE DEF With, a, d, r
<1>6. CASE Len(s.lines) < MAX_LINES /\ t = a
  <2>1. Append(s.lines, line) \in Seq(WriterLine) /\ Len(Append(s.lines, line)) = Len(s.lines) + 1
    BY <1>1, <1>2, AppendProperties
  <2>2. Len(s.lines) + 1 <= MAX_LINES
    BY <1>1, <1>6
  <2> QED
    BY <1>4, <1>5, <1>6, <2>1, <2>2
<1>7. CASE n \in DOMAIN s.lines /\ t = d
  <2>1. /\ RemoveAt(s.lines, n) \in Seq(WriterLine)
        /\ Len(RemoveAt(s.lines, n)) = Len(s.lines) - 1
    BY <1>1, <1>7, RemoveProperties
  <2>2. Len(s.lines) - 1 <= MAX_LINES
    BY <1>1
  <2> QED
    BY <1>4, <1>5, <1>7, <2>1, <2>2
<1>8. CASE n \in DOMAIN s.lines /\ t = r
  <2>1. /\ [s.lines EXCEPT ![n] = line] \in Seq(WriterLine)
        /\ Len([s.lines EXCEPT ![n] = line]) = Len(s.lines)
    BY <1>1, <1>2, <1>8, ExceptSeq
  <2> QED
    BY <1>1, <1>4, <1>5, <1>8, <2>1
<1>9. CASE t = save_file(s, room)
  BY <1>9, FileSaved
<1>10. CASE t = q
  <2>1. WriterInv(q)
    BY <1>1 DEF WriterInv
  <2> QED
    BY <1>10, <2>1
<1> QED
  BY <1>3, <1>6, <1>7, <1>8, <1>9, <1>10

LEMMA WriterOrder ==
  ASSUME NEW s, WriterInv(s)
  PROVE  WriterInOrder(s)
<1>1. s.lines \in Seq(WriterLine) /\ Len(s.lines) <= MAX_LINES
  BY DEF WriterInv
<1>2. \A i \in DOMAIN s.lines : Len(s.lines[i]) < LINE_LEN
  <2> SUFFICES ASSUME NEW i \in DOMAIN s.lines PROVE Len(s.lines[i]) < LINE_LEN
    OBVIOUS
  <2>1. i \in 1..Len(s.lines)
    BY <1>1, LenProperties
  <2>2. s.lines[i] \in WriterLine
    BY <1>1, <2>1, ElementOfSeq
  <2> QED
    BY <2>2 DEF WriterLine, Rows
<1> QED
  BY <1>1, <1>2 DEF WriterInOrder, WriterInv

------------------------------------------------------------------------------
\* The line of the shell.

Entry == {l \in Seq(LineChars) : Len(l) < SHELL_MAX_LINE}

LineFields == {"buf", "cursor", "history", "history_count", "history_pos", "entered", "recalled"}

\* The ring holds the last that were entered, each in its slot.
RingHolds(s) ==
  \A i \in 0..s.history_count - 1 :
    i >= s.history_count - SHELL_MAX_HISTORY => s.history[Slot(i)] = s.entered[i + 1]

HistoryInv(s) ==
  /\ LineFields \subseteq DOMAIN s
  /\ s.history \in [0..SHELL_MAX_HISTORY - 1 -> Entry]
  /\ s.entered \in Seq(Entry) /\ s.history_count = Len(s.entered)
  /\ RingHolds(s)
  /\ \A i \in 1..Len(s.entered) - 1 : s.entered[i] # s.entered[i + 1]

LineInv(s) ==
  /\ HistoryInv(s)
  /\ s.buf \in Entry /\ s.cursor \in 0..Len(s.buf)
  /\ s.history_pos \in 0..s.history_count
  /\ s.recalled /\ s.history_count - s.history_pos \in 1..SHELL_MAX_HISTORY
       => s.buf = s.entered[s.history_pos + 1]

LineSizes == SHELL_MAX_HISTORY \in Nat \ {0} /\ SHELL_MAX_LINE \in Nat \ {0}

LEMMA LineSizesHold == LineSizes
BY LineEditAssumption DEF LineSizes

LEMMA Division ==
  ASSUME NEW a \in Nat, NEW b \in Nat \ {0}
  PROVE  a \div b \in Nat /\ a % b \in 0..b - 1 /\ (a \div b) * b + (a % b) = a
OBVIOUS

\* Two entries that the ring holds at once have slots of their own.
LEMMA SlotsDiffer ==
  ASSUME NEW i \in Nat, NEW j \in Nat, i < j, j - i < SHELL_MAX_HISTORY
  PROVE  Slot(i) # Slot(j)
<1> DEFINE b == SHELL_MAX_HISTORY
           p == i \div b
           q == j \div b
           r == i % b
<1>1. b \in Nat \ {0}
  BY LineSizesHold DEF LineSizes
<1>2. SUFFICES ASSUME Slot(i) = Slot(j) PROVE FALSE
  OBVIOUS
<1>3. i % b = j % b
  BY <1>2 DEF Slot
<1>4. p \in Nat /\ r \in 0..b - 1 /\ p * b + r = i
  <2> HIDE DEF b
  <2>1. i \div b \in Nat /\ i % b \in 0..b - 1 /\ (i \div b) * b + (i % b) = i
    BY <1>1, Division
  <2> QED
    BY <2>1
<1>5. q \in Nat /\ q * b + r = j
  <2> HIDE DEF b
  <2>1. j \div b \in Nat /\ (j \div b) * b + (j % b) = j
    BY <1>1, Division
  <2> QED
    BY <1>3, <2>1
<1>6. j - i < b
  OBVIOUS
<1> HIDE DEF b, p, q, r
<1>7. CASE q <= p
  <2>1. q * b <= p * b
    BY <1>1, <1>4, <1>5, <1>7
  <2>2. q * b \in Int /\ p * b \in Int
    BY <1>1, <1>4, <1>5
  <2> QED
    BY <1>4, <1>5, <2>1, <2>2
<1>8. CASE q >= p + 1
  <2>1. q * b >= (p + 1) * b
    BY <1>1, <1>4, <1>5, <1>8
  <2>2. (p + 1) * b = p * b + b
    BY <1>1, <1>4
  <2>3. q * b \in Int /\ p * b \in Int
    BY <1>1, <1>4, <1>5
  <2> QED
    BY <1>1, <1>4, <1>5, <1>6, <2>1, <2>2, <2>3
<1> QED
  BY <1>4, <1>5, <1>7, <1>8

LEMMA SlotInRing ==
  ASSUME NEW i \in Nat
  PROVE  Slot(i) \in 0..SHELL_MAX_HISTORY - 1
BY LineSizesHold, Division DEF LineSizes, Slot

LEMMA HistoryFacts ==
  ASSUME NEW s, HistoryInv(s)
  PROVE  /\ LineFields \subseteq DOMAIN s /\ s.entered \in Seq(Entry)
         /\ s.history_count = Len(s.entered) /\ s.history_count \in Nat
         /\ \A i \in Nat : s.history[Slot(i)] \in Entry
         /\ SHELL_MAX_HISTORY \in Nat /\ SHELL_MAX_HISTORY >= 1
<1>1. /\ LineFields \subseteq DOMAIN s /\ s.entered \in Seq(Entry)
      /\ s.history_count = Len(s.entered) /\ s.history \in [0..SHELL_MAX_HISTORY - 1 -> Entry]
  BY DEF HistoryInv
<1>2. s.history_count \in Nat
  BY <1>1, LenProperties
<1>3. SHELL_MAX_HISTORY \in Nat /\ SHELL_MAX_HISTORY >= 1
  BY LineSizesHold DEF LineSizes
<1> QED
  BY <1>1, <1>2, <1>3, SlotInRing

\* What leaves the history alone.
LEMMA SameHistory ==
  ASSUME NEW s, HistoryInv(s), NEW t, DOMAIN t = DOMAIN s, t.history = s.history,
         t.history_count = s.history_count, t.entered = s.entered
  PROVE  HistoryInv(t)
BY DEF HistoryInv, RingHolds

LEMMA HistoryGrows ==
  ASSUME NEW s, HistoryInv(s), NEW line \in Entry
  PROVE  /\ HistoryInv(history_add(s, line)) /\ DOMAIN history_add(s, line) = DOMAIN s
         /\ history_add(s, line).recalled = s.recalled
<1> DEFINE n == s.history_count
           t == history_add(s, line)
           last == s.history[Slot(n - 1)]
           history == [s.history EXCEPT ![Slot(n)] = line]
           entered == Append(s.entered, line)
           grown == [s EXCEPT !.history = history, !.history_count = n + 1, !.entered = entered]
<1>1. /\ LineFields \subseteq DOMAIN s /\ s.entered \in Seq(Entry)
      /\ n = Len(s.entered) /\ n \in Nat
      /\ SHELL_MAX_HISTORY \in Nat /\ SHELL_MAX_HISTORY >= 1
  BY HistoryFacts
<1>2. CASE line = <<>> \/ (n > 0 /\ last = line)
  <2>1. t = s
    BY <1>2 DEF history_add
  <2> QED
    BY <2>1
<1>3. CASE ~(line = <<>> \/ (n > 0 /\ last = line))
  <2>1. t = grown
    BY <1>1, <1>3 DEF history_add, LineFields
  <2>2. n > 0 => s.entered[n] # line
    <3> SUFFICES ASSUME n > 0 PROVE s.entered[n] # line
      OBVIOUS
    <3> DEFINE i == n - 1
    <3>1. i \in 0..n - 1 /\ i >= n - SHELL_MAX_HISTORY /\ i + 1 = n
      BY <1>1
    <3>2. last # line
      BY <1>3
    <3> HIDE DEF i, n
    <3>3. s.history[Slot(i)] = s.entered[i + 1]
      BY <3>1 DEF HistoryInv, RingHolds, n
    <3> QED
      BY <3>1, <3>2, <3>3 DEF i
  <2> HIDE DEF n, t
  <2>3. /\ DOMAIN grown = DOMAIN s /\ grown.history = history
        /\ grown.history_count = n + 1 /\ grown.entered = entered
        /\ grown.recalled = s.recalled
    <3> HIDE DEF history, entered
    <3> QED
      BY <1>1 DEF LineFields
  <2>4. history \in [0..SHELL_MAX_HISTORY - 1 -> Entry]
    BY DEF HistoryInv
  <2>5. /\ entered \in Seq(Entry) /\ Len(entered) = n + 1
        /\ \A i \in 1..n + 1 : entered[i] = IF i = n + 1 THEN line ELSE s.entered[i]
    BY <1>1, AppendProperties
  <2>6. history[Slot(n)] = line
    BY <1>1, SlotInRing DEF HistoryInv
  <2>7. ASSUME NEW i \in Nat, i < n, n - i < SHELL_MAX_HISTORY
        PROVE  history[Slot(i)] = s.history[Slot(i)]
    BY <1>1, <2>7, SlotsDiffer, SlotInRing DEF HistoryInv
  <2> HIDE DEF history, entered, grown
  <2>8. RingHolds(grown)
    <3> SUFFICES ASSUME NEW i \in 0..n, i >= n + 1 - SHELL_MAX_HISTORY
                 PROVE  history[Slot(i)] = entered[i + 1]
      BY <1>1, <2>3 DEF RingHolds
    <3>1. CASE i = n
      <4>1. entered[n + 1] = line
        BY <1>1, <2>5
      <4> QED
        BY <2>6, <3>1, <4>1
    <3>2. CASE i # n
      <4>1. /\ i \in 0..n - 1 /\ i < n /\ n - i < SHELL_MAX_HISTORY /\ i \in Nat
            /\ i + 1 \in 1..n + 1 /\ i + 1 # n + 1 /\ i >= n - SHELL_MAX_HISTORY
        BY <1>1, <3>2
      <4>2. s.history[Slot(i)] = s.entered[i + 1]
        BY <4>1 DEF HistoryInv, RingHolds, n
      <4>3. entered[i + 1] = s.entered[i + 1]
        BY <2>5, <4>1
      <4> QED
        BY <2>7, <4>1, <4>2, <4>3
    <3> QED
      BY <3>1, <3>2
  <2>9. ASSUME NEW i \in 1..n PROVE entered[i] # entered[i + 1]
    <3>1. i \in 1..n + 1 /\ i # n + 1 /\ i + 1 \in 1..n + 1
      BY <1>1
    <3>2. entered[i] = s.entered[i]
      BY <2>5, <3>1
    <3>3. CASE i = n
      <4>1. entered[i + 1] = line /\ n > 0
        BY <1>1, <2>5, <3>1, <3>3
      <4> QED
        BY <2>2, <3>2, <3>3, <4>1
    <3>4. CASE i # n
      <4>1. i \in 1..n - 1 /\ i + 1 # n + 1
        BY <1>1, <3>4
      <4>2. s.entered[i] # s.entered[i + 1]
        BY <1>1, <4>1 DEF HistoryInv
      <4>3. entered[i + 1] = s.entered[i + 1]
        BY <2>5, <3>1, <4>1
      <4> QED
        BY <3>2, <4>2, <4>3
    <3> QED
      BY <3>3, <3>4
  <2>10. \A i \in 1..Len(entered) - 1 : entered[i] # entered[i + 1]
    BY <1>1, <2>5, <2>9
  <2>11. HistoryInv(grown)
    BY <1>1, <2>3, <2>4, <2>5, <2>8, <2>10 DEF HistoryInv
  <2> QED
    BY <2>1, <2>3, <2>11 DEF t
<1> QED
  BY <1>2, <1>3

LEMMA GreatestExists ==
  ASSUME NEW n \in Nat, NEW I, I \subseteq 1..n, I # {}
  PROVE  Max(I) \in I
<1> DEFINE S == {n - i : i \in I}
<1>1. S \subseteq Nat
  <2>1. ASSUME NEW i \in I PROVE n - i \in Nat
    <3>1. i \in 1..n
      OBVIOUS
    <3> QED
      BY <3>1
  <2> QED
    BY <2>1
<1>a. S # {}
  <2>1. PICK i \in I : TRUE
    OBVIOUS
  <2>2. n - i \in S
    BY <2>1
  <2> QED
    BY <2>2
<1>2. PICK x \in S : \A y \in S : x <= y
  <2> HIDE DEF S
  <2> QED
    BY <1>1, <1>a, LeastExists
<1>3. PICK m \in I : x = n - m
  BY <1>2
<1>4. ASSUME NEW i \in I PROVE m >= i
  <2>1. n - i \in S
    OBVIOUS
  <2>2. n - m <= n - i /\ m \in Int /\ i \in Int
    BY <1>2, <1>3, <2>1
  <2> QED
    BY <2>2
<1> QED
  BY <1>3, <1>4 DEF Max

LEMMA StrippedFits ==
  ASSUME NEW line \in Entry
  PROVE  Stripped(line) \in Entry
<1> DEFINE n == Len(line)
           I == {i \in 1..n : line[i] # "sp"}
           k == IF I # {} THEN Max(I) ELSE 0
<1>1. line \in Seq(LineChars) /\ n \in Nat /\ n < SHELL_MAX_LINE
  BY DEF Entry
<1>2. Stripped(line) = SubSeq(line, 1, k)
  BY DEF Stripped, SelectLastInSeq
<1>3. k \in 0..n
  <2>1. CASE I = {}
    BY <1>1, <2>1
  <2>2. CASE I # {}
    <3>1. I \subseteq 1..n
      OBVIOUS
    <3> HIDE DEF I, n
    <3>2. Max(I) \in I
      BY <1>1, <2>2, <3>1, GreatestExists
    <3>3. k = Max(I)
      BY <2>2
    <3>4. Max(I) \in 1..n
      BY <3>1, <3>2
    <3>5. Max(I) \in 0..n
      BY <1>1, <3>4
    <3> QED
      BY <3>3, <3>5
  <2> QED
    BY <2>1, <2>2
<1> HIDE DEF k
<1>4. SubSeq(line, 1, k) \in Seq(LineChars) /\ Len(SubSeq(line, 1, k)) = k
  BY <1>1, <1>3, HeadPart
<1> QED
  BY <1>1, <1>2, <1>3, <1>4, LineSizesHold DEF Entry, LineSizes

\* A new line, typed and not brought by a key.
LEMMA BufferSet ==
  ASSUME NEW s, LineInv(s), NEW t, DOMAIN t = DOMAIN s, t.history = s.history,
         t.history_count = s.history_count, t.entered = s.entered,
         ~t.recalled, t.buf \in Entry, t.cursor \in 0..Len(t.buf),
         t.history_pos = s.history_pos
  PROVE  LineInv(t)
<1>1. HistoryInv(t)
  BY SameHistory DEF LineInv
<1> QED
  BY <1>1 DEF LineInv

LEMMA RereadStarts ==
  ASSUME NEW s, HistoryInv(s), ~s.recalled
  PROVE  LineInv(Reread(s))
<1> DEFINE t == Reread(s)
<1>1. LineFields \subseteq DOMAIN s /\ s.history_count \in Nat
  BY HistoryFacts
<1>2. /\ DOMAIN t = DOMAIN s /\ t.history = s.history /\ t.history_count = s.history_count
      /\ t.entered = s.entered /\ t.buf = <<>> /\ t.cursor = 0
      /\ t.history_pos = s.history_count /\ t.recalled = s.recalled
  BY <1>1 DEF Reread, LineFields
<1> HIDE DEF t
<1>3. HistoryInv(t)
  BY <1>2, SameHistory
<1>4. <<>> \in Entry /\ Len(<<>>) = 0
  BY LineSizesHold, EmptySeq DEF Entry, LineSizes
<1>5. t.buf \in Entry /\ t.cursor \in 0..Len(t.buf)
  BY <1>2, <1>4
<1>6. t.history_pos \in 0..t.history_count
  BY <1>1, <1>2
<1>7. ~t.recalled
  BY <1>2
<1>8. LineInv(t)
  BY <1>3, <1>5, <1>6, <1>7 DEF LineInv
<1> QED
  BY <1>8 DEF t

LEMMA LineStarts == LineInv(LineNew)
<1> DEFINE t == LineNew
<1>1. <<>> \in Entry /\ Len(<<>>) = 0 /\ <<>> \in Seq(Entry)
  BY LineSizesHold, EmptySeq DEF Entry, LineSizes
<1>2. /\ LineFields \subseteq DOMAIN t /\ t.buf = <<>> /\ t.cursor = 0
      /\ t.history = [i \in 0..SHELL_MAX_HISTORY - 1 |-> <<>>]
      /\ t.history_count = 0 /\ t.history_pos = 0 /\ t.entered = <<>> /\ t.recalled = FALSE
  BY DEF LineNew, LineFields
<1> HIDE DEF t
<1>3. t.history \in [0..SHELL_MAX_HISTORY - 1 -> Entry]
  BY <1>1, <1>2
<1>4. 0..0 - 1 = {} /\ 1..0 - 1 = {} /\ 0 \in 0..0
  OBVIOUS
<1>5. RingHolds(t)
  BY <1>2, <1>4 DEF RingHolds
<1>6. HistoryInv(t)
  BY <1>1, <1>2, <1>3, <1>4, <1>5 DEF HistoryInv
<1>7. LineInv(t)
  BY <1>1, <1>2, <1>4, <1>6 DEF LineInv
<1> QED
  BY <1>7 DEF t

LEMMA RecalledKeeps ==
  ASSUME NEW s, LineInv(s), NEW line \in Entry, NEW pos \in 0..s.history_count,
         s.history_count - pos \in 1..SHELL_MAX_HISTORY => line = s.entered[pos + 1]
  PROVE  LineInv(Recalled(s, line, pos))
<1> DEFINE t == Recalled(s, line, pos)
<1>1. HistoryInv(s) /\ LineFields \subseteq DOMAIN s
  BY DEF LineInv, HistoryInv
<1>2. /\ DOMAIN t = DOMAIN s /\ t.history = s.history /\ t.history_count = s.history_count
      /\ t.entered = s.entered /\ t.buf = line /\ t.cursor = Len(line) /\ t.history_pos = pos
  BY <1>1 DEF Recalled, LineFields
<1> HIDE DEF t
<1>3. HistoryInv(t)
  BY <1>1, <1>2, SameHistory
<1>4. Len(line) \in 0..Len(line)
  BY LenProperties DEF Entry
<1>5. LineInv(t)
  BY <1>2, <1>3, <1>4 DEF LineInv
<1> QED
  BY <1>5 DEF t

LEMMA PrevKeeps ==
  ASSUME NEW s, LineInv(s)
  PROVE  LineInv(history_prev(s))
<1> DEFINE pos == s.history_pos - 1
           n == s.history_count
<1>1. /\ HistoryInv(s) /\ n \in Nat /\ s.history_pos \in 0..n
      /\ SHELL_MAX_HISTORY \in Nat
  BY HistoryFacts DEF LineInv
<1>2. CASE s.history_pos <= 0
  BY <1>2 DEF history_prev
<1>3. CASE ~(s.history_pos <= 0)
  <2>1. history_prev(s) = Recalled(s, s.history[Slot(pos)], pos)
    BY <1>3 DEF history_prev
  <2>2. pos \in 0..n - 1 /\ pos \in Nat /\ pos \in 0..n
    BY <1>1, <1>3
  <2> HIDE DEF pos
  <2>3. s.history[Slot(pos)] \in Entry
    BY <1>1, <2>2, HistoryFacts
  <2>4. ASSUME n - pos \in 1..SHELL_MAX_HISTORY
        PROVE  s.history[Slot(pos)] = s.entered[pos + 1]
    <3>1. pos >= n - SHELL_MAX_HISTORY
      BY <1>1, <2>2, <2>4
    <3> QED
      BY <1>1, <2>2, <3>1 DEF HistoryInv, RingHolds
  <2> QED
    BY <2>1, <2>2, <2>3, <2>4, RecalledKeeps
<1> QED
  BY <1>2, <1>3

LEMMA NextKeeps ==
  ASSUME NEW s, LineInv(s)
  PROVE  LineInv(history_next(s))
<1> DEFINE n == s.history_count
           pos == IF s.history_pos < n THEN s.history_pos + 1 ELSE s.history_pos
           line == IF pos < n THEN s.history[Slot(pos)] ELSE <<>>
<1>1. /\ HistoryInv(s) /\ n \in Nat /\ s.history_pos \in 0..n
      /\ SHELL_MAX_HISTORY \in Nat
  BY HistoryFacts DEF LineInv
<1>2. history_next(s) = Recalled(s, line, pos)
  BY DEF history_next
<1>3. pos \in 0..n /\ pos \in Nat
  BY <1>1
<1> HIDE DEF pos
<1>4. <<>> \in Entry
  BY LineSizesHold, EmptySeq DEF Entry, LineSizes
<1>5. line \in Entry
  BY <1>1, <1>3, <1>4, HistoryFacts
<1>6. ASSUME n - pos \in 1..SHELL_MAX_HISTORY PROVE line = s.entered[pos + 1]
  <2>1. pos < n /\ pos \in 0..n - 1 /\ pos >= n - SHELL_MAX_HISTORY
    BY <1>1, <1>3, <1>6
  <2> QED
    BY <1>1, <2>1 DEF HistoryInv, RingHolds
<1> HIDE DEF line
<1> QED
  BY <1>2, <1>3, <1>5, <1>6, RecalledKeeps

LEMMA LineFacts ==
  ASSUME NEW s, LineInv(s)
  PROVE  /\ HistoryInv(s) /\ LineFields \subseteq DOMAIN s /\ s.history_pos \in 0..s.history_count
         /\ s.buf \in Seq(LineChars) /\ Len(s.buf) \in Nat /\ Len(s.buf) < SHELL_MAX_LINE
         /\ s.buf \in Entry /\ s.cursor \in 0..Len(s.buf) /\ s.cursor \in Nat
BY LenProperties DEF LineInv, HistoryInv, Entry

\* The cursor and the text before the ring is asked.
LEMMA CursorSet ==
  ASSUME NEW s, LineInv(s), ~s.recalled, NEW c \in 0..Len(s.buf)
  PROVE  LineInv([s EXCEPT !.cursor = c])
<1> DEFINE t == [s EXCEPT !.cursor = c]
<1>1. LineFields \subseteq DOMAIN s /\ s.buf \in Entry /\ s.history_pos \in 0..s.history_count
  BY LineFacts
<1>2. /\ DOMAIN t = DOMAIN s /\ t.history = s.history /\ t.history_count = s.history_count
      /\ t.entered = s.entered /\ ~t.recalled /\ t.buf = s.buf /\ t.cursor = c
      /\ t.history_pos = s.history_pos
  BY <1>1 DEF LineFields
<1> HIDE DEF t
<1>3. LineInv(t)
  BY <1>1, <1>2, BufferSet
<1> QED
  BY <1>3 DEF t

LEMMA TextSet ==
  ASSUME NEW s, LineInv(s), ~s.recalled, NEW buf \in Entry, NEW c \in 0..Len(buf)
  PROVE  LineInv([s EXCEPT !.buf = buf, !.cursor = c])
<1> DEFINE t == [s EXCEPT !.buf = buf, !.cursor = c]
<1>1. LineFields \subseteq DOMAIN s /\ s.history_pos \in 0..s.history_count
  BY LineFacts
<1>2. /\ DOMAIN t = DOMAIN s /\ t.history = s.history /\ t.history_count = s.history_count
      /\ t.entered = s.entered /\ ~t.recalled /\ t.buf = buf /\ t.cursor = c
      /\ t.history_pos = s.history_pos
  BY <1>1 DEF LineFields
<1> HIDE DEF t
<1>3. LineInv(t)
  BY <1>1, <1>2, BufferSet
<1> QED
  BY <1>3 DEF t

LEMMA ShortLine ==
  ASSUME NEW line \in Seq(LineChars), Len(line) < SHELL_MAX_LINE
  PROVE  line \in Entry
BY DEF Entry

LEMMA InsertKeeps ==
  ASSUME NEW s, LineInv(s), ~s.recalled, NEW c \in LineChars
  PROVE  LineInv(Insert(s, c))
<1> DEFINE buf == InsertAt(s.buf, s.cursor + 1, c)
           next == s.cursor + 1
           t == [s EXCEPT !.buf = buf, !.cursor = next]
<1>1. /\ LineFields \subseteq DOMAIN s /\ s.buf \in Seq(LineChars) /\ Len(s.buf) \in Nat
      /\ s.cursor \in 0..Len(s.buf) /\ SHELL_MAX_LINE \in Nat
  BY LineFacts, LineSizesHold DEF LineSizes
<1>2. CASE Len(s.buf) >= SHELL_MAX_LINE - 1
  BY <1>2 DEF Insert
<1>3. CASE ~(Len(s.buf) >= SHELL_MAX_LINE - 1)
  <2>1. Insert(s, c) = t
    BY <1>1, <1>3 DEF Insert, LineFields
  <2>2. buf \in Seq(LineChars) /\ Len(buf) = Len(s.buf) + 1
    BY <1>1, InsertProperties
  <2> HIDE DEF buf
  <2>3. Len(buf) < SHELL_MAX_LINE /\ next \in 0..Len(buf)
    BY <1>1, <1>3, <2>2
  <2> HIDE DEF next
  <2>4. LineInv(t)
    BY <2>2, <2>3, ShortLine, TextSet
  <2> QED
    BY <2>1, <2>4
<1> QED
  BY <1>2, <1>3

LEMMA DeletingKeeps ==
  ASSUME NEW s, LineInv(s), ~s.recalled, NEW i \in 0..Len(s.buf) - 1,
         NEW c \in 0..Len(s.buf) - 1
  PROVE  LineInv([s EXCEPT !.buf = RemoveAt(s.buf, i + 1), !.cursor = c])
<1> DEFINE m == i + 1
           buf == RemoveAt(s.buf, m)
<1>1. s.buf \in Seq(LineChars) /\ Len(s.buf) \in Nat /\ Len(s.buf) < SHELL_MAX_LINE
  BY LineFacts
<1>2. m \in 1..Len(s.buf) /\ SHELL_MAX_LINE \in Nat
  BY <1>1, LineSizesHold DEF LineSizes
<1> HIDE DEF m
<1>3. buf \in Seq(LineChars) /\ Len(buf) = Len(s.buf) - 1
  BY <1>1, <1>2, RemoveProperties
<1> HIDE DEF buf
<1>4. Len(buf) < SHELL_MAX_LINE /\ c \in 0..Len(buf)
  BY <1>1, <1>2, <1>3
<1>5. LineInv([s EXCEPT !.buf = buf, !.cursor = c])
  BY <1>3, <1>4, ShortLine, TextSet
<1> QED
  BY <1>5 DEF buf, m

LEMMA LineEntered ==
  ASSUME NEW s, LineInv(s), ~s.recalled, NEW line \in Entry,
         NEW t, t = history_add(s, line)
  PROVE  LineInv(Reread(t))
<1>1. line \in Entry
  BY LineFacts, StrippedFits
<1>2. HistoryInv(t) /\ t.recalled = s.recalled
  BY <1>1, LineFacts, HistoryGrows
<1>3. ~t.recalled
  BY <1>2
<1>4. HistoryInv(t)
  BY <1>2
<1>5. LineInv(Reread(t))
  BY <1>3, <1>4, RereadStarts
<1> QED
  BY <1>5

LEMMA LineTravelKeeps ==
  ASSUME NEW s, LineInv(s), ~s.recalled, NEW key
  PROVE  LineInv(LineTravel(s, key))
<1> DEFINE u == LineTravel(s, key)
           left == s.cursor - 1
           right == s.cursor + 1
<1>1. \/ u = [s EXCEPT !.cursor = 0]
      \/ u = [s EXCEPT !.cursor = Len(s.buf)]
      \/ s.cursor > 0 /\ u = [s EXCEPT !.cursor = left]
      \/ s.cursor < Len(s.buf) /\ u = [s EXCEPT !.cursor = right]
      \/ u = s
  BY DEF LineTravel
<1>2. Len(s.buf) \in Nat /\ s.cursor \in 0..Len(s.buf)
  BY LineFacts
<1>3. /\ 0 \in 0..Len(s.buf) /\ Len(s.buf) \in 0..Len(s.buf)
      /\ s.cursor > 0 => left \in 0..Len(s.buf)
      /\ s.cursor < Len(s.buf) => right \in 0..Len(s.buf)
  BY <1>2
<1> HIDE DEF u, left, right
<1>4. \A c \in 0..Len(s.buf) : LineInv([s EXCEPT !.cursor = c])
  BY CursorSet
<1>5. LineInv(u)
  BY <1>1, <1>3, <1>4
<1> QED
  BY <1>5 DEF u

LEMMA LineChangeKeeps ==
  ASSUME NEW s, LineInv(s), ~s.recalled, NEW key
  PROVE  LineInv(LineChange(s, key))
<1> DEFINE u == LineChange(s, key)
           n == Len(s.buf)
           left == s.cursor - 1
           head == SubSeq(s.buf, 1, s.cursor)
           rest == DeleteAt(s, left)
<1>3. \/ u = [s EXCEPT !.buf = SubSeq(@, 1, s.cursor)]
      \/ u = [s EXCEPT !.buf = <<>>, !.cursor = 0]
      \/ s.cursor > 0 /\ u = [rest EXCEPT !.cursor = @ - 1]
      \/ s.cursor < Len(s.buf) /\ u = DeleteAt(s, s.cursor)
      \/ key \in LineChars /\ u = Insert(s, key)
      \/ u = LineTravel(s, key)
  BY DEF LineChange
<1> HIDE DEF u, rest
<1>5. /\ LineFields \subseteq DOMAIN s /\ s.buf \in Seq(LineChars) /\ n \in Nat
      /\ n < SHELL_MAX_LINE /\ s.cursor \in 0..n /\ SHELL_MAX_LINE \in Nat
  BY LineFacts, LineSizesHold DEF LineSizes
<1>11. LineInv([s EXCEPT !.buf = SubSeq(@, 1, s.cursor)])
  <2>1. head \in Seq(LineChars) /\ Len(head) = s.cursor
    BY <1>5, HeadPart
  <2>2. [s EXCEPT !.buf = SubSeq(@, 1, s.cursor)] = [s EXCEPT !.buf = head, !.cursor = s.cursor]
    BY <1>5 DEF LineFields
  <2> HIDE DEF head
  <2>3. head \in Entry /\ s.cursor \in 0..Len(head)
    BY <1>5, <2>1, ShortLine
  <2>4. LineInv([s EXCEPT !.buf = head, !.cursor = s.cursor])
    BY <2>3, TextSet
  <2> QED
    BY <2>2, <2>4
<1>12. LineInv([s EXCEPT !.buf = <<>>, !.cursor = 0])
  <2>1. <<>> \in Entry /\ 0 \in 0..Len(<<>>)
    BY LineSizesHold, EmptySeq DEF Entry, LineSizes
  <2> QED
    BY <2>1, TextSet
<1>13. ASSUME s.cursor > 0 PROVE LineInv([rest EXCEPT !.cursor = @ - 1])
  <2> DEFINE buf == RemoveAt(s.buf, left + 1)
  <2>1. left \in 0..Len(s.buf) - 1
    BY <1>5, <1>13
  <2>2. rest = [s EXCEPT !.buf = buf]
    BY DEF rest, DeleteAt
  <2> HIDE DEF buf
  <2>3. rest.cursor = s.cursor
    BY <1>5, <2>2 DEF LineFields
  <2>4. [rest EXCEPT !.cursor = @ - 1] = [rest EXCEPT !.cursor = left]
    BY <2>3
  <2>5. [rest EXCEPT !.cursor = left] = [s EXCEPT !.buf = buf, !.cursor = left]
    BY <2>2
  <2> HIDE DEF left
  <2>6. LineInv([s EXCEPT !.buf = buf, !.cursor = left])
    BY <2>1, DeletingKeeps DEF buf
  <2> QED
    BY <2>4, <2>5, <2>6
<1>14. ASSUME s.cursor < Len(s.buf) PROVE LineInv(DeleteAt(s, s.cursor))
  <2>1. s.cursor \in 0..Len(s.buf) - 1
    BY <1>5, <1>14
  <2>2. DeleteAt(s, s.cursor) = [s EXCEPT !.buf = RemoveAt(s.buf, s.cursor + 1), !.cursor = s.cursor]
    BY <1>5 DEF DeleteAt, LineFields
  <2>3. LineInv([s EXCEPT !.buf = RemoveAt(s.buf, s.cursor + 1), !.cursor = s.cursor])
    BY <2>1, DeletingKeeps
  <2> QED
    BY <2>2, <2>3
<1>15. ASSUME key \in LineChars PROVE LineInv(Insert(s, key))
  BY <1>15, InsertKeeps
<1>16. LineInv(u)
  BY <1>3, <1>11, <1>12, <1>13, <1>14, <1>15, LineTravelKeeps
<1> QED
  BY <1>16 DEF u

LEMMA LineKeeps ==
  ASSUME NEW t, LineInv(t), NEW key
  PROVE  LineInv(readline(t, key))
<1> DEFINE s == [t EXCEPT !.recalled = FALSE]
           u == KeyRead(s, key)
           line == Stripped(s.buf)
           entered == history_add(s, line)
           next == Reread(entered)
<1>1. /\ LineFields \subseteq DOMAIN t /\ t.buf \in Entry /\ t.cursor \in 0..Len(t.buf)
      /\ t.history_pos \in 0..t.history_count
  BY LineFacts
<1>2. /\ DOMAIN s = DOMAIN t /\ s.history = t.history /\ s.history_count = t.history_count
      /\ s.entered = t.entered /\ ~s.recalled /\ s.buf = t.buf /\ s.cursor = t.cursor
      /\ s.history_pos = t.history_pos
  BY <1>1 DEF LineFields
<1>3. readline(t, key) = u
  BY DEF readline
<1> HIDE DEF s
<1>4. \/ u = next \/ u = Reread(s) \/ u = history_prev(s) \/ u = history_next(s)
      \/ u = LineChange(s, key)
  BY DEF KeyRead
<1>5. LineInv(s)
  BY <1>1, <1>2, BufferSet
<1>6. HistoryInv(s) /\ s.buf \in Entry /\ ~s.recalled
  BY <1>2, <1>5, LineFacts
<1>7. LineInv(next)
  <2>1. line \in Entry
    BY <1>6, StrippedFits
  <2>2. entered = history_add(s, line)
    OBVIOUS
  <2> HIDE DEF line, entered
  <2> QED
    BY <1>5, <1>6, <2>1, <2>2, LineEntered
<1> HIDE DEF u, next
<1>8. LineInv(Reread(s))
  BY <1>6, RereadStarts
<1>9. LineInv(history_prev(s)) /\ LineInv(history_next(s))
  BY <1>5, PrevKeeps, NextKeeps
<1>10. LineInv(LineChange(s, key))
  BY <1>5, <1>6, LineChangeKeeps
<1> QED
  BY <1>3, <1>4, <1>7, <1>8, <1>9, <1>10

LEMMA LineOrder ==
  ASSUME NEW s, LineInv(s)
  PROVE  LineInOrder(s)
BY LineFacts DEF LineInv, HistoryInv, LineInOrder

------------------------------------------------------------------------------
\* The programs.

Games == {"snake", "tetris", "breakout", "pong", "minesweeper", "tictactoe", "slots"}

LEMMA NoGame ==
  ASSUME NEW a, a \notin Games, NEW s
  PROVE  GameInv(a, s)
BY DEF GameInv, Games

LEMMA OneGame ==
  ASSUME NEW a, NEW s,
         \/ a = "snake" /\ SnakeInv(s)
         \/ a = "tetris" /\ TetrisInv(s)
         \/ a = "breakout" /\ BreakoutInv(s)
         \/ a = "pong" /\ PongInv(s)
         \/ a = "minesweeper" /\ MinesInv(s)
         \/ a = "tictactoe" /\ TicTacToeInv(s)
         \/ a = "slots" /\ SlotsInv(s)
  PROVE  GameInv(a, s)
BY DEF GameInv

LEMMA GamesStart == Init => GameInv(app, st)
<1> SUFFICES ASSUME Init PROVE GameInv(app, st)
  OBVIOUS
<1>1. CASE app \notin Games
  BY <1>1, NoGame
<1>2. CASE app \in Games
  <2>1. CASE app = "minesweeper"
    <3>1. PICK mines \in Minefields : st = ms_init(mines)
      BY <2>1 DEF Init
    <3> QED
      BY <2>1, <3>1, MinesLaid, OneGame
  <2>2. CASE app # "minesweeper"
    <3>1. \/ app = "snake" /\ st = SnakeOpened
          \/ app = "tetris" /\ st = TetrisOpened
          \/ app = "breakout" /\ st = brk_init
          \/ app = "pong" /\ st = PongOpened
          \/ app = "tictactoe" /\ st = TicTacToeNew
          \/ app = "slots" /\ st = SlotsOpened
      BY <1>2, <2>2 DEF Init, Games
    <3> QED
      BY <3>1, OneGame, SnakeOpenedInv, TetrisStarts, BreakoutOpened, PongOpenedInv,
         TicTacToeOpened, SlotsOpenedInv
  <2> QED
    BY <2>1, <2>2
<1> QED
  BY <1>1, <1>2

LEMMA GamesKeep == GameInv(app, st) /\ [Next]_vars => GameInv(app', st')
<1> SUFFICES ASSUME GameInv(app, st), [Next]_vars PROVE GameInv(app', st')
  OBVIOUS
<1>1. CASE Snake
  <2>1. PICK key \in Arrows, click \in BOOLEAN, n \in 0..SN_SIZE - 1 :
          st' = render_snake(st, key, click, n)
    BY <1>1 DEF Snake
  <2>2. app = "snake" /\ app' = "snake" /\ SnakeInv(st)
    BY <1>1 DEF Snake, GameInv
  <2>3. SnakeInv(st')
    BY <2>1, <2>2, SnakeKeeps
  <2> QED
    BY <2>2, <2>3, OneGame
<1>2. CASE Tetris
  <2>1. PICK key \in Arrows, click \in BOOLEAN, p \in TET_PIECES :
          st' = render_tetris(st, key, click, p)
    BY <1>2 DEF Tetris
  <2>2. app = "tetris" /\ app' = "tetris" /\ TetrisInv(st)
    BY <1>2 DEF Tetris, GameInv
  <2>3. p \in 0..6
    BY ArcadeAssumption
  <2>4. TetrisInv(st')
    BY <2>1, <2>2, <2>3, TetrisKeeps
  <2> QED
    BY <2>2, <2>4, OneGame
<1>3. CASE Breakout
  <2>1. PICK mx \in Pointer, click \in BOOLEAN : st' = render_breakout(st, mx, click)
    BY <1>3 DEF Breakout
  <2>2. app = "breakout" /\ app' = "breakout" /\ BreakoutInv(st)
    BY <1>3 DEF Breakout, GameInv
  <2>3. BreakoutInv(st')
    BY <2>1, <2>2, BreakoutKeeps
  <2> QED
    BY <2>2, <2>3, OneGame
<1>4. CASE Pong
  <2>1. PICK my \in Pointer : st' = render_pong(st, my)
    BY <1>4 DEF Pong
  <2>2. app = "pong" /\ app' = "pong" /\ PongInv(st)
    BY <1>4 DEF Pong, GameInv
  <2>3. my \in Int
    BY FrameAssumption
  <2>4. PongInv(st')
    BY <2>1, <2>2, <2>3, PongKeeps
  <2> QED
    BY <2>2, <2>4, OneGame
<1>5. CASE Minesweeper
  <2>1. PICK field \in Fields \cup {NOWHERE}, mines \in Minefields :
          st' = render_minesweeper(st, TRUE, field, mines)
    BY <1>5 DEF Minesweeper
  <2>2. app = "minesweeper" /\ app' = "minesweeper" /\ MinesInv(st)
    BY <1>5 DEF Minesweeper, GameInv
  <2>3. MinesInv(st')
    BY <2>1, <2>2, MinesKeep
  <2> QED
    BY <2>2, <2>3, OneGame
<1>6. CASE TicTacToe
  <2>1. PICK square \in Squares \cup {NOWHERE} : st' = render_tictactoe(st, TRUE, square)
    BY <1>6 DEF TicTacToe
  <2>2. app = "tictactoe" /\ app' = "tictactoe" /\ TicTacToeInv(st)
    BY <1>6 DEF TicTacToe, GameInv
  <2>3. TicTacToeInv(st')
    BY <2>1, <2>2, TicTacToeKeeps
  <2> QED
    BY <2>2, <2>3, OneGame
<1>7. CASE Slots
  <2>1. PICK click \in BOOLEAN, n \in 0..N_SLOT_SYMS - 1, t \in FrameTicks :
          st' = render_slots(st, click /\ st.credits < MaxCredits, n, t)
    BY <1>7 DEF Slots
  <2>2. app = "slots" /\ app' = "slots" /\ SlotsInv(st)
    BY <1>7 DEF Slots, GameInv
  <2>3. t \in Nat
    BY FrameAssumption
  <2> DEFINE played == click /\ st.credits < MaxCredits
  <2>4. played \in BOOLEAN
    OBVIOUS
  <2> HIDE DEF played
  <2>5. SlotsInv(render_slots(st, played, n, t))
    BY <2>2, <2>3, <2>4, SlotsKeep
  <2>6. SlotsInv(st')
    BY <2>1, <2>5 DEF played
  <2> QED
    BY <2>2, <2>6, OneGame
<1>8. CASE \/ Calculator \/ FileManager \/ Terminal \/ Notepad \/ Ed \/ Writer \/ CommandLine
  <2>1. app' \notin Games
    BY <1>8 DEF Calculator, FileManager, Terminal, Notepad, Ed, Writer, CommandLine, Games
  <2> QED
    BY <2>1, NoGame
<1>9. CASE UNCHANGED vars
  BY <1>9 DEF vars
<1> QED
  BY <1>1, <1>2, <1>3, <1>4, <1>5, <1>6, <1>7, <1>8, <1>9 DEF Next

Tools == {"calculator", "fileman", "terminal", "notepad"}

ToolInv(a, s) ==
  /\ a = "calculator" => CalcInv(s)
  /\ a = "fileman" => FilesInv(s)
  /\ a = "terminal" => TerminalInv(s)
  /\ a = "notepad" => s \in 0..WIN_TEXT_BUF - 1

LEMMA NoTool ==
  ASSUME NEW a, a \notin Tools, NEW s
  PROVE  ToolInv(a, s)
BY DEF ToolInv, Tools

LEMMA OneTool ==
  ASSUME NEW a, NEW s,
         \/ a = "calculator" /\ CalcInv(s)
         \/ a = "fileman" /\ FilesInv(s)
         \/ a = "terminal" /\ TerminalInv(s)
         \/ a = "notepad" /\ s \in 0..WIN_TEXT_BUF - 1
  PROVE  ToolInv(a, s)
BY DEF ToolInv

LEMMA ToolsStart == Init => ToolInv(app, st)
<1> SUFFICES ASSUME Init PROVE ToolInv(app, st)
  OBVIOUS
<1>1. CASE app \notin Tools
  BY <1>1, NoTool
<1>2. CASE app \in Tools
  <2>1. 2 \in 0..WIN_TEXT_BUF - 1
    BY TerminalAssumption
  <2>2. \/ app = "calculator" /\ st = CalcNew
        \/ app = "fileman" /\ st = FilesOpened
        \/ app = "terminal" /\ st = TerminalOpened
        \/ app = "notepad" /\ st = 2
    BY <1>2 DEF Init, Tools
  <2> QED
    BY <2>1, <2>2, OneTool, CalcOpened, FilesStart, TerminalStarts
<1> QED
  BY <1>1, <1>2

LEMMA ToolsKeep == ToolInv(app, st) /\ [Next]_vars => ToolInv(app', st')
<1> SUFFICES ASSUME ToolInv(app, st), [Next]_vars PROVE ToolInv(app', st')
  OBVIOUS
<1>1. CASE Calculator
  <2>1. PICK button \in CalcButtons : st' = calc_press(st, button)
    BY <1>1 DEF Calculator
  <2>2. app = "calculator" /\ app' = "calculator" /\ CalcInv(st)
    BY <1>1 DEF Calculator, ToolInv
  <2>3. button \in 0..15
    BY FrameAssumption
  <2>4. CalcInv(st')
    BY <2>1, <2>2, <2>3, CalcKeeps
  <2> QED
    BY <2>2, <2>4, OneTool
<1>2. CASE FileManager
  <2>1. PICK refresh \in BOOLEAN, is_exec \in BOOLEAN, row \in -1..FM_MAX - 1,
             files \in 0..FM_MAX, t \in FrameTicks :
          st' = render_fileman(st, refresh, row, is_exec, files, t)
    BY <1>2 DEF FileManager
  <2>2. app = "fileman" /\ app' = "fileman" /\ FilesInv(st)
    BY <1>2 DEF FileManager, ToolInv
  <2>3. row \in Int
    BY ParlorAssumption
  <2>4. FilesInv(st')
    BY <2>1, <2>2, <2>3, FilesKeep
  <2> QED
    BY <2>2, <2>4, OneTool
<1>3. CASE Terminal
  <2>1. PICK key \in Typed \cup {"none", "enter", "backspace", "ctrl-c"}, out \in Outputs :
          st' = render_terminal(st, key, out)
    BY <1>3 DEF Terminal
  <2>2. app = "terminal" /\ app' = "terminal" /\ TerminalInv(st)
    BY <1>3 DEF Terminal, ToolInv
  <2>3. TerminalInv(st')
    BY <2>1, <2>2, TerminalKeeps
  <2> QED
    BY <2>2, <2>3, OneTool
<1>4. CASE Notepad
  <2>1. PICK key \in {"none", "backspace", "other"} : st' = render_text_app(st, key)
    BY <1>4 DEF Notepad
  <2>2. app = "notepad" /\ app' = "notepad" /\ st \in 0..WIN_TEXT_BUF - 1
    BY <1>4 DEF Notepad, ToolInv
  <2>3. st' \in 0..WIN_TEXT_BUF - 1
    BY <2>1, <2>2, NotepadKeeps
  <2> QED
    BY <2>2, <2>3, OneTool
<1>5. CASE \/ Snake \/ Tetris \/ Breakout \/ Pong \/ Minesweeper \/ TicTacToe \/ Slots
           \/ Ed \/ Writer \/ CommandLine
  <2>1. app' \notin Tools
    BY <1>5 DEF Snake, Tetris, Breakout, Pong, Minesweeper, TicTacToe, Slots,
                Ed, Writer, CommandLine, Tools
  <2> QED
    BY <2>1, NoTool
<1>6. CASE UNCHANGED vars
  BY <1>6 DEF vars
<1> QED
  BY <1>1, <1>2, <1>3, <1>4, <1>5, <1>6 DEF Next

LEMMA ToolsOrder == ToolInv(app, st) => ToolsInOrder
BY TerminalOrder DEF ToolInv, CalcInv, FilesInv, ToolsInOrder

\* What is open is no mine, and it is not all the rest: there are too few of it.
LEMMA MinesOrder ==
  ASSUME NEW s, MinesInv(s)
  PROVE  MinesInOrder(s)
<1> DEFINE n == MS_SIZE * MS_SIZE
<1>1. s.mines \subseteq Fields /\ Cardinality(s.mines) = MS_MINES
  BY DEF MinesInv
<1>2. Fields \cap s.mines = s.mines
  BY <1>1
<1>3. /\ Cardinality(Fields \ s.mines) = Cardinality(Fields) - Cardinality(Fields \cap s.mines)
      /\ Cardinality(Fields) = n
  BY FieldsCount, FS_Difference
<1>4. Cardinality(Fields \ s.mines) = n - MS_MINES
  BY <1>1, <1>2, <1>3
<1>5. /\ Cardinality(s.open) < n - MS_MINES /\ s.open \cap s.mines = {}
      /\ s.dead = FALSE /\ s.won = FALSE
  BY DEF MinesInv
<1>6. n - MS_MINES \in Int
  BY ParlorAssumption
<1> HIDE DEF n
<1>7. s.open # Fields \ s.mines
  BY <1>4, <1>5, <1>6
<1> QED
  BY <1>1, <1>5, <1>7 DEF MinesInOrder

\* Nobody has a line on an open board, and both have moved equally often.
LEMMA TicTacToeOrder ==
  ASSUME NEW s, TicTacToeInv(s)
  PROVE  TicTacToeInOrder(s)
<1>1. Cardinality(Marks(s.board, 2)) \in Nat
  BY MarksCount DEF TicTacToeInv
<1> QED
  BY <1>1 DEF TicTacToeInv, TicTacToeInOrder

LEMMA GamesOrder == GameInv(app, st) => GamesInOrder
<1> SUFFICES ASSUME GameInv(app, st) PROVE GamesInOrder
  OBVIOUS
<1>1. app = "snake" => SnakeInOrder(st)
  BY SnakeOrder DEF GameInv
<1>2. /\ app = "tetris" => TetrisInOrder(st)
      /\ app = "breakout" => BreakoutInOrder(st)
      /\ app = "pong" => PongInOrder(st)
  BY DEF GameInv, TetrisInv, BreakoutInv, PongInv
<1>3. /\ app = "minesweeper" => MinesInOrder(st)
      /\ app = "tictactoe" => TicTacToeInOrder(st)
      /\ app = "slots" => SlotsInOrder(st)
  BY MinesOrder, TicTacToeOrder DEF GameInv, SlotsInv
<1> QED
  BY <1>1, <1>2, <1>3 DEF GamesInOrder

EditorApps == {"ed", "writer", "line"}

EditorInv(a, s) ==
  /\ a = "ed" => EdInv(s)
  /\ a = "writer" => WriterInv(s)
  /\ a = "line" => LineInv(s)

LEMMA NoEditor ==
  ASSUME NEW a, a \notin EditorApps, NEW s
  PROVE  EditorInv(a, s)
BY DEF EditorInv, EditorApps

LEMMA OneEditor ==
  ASSUME NEW a, NEW s,
         \/ a = "ed" /\ EdInv(s)
         \/ a = "writer" /\ WriterInv(s)
         \/ a = "line" /\ LineInv(s)
  PROVE  EditorInv(a, s)
BY DEF EditorInv

LEMMA EditorsStart == Init => EditorInv(app, st)
<1> SUFFICES ASSUME Init PROVE EditorInv(app, st)
  OBVIOUS
<1>1. CASE app = "ed"
  <2>1. PICK file \in Files : /\ Len(ReadLines(file, ED_LINE_LEN)) <= ED_MAX_LINES
                              /\ st = EdOpened(file)
    BY <1>1 DEF Init
  <2>2. file \in Seq(Byte)
    BY FrameAssumption DEF Byte
  <2> QED
    BY <1>1, <2>1, <2>2, EdStarts, OneEditor
<1>2. CASE app = "writer"
  <2>1. PICK file \in Files : st = WriterOpened(file)
    BY <1>2 DEF Init
  <2>2. file \in Seq(Byte)
    BY FrameAssumption DEF Byte
  <2> QED
    BY <1>2, <2>1, <2>2, WriterStarts, OneEditor
<1>3. CASE app = "line"
  <2>1. st = LineNew
    BY <1>3 DEF Init
  <2> QED
    BY <1>3, <2>1, LineStarts, OneEditor
<1>4. CASE app \notin EditorApps
  BY <1>4, NoEditor
<1> QED
  BY <1>1, <1>2, <1>3, <1>4 DEF EditorApps

LEMMA EditorsKeep == EditorInv(app, st) /\ [Next]_vars => EditorInv(app', st')
<1> SUFFICES ASSUME EditorInv(app, st), [Next]_vars PROVE EditorInv(app', st')
  OBVIOUS
<1>1. CASE Ed
  <2>0. PICK c \in Chars, room \in Room : \E key : st' = builtin_ed(st, key, c, room)
    BY <1>1 DEF Ed
  <2>1. PICK key : st' = builtin_ed(st, key, c, room)
    BY <2>0
  <2>2. app = "ed" /\ app' = "ed" /\ EdInv(st)
    BY <1>1 DEF Ed, EditorInv
  <2>3. room \in Nat \cup {-1}
    BY FrameAssumption
  <2>4. EdInv(st')
    BY <2>1, <2>2, <2>3, EdKeeps
  <2> QED
    BY <2>2, <2>4, OneEditor
<1>2. CASE Writer
  <2>1. PICK cmd \in {"a", "d", "r", "s", "q"}, n \in 0..MAX_LINES + 1, text \in Texts, room \in Room :
          st' = writer_main(st, cmd, n, text, room)
    BY <1>2 DEF Writer
  <2>2. app = "writer" /\ app' = "writer" /\ WriterInv(st)
    BY <1>2 DEF Writer, EditorInv
  <2>3. n \in Int /\ text \in Seq(Chars) /\ room \in Nat \cup {-1}
    BY FrameAssumption
  <2>4. WriterInv(st')
    BY <2>1, <2>2, <2>3, WriterKeeps
  <2> QED
    BY <2>2, <2>4, OneEditor
<1>3. CASE CommandLine
  <2>1. PICK key : st' = readline(st, key)
    BY <1>3 DEF CommandLine
  <2>2. app = "line" /\ app' = "line" /\ LineInv(st)
    BY <1>3 DEF CommandLine, EditorInv
  <2>3. LineInv(st')
    BY <2>1, <2>2, LineKeeps
  <2> QED
    BY <2>2, <2>3, OneEditor
<1>4. CASE \/ Snake \/ Tetris \/ Breakout \/ Pong \/ Minesweeper \/ TicTacToe \/ Slots
           \/ Calculator \/ FileManager \/ Terminal \/ Notepad
  <2>1. app' \notin EditorApps
    BY <1>4 DEF Snake, Tetris, Breakout, Pong, Minesweeper, TicTacToe, Slots,
                Calculator, FileManager, Terminal, Notepad, EditorApps
  <2> QED
    BY <2>1, NoEditor
<1>5. CASE UNCHANGED vars
  BY <1>5 DEF vars
<1> QED
  BY <1>1, <1>2, <1>3, <1>4, <1>5 DEF Next

LEMMA EditorsOrder == EditorInv(app, st) => EditorsInOrder
BY EdOrder, WriterOrder, LineOrder DEF EditorInv, EditorsInOrder

IInv == GameInv(app, st) /\ ToolInv(app, st) /\ EditorInv(app, st)

LEMMA InitKeeps == Init => IInv
BY GamesStart, ToolsStart, EditorsStart DEF IInv

LEMMA StepKeeps == IInv /\ [Next]_vars => IInv'
BY GamesKeep, ToolsKeep, EditorsKeep DEF IInv

LEMMA InvariantOrders == IInv => GamesInOrder /\ ToolsInOrder /\ EditorsInOrder
BY GamesOrder, ToolsOrder, EditorsOrder DEF IInv

LEMMA InvariantHolds == Spec => []IInv
  BY InitKeeps, StepKeeps, PTL DEF Spec

\* gui_desktop.c:1246-1807.  On boards and fields of every size, and however keys,
\* clicks and frames come: a snake is one line of cells that no key turns into
\* itself, a falling piece overlaps nothing and no full row stays, ball and
\* paddles keep to their fields, breakout's score is what has been shot down,
\* no frame leaves a finished game behind, and no stake is uncovered.
THEOREM GamesStayInOrder == Spec => []GamesInOrder
  BY InvariantHolds, InvariantOrders, PTL

\* gui_desktop.c:677-758, 979-1078, 1837-1958.  For a buffer of every size, and
\* whatever is typed, clicked and printed: the display shows the number that the
\* calculator goes on with, the selected row is one that is listed, the text of a
\* terminal or notepad fits its buffer, and Enter runs what was typed.
THEOREM ToolsStayInOrder == Spec => []ToolsInOrder
  BY InvariantHolds, InvariantOrders, PTL

\* shell.c:201-393, 986-1284, writer.c:30-180.  For buffers and a history of every
\* size, every file and however full the disk is: cursor and lines stay within the
\* buffers, Up and Down bring the lines that were entered, in their order, and a
\* text that ed counts as unmodified, or that Writer has saved, is what the file
\* brings back when it is read again, unless the disk could not take it.
THEOREM EditorsStayInOrder == Spec => []EditorsInOrder
  BY InvariantHolds, InvariantOrders, PTL

==============================================================================
