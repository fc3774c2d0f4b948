--------------------------- MODULE Desktop_proofs ----------------------------
(***************************************************************************)
(* Two parts: the desktop's stack of windows and, at the end, the mouse    *)
(* driver that it samples, with an introduction of its own.                *)
(*                                                                         *)
(* For every set of programs, sizes, menu and icons, and wherever the      *)
(* pointer goes: the windows lie on the desktop with no program twice, a   *)
(* drag holds the active window, and a click on a window is the topmost's. *)
(*                                                                         *)
(* Stack(wins) is what the windows alone satisfy; the lemmas say that each *)
(* operation on the stack keeps it and what becomes of the topmost window. *)
(* The inductive invariant adds what a turn relies on from the one before: *)
(* the button was down when a drag went on, so no click comes during one,  *)
(* and the item drawn selected in the menu is a program.                   *)
(***************************************************************************)
EXTENDS Desktop, Mouse, SequenceTheorems, WellFoundedInduction, TLAPS

USE DEF SCREEN_W, SCREEN_H, TASKBAR_H, TITLE_BAR_H, BORDER_W, DeskH

Window == [app : App, x : 0..SCREEN_W, y : 0..DeskH]

OnScreen(win) ==
  /\ win.x >= 0 /\ win.x + W(win) <= SCREEN_W
  /\ win.y >= 0 /\ win.y + H(win) <= DeskH

Unique(wins) == \A i, j \in DOMAIN wins : wins[i].app = wins[j].app => i = j

Stack(wins) ==
  /\ wins \in Seq(Window) /\ Len(wins) <= MAX_WINDOWS
  /\ \A i \in DOMAIN wins : OnScreen(wins[i])
  /\ Unique(wins)

Pos == [x : Int, y : Int]

IInv ==
  /\ WindowsOnScreen /\ DragHoldsFront
  /\ g_mouse \in [pos : Pos, left : BOOLEAN]
  /\ dragging => prev_btn
  /\ g_menu_hover # 0 => Menu[g_menu_hover] # NONE

------------------------------------------------------------------------------
\* Sequences.

LEMMA SequenceFacts ==
  ASSUME NEW S, NEW s \in Seq(S)
  PROVE  /\ Len(s) \in Nat /\ DOMAIN s = 1..Len(s)
         /\ \A i \in 1..Len(s) : s[i] \in S
  OBVIOUS

LEMMA RemoveAtProperties ==
  ASSUME NEW S, NEW s \in Seq(S), NEW k \in 1..Len(s)
  PROVE  /\ RemoveAt(s, k) \in Seq(S) /\ Len(RemoveAt(s, k)) = Len(s) - 1
         /\ \A i \in 1..Len(s) - 1 : RemoveAt(s, k)[i] = s[IF i < k THEN i ELSE i + 1]
<1> DEFINE u == SubSeq(s, 1, k - 1)
           v == SubSeq(s, k + 1, Len(s))
<1>0. Len(s) \in Nat /\ k \in Nat /\ 1 <= k /\ k <= Len(s)
  OBVIOUS
<1>1. u \in Seq(S) /\ Len(u) = k - 1 /\ \A i \in 1..k - 1 : u[i] = s[i]
  OBVIOUS
<1>2. v \in Seq(S) /\ Len(v) = Len(s) - k /\ \A i \in 1..Len(s) - k : v[i] = s[i + k]
  OBVIOUS
<1> HIDE DEF u, v
<1>3. /\ u \o v \in Seq(S) /\ Len(u \o v) = Len(u) + Len(v)
      /\ \A i \in 1..Len(u) + Len(v) :
           (u \o v)[i] = IF i <= Len(u) THEN u[i] ELSE v[i - Len(u)]
  BY <1>1, <1>2, ConcatProperties
<1>4. Len(u) + Len(v) = Len(s) - 1
  BY <1>0, <1>1, <1>2
<1>5. ASSUME NEW i \in 1..Len(s) - 1
      PROVE  (u \o v)[i] = s[IF i < k THEN i ELSE i + 1]
  <2>1. CASE i < k
    <3>1. i \in 1..k - 1 /\ i <= Len(u) /\ i \in 1..Len(u) + Len(v)
      BY <2>1, <1>0, <1>1, <1>4
    <3> QED
      BY <3>1, <2>1, <1>1, <1>3
  <2>2. CASE ~(i < k)
    <3>1. /\ i - (k - 1) \in 1..Len(s) - k /\ ~(i <= Len(u)) /\ i \in 1..Len(u) + Len(v)
          /\ i - (k - 1) + k = i + 1
      BY <2>2, <1>0, <1>1, <1>4
    <3>2. (u \o v)[i] = v[i - (k - 1)]
      BY <3>1, <1>1, <1>3
    <3> QED
      BY <3>1, <3>2, <2>2, <1>2
  <2> QED
    BY <2>1, <2>2
<1> QED
  BY <1>3, <1>4, <1>5 DEF RemoveAt, u, v

LEMMA FrontProperties ==
  ASSUME NEW S, NEW s \in Seq(S), s # <<>>
  PROVE  /\ Front(s) \in Seq(S) /\ Len(Front(s)) = Len(s) - 1
         /\ \A i \in 1..Len(s) - 1 : Front(s)[i] = s[i]
         /\ Len(s) \in 1..Len(s) /\ Last(s) = s[Len(s)] /\ Last(s) \in S
<1>1. Len(s) \in Nat /\ Len(s) # 0
  BY EmptySeq
<1>2. Len(s) - 1 \in Nat /\ Len(s) \in 1..Len(s)
  BY <1>1
<1> DEFINE t == SubSeq(s, 1, Len(s) - 1)
<1>3. t \in Seq(S) /\ Len(t) = Len(s) - 1 /\ \A i \in 1..Len(s) - 1 : t[i] = s[i]
  <2> DEFINE n == Len(s) - 1
  <2>1. n \in Int /\ n - 1 + 1 = n /\ \A i \in 1..n : i \in 1..Len(s) /\ 1 + i - 1 = i
    BY <1>1
  <2>2. n \in Nat
    BY <1>2
  <2> HIDE DEF n
  <2>3. /\ SubSeq(s, 1, n) \in Seq(S)
        /\ Len(SubSeq(s, 1, n)) = IF 1 <= n THEN n - 1 + 1 ELSE 0
        /\ \A i \in 1..n - 1 + 1 : SubSeq(s, 1, n)[i] = s[1 + i - 1]
    BY <2>1, SubSeqProperties
  <2> QED
    BY <2>1, <2>2, <2>3 DEF t, n
<1> HIDE DEF t
<1> QED
  BY <1>2, <1>3 DEF Front, Last, t

\* What Append, RemoveAt at the end and Front have in common.
LEMMA SameSequence ==
  ASSUME NEW S, NEW s \in Seq(S), NEW t \in Seq(S), Len(s) = Len(t),
         \A i \in 1..Len(s) : s[i] = t[i]
  PROVE  s = t
  BY SeqEqual

LEMMA AppendedProperties ==
  ASSUME NEW S, NEW s \in Seq(S), NEW x \in S
  PROVE  /\ Append(s, x) \in Seq(S) /\ Len(Append(s, x)) = Len(s) + 1
         /\ Len(s) + 1 \in 1..Len(s) + 1
         /\ \A i \in 1..Len(s) : Append(s, x)[i] = s[i]
         /\ Append(s, x)[Len(s) + 1] = x /\ Last(Append(s, x)) = x
         /\ Append(s, x) # <<>>
         /\ RemoveAt(Append(s, x), Len(Append(s, x))) = s
         /\ Front(Append(s, x)) = s
<1> DEFINE a == Append(s, x)
<1>1. /\ a \in Seq(S) /\ Len(a) = Len(s) + 1 /\ a[Len(s) + 1] = x
      /\ \A i \in 1..Len(s) : a[i] = s[i]
      /\ Len(s) \in Nat
  BY AppendProperties
<1>2. Len(s) + 1 \in 1..Len(s) + 1 /\ a # <<>>
  BY <1>1, EmptySeq
<1> HIDE DEF a
<1>3. Last(a) = x
  BY <1>1 DEF Last
<1>4. RemoveAt(a, Len(a)) = s
  <2>1. Len(a) \in 1..Len(a) /\ Len(a) - 1 = Len(s)
    BY <1>1
  <2>2. /\ RemoveAt(a, Len(a)) \in Seq(S) /\ Len(RemoveAt(a, Len(a))) = Len(a) - 1
        /\ \A i \in 1..Len(a) - 1 : RemoveAt(a, Len(a))[i] = a[IF i < Len(a) THEN i ELSE i + 1]
    BY <1>1, <2>1, RemoveAtProperties
  <2> QED
    BY <1>1, <2>1, <2>2, SameSequence
<1>5. Front(a) = s
  BY <1>1, <1>2, FrontProperties, SameSequence
<1> QED
  BY <1>1, <1>2, <1>3, <1>4, <1>5 DEF a

------------------------------------------------------------------------------
\* The stack of windows.

LEMMA StackFacts ==
  ASSUME NEW wins, Stack(wins), NEW i \in DOMAIN wins
  PROVE  /\ wins \in Seq(Window) /\ Len(wins) \in Nat /\ DOMAIN wins = 1..Len(wins)
         /\ i \in 1..Len(wins) /\ wins # <<>>
         /\ wins[i] \in Window /\ OnScreen(wins[i])
<1>1. wins \in Seq(Window)
  BY DEF Stack
<1>2. Len(wins) \in Nat /\ DOMAIN wins = 1..Len(wins)
  BY <1>1
<1>3. wins # <<>>
  BY <1>1, <1>2, EmptySeq
<1> QED
  BY <1>1, <1>2, <1>3 DEF Stack

LEMMA SizeFacts ==
  ASSUME NEW win \in Window
  PROVE  W(win) \in 1..SCREEN_W - 4 /\ H(win) \in 1..DeskH - 4
  BY SizeAssumption DEF Window, W, H

LEMMA PlaneFacts ==
  ASSUME NEW win \in Window, NEW p \in Pos
  PROVE  win.x \in Int /\ win.y \in Int /\ p.x \in Int /\ p.y \in Int
  BY DEF Window, Pos

LEMMA NoDragFacts == NoDrag \in [idx : 0..MAX_WINDOWS, ox : Int, oy : Int]
<1>1. 0 \in 0..MAX_WINDOWS
  BY LimitAssumption
<1> QED
  BY <1>1 DEF NoDrag

\* Closing a window leaves the others as they were.
LEMMA CloseStack ==
  ASSUME NEW wins, Stack(wins), NEW k \in DOMAIN wins
  PROVE  /\ Stack(RemoveAt(wins, k)) /\ Len(RemoveAt(wins, k)) = Len(wins) - 1
         /\ \A i \in DOMAIN RemoveAt(wins, k) : RemoveAt(wins, k)[i].app # wins[k].app
<1> DEFINE t == RemoveAt(wins, k)
           At(i) == IF i < k THEN i ELSE i + 1
<1>1. /\ wins \in Seq(Window) /\ Len(wins) \in Nat /\ DOMAIN wins = 1..Len(wins)
      /\ k \in 1..Len(wins) /\ Len(wins) <= MAX_WINDOWS
  BY StackFacts DEF Stack
<1>2. /\ t \in Seq(Window) /\ Len(t) = Len(wins) - 1
      /\ \A i \in 1..Len(wins) - 1 : t[i] = wins[At(i)]
  BY <1>1, RemoveAtProperties
<1> HIDE DEF t
<1>3. \A i \in 1..Len(wins) - 1 : At(i) \in 1..Len(wins) /\ At(i) # k
  BY <1>1
<1>4. \A i, j \in 1..Len(wins) - 1 : At(i) = At(j) => i = j
  BY <1>1
<1> HIDE DEF At
<1>5. DOMAIN t = 1..Len(wins) - 1 /\ Len(t) <= MAX_WINDOWS
  BY <1>1, <1>2, LimitAssumption
<1>6. \A i \in DOMAIN t : OnScreen(t[i])
  BY <1>1, <1>2, <1>3, <1>5 DEF Stack
<1>7. Unique(t)
  BY <1>1, <1>2, <1>3, <1>4, <1>5 DEF Stack, Unique
<1>8. \A i \in DOMAIN t : t[i].app # wins[k].app
  BY <1>1, <1>2, <1>3, <1>5 DEF Stack, Unique
<1> QED
  BY <1>2, <1>5, <1>6, <1>7, <1>8 DEF t, Stack

\* A window of a program that has none may be put on top while there is room.
LEMMA AppendStack ==
  ASSUME NEW wins, Stack(wins), Len(wins) < MAX_WINDOWS, NEW win \in Window,
         OnScreen(win), \A i \in DOMAIN wins : wins[i].app # win.app
  PROVE  Stack(Append(wins, win))
<1> DEFINE a == Append(wins, win)
<1>1. wins \in Seq(Window) /\ Len(wins) \in Nat /\ DOMAIN wins = 1..Len(wins)
  BY DEF Stack
<1>2. /\ a \in Seq(Window) /\ Len(a) = Len(wins) + 1
      /\ \A i \in 1..Len(wins) : a[i] = wins[i]
      /\ a[Len(wins) + 1] = win
  BY <1>1, AppendedProperties
<1> HIDE DEF a
<1>3. DOMAIN a = 1..Len(wins) + 1 /\ Len(a) <= MAX_WINDOWS
  BY <1>1, <1>2, LimitAssumption
<1>4. \A i \in DOMAIN a : i \in DOMAIN wins \/ i = Len(wins) + 1
  BY <1>1, <1>3
<1>5. \A i \in DOMAIN a : OnScreen(a[i])
  BY <1>1, <1>2, <1>4 DEF Stack
<1>6. Unique(a)
  BY <1>1, <1>2, <1>4 DEF Stack, Unique
<1> QED
  BY <1>2, <1>3, <1>5, <1>6 DEF a, Stack

\* Bringing a window to the front restacks the others and moves none.
LEMMA RaiseStack ==
  ASSUME NEW wins, Stack(wins), NEW k \in DOMAIN wins
  PROVE  /\ Stack(bring_front(wins, k)) /\ Len(bring_front(wins, k)) = Len(wins)
         /\ Last(bring_front(wins, k)) = wins[k]
<1> DEFINE t == RemoveAt(wins, k)
<1>1. /\ Len(wins) \in Nat /\ Len(wins) <= MAX_WINDOWS
      /\ wins[k] \in Window /\ OnScreen(wins[k])
  BY StackFacts DEF Stack
<1>2. /\ Stack(t) /\ Len(t) = Len(wins) - 1
      /\ \A i \in DOMAIN t : t[i].app # wins[k].app
  BY CloseStack
<1> HIDE DEF t
<1>3. Len(t) < MAX_WINDOWS /\ t \in Seq(Window)
  BY <1>1, <1>2, LimitAssumption DEF Stack
<1>4. Stack(Append(t, wins[k]))
  BY <1>1, <1>2, <1>3, AppendStack
<1>5. Len(Append(t, wins[k])) = Len(wins) /\ Last(Append(t, wins[k])) = wins[k]
  BY <1>1, <1>2, <1>3, AppendedProperties
<1> QED
  BY <1>4, <1>5 DEF bring_front, t

\* open_window's cascade starts a window on the desktop.
LEMMA PlaceOnScreen ==
  ASSUME NEW app \in App, NEW n \in Nat
  PROVE  Place(app, n) \in Window /\ Place(app, n).app = app /\ OnScreen(Place(app, n))
<1> DEFINE x == 60 + ((n * 22) % 300)
           y == 30 + ((n * 22) % 200)
           w == Size[app].w
           h == Size[app].h
<1>1. x \in 60..359 /\ y \in 30..229
  OBVIOUS
<1>2. w \in 1..796 /\ h \in 1..568
  BY SizeAssumption
<1> HIDE DEF x, y, w, h
<1> DEFINE px == IF x + w > SCREEN_W - 4 THEN SCREEN_W - w - 4 ELSE x
           py == IF y + h > DeskH - 4 THEN 4 ELSE y
<1>3. px \in 0..800 /\ py \in 0..572 /\ px + w <= 800 /\ py + h <= 572
  BY <1>1, <1>2
<1>4. Place(app, n) = [app |-> app, x |-> px, y |-> py]
  BY DEF Place, x, y, w, h
<1> HIDE DEF px, py
<1> QED
  BY <1>3, <1>4 DEF Window, OnScreen, W, H, w, h

\* Opening a program's window, or raising the one it has.
LEMMA OpenStack ==
  ASSUME NEW wins, Stack(wins), NEW app \in App
  PROVE  Stack(open_window(wins, app))
<1>1. CASE \E i \in DOMAIN wins : wins[i].app = app
  BY <1>1, RaiseStack DEF open_window
<1>2. CASE ~(\E i \in DOMAIN wins : wins[i].app = app) /\ Len(wins) >= MAX_WINDOWS
  BY <1>2 DEF open_window
<1>3. CASE ~(\E i \in DOMAIN wins : wins[i].app = app) /\ ~(Len(wins) >= MAX_WINDOWS)
  <2>1. Len(wins) \in Nat
    BY DEF Stack
  <2>2. /\ Place(app, Len(wins)) \in Window /\ Place(app, Len(wins)).app = app
        /\ OnScreen(Place(app, Len(wins)))
    BY <2>1, PlaceOnScreen
  <2>3. Len(wins) < MAX_WINDOWS
    BY <2>1, <1>3, LimitAssumption
  <2>4. Stack(Append(wins, Place(app, Len(wins))))
    BY <1>3, <2>2, <2>3, AppendStack
  <2> QED
    BY <2>4, <1>3 DEF open_window
<1> QED
  BY <1>1, <1>2, <1>3

\* A drag moves a window on the desktop and leaves it there.
LEMMA DragToOnScreen ==
  ASSUME NEW win \in Window, NEW p \in Pos, drag.ox \in Int, drag.oy \in Int
  PROVE  DragTo(win, p) \in Window /\ DragTo(win, p).app = win.app /\ OnScreen(DragTo(win, p))
<1> DEFINE dx == p.x - drag.ox
           dy == p.y - drag.oy
           w == W(win)
           h == H(win)
           x == IF dx < 0 THEN 0 ELSE dx
           y == IF dy < 0 THEN 0 ELSE dy
           px == IF x + w > SCREEN_W THEN SCREEN_W - w ELSE x
           py == IF y + h > DeskH THEN DeskH - h ELSE y
<1>1. dx \in Int /\ dy \in Int
  BY DEF Pos
<1>2. w \in 1..796 /\ h \in 1..568
  BY SizeFacts
<1>3. DragTo(win, p) = [win EXCEPT !.x = px, !.y = py]
  BY DEF DragTo
<1> HIDE DEF dx, dy, w, h
<1>4. px \in 0..800 /\ py \in 0..572 /\ px + w <= 800 /\ py + h <= 572
  BY <1>1, <1>2
<1> HIDE DEF px, py
<1>5. DragTo(win, p) = [app |-> win.app, x |-> px, y |-> py] /\ win.app \in App
  BY <1>3 DEF Window
<1> QED
  BY <1>4, <1>5 DEF Window, OnScreen, W, H, w, h

LEMMA DragStack ==
  ASSUME Stack(g_wins), pointer \in Pos, drag.ox \in Int, drag.oy \in Int
  PROVE  /\ Stack(Dragged) /\ Len(Dragged) = Len(g_wins)
         /\ \A i \in DOMAIN g_wins : Dragged[i].app = g_wins[i].app
<1>1. g_wins \in Seq(Window) /\ Len(g_wins) \in Nat /\ DOMAIN g_wins = 1..Len(g_wins)
  BY DEF Stack
<1>2. CASE ~(dragging /\ btn /\ drag.idx \in DOMAIN g_wins)
  BY <1>2 DEF Dragged
<1>3. CASE drag.idx \in DOMAIN g_wins /\ Dragged = [g_wins EXCEPT ![drag.idx] = DragTo(@, pointer)]
  <2> DEFINE k == drag.idx
             v == DragTo(g_wins[k], pointer)
             t == [g_wins EXCEPT ![k] = v]
  <2>1. g_wins[k] \in Window
    BY <1>1, <1>3
  <2>2. v \in Window /\ v.app = g_wins[k].app /\ OnScreen(v)
    BY <2>1, DragToOnScreen
  <2>3. Dragged = t /\ k \in 1..Len(g_wins)
    BY <1>1, <1>3
  <2> HIDE DEF v, k
  <2>4. /\ t \in Seq(Window) /\ Len(t) = Len(g_wins)
        /\ \A i \in 1..Len(g_wins) : t[i] = IF i = k THEN v ELSE g_wins[i]
    BY <1>1, <2>2, <2>3, ExceptSeq
  <2> HIDE DEF t
  <2>5. DOMAIN t = 1..Len(g_wins)
    BY <2>4
  <2>6. \A i \in DOMAIN g_wins : t[i].app = g_wins[i].app
    BY <1>1, <2>2, <2>4
  <2>7. Unique(t)
    BY <1>1, <2>5, <2>6 DEF Stack, Unique
  <2>8. \A i \in DOMAIN t : OnScreen(t[i])
    BY <1>1, <2>2, <2>4, <2>5 DEF Stack
  <2> QED
    BY <2>3, <2>4, <2>6, <2>7, <2>8 DEF Stack
<1> QED
  BY <1>2, <1>3 DEF Dragged

------------------------------------------------------------------------------
\* The parts of a turn.

TurnOK ==
  /\ Stack(g_wins) /\ g_front = Len(g_wins)
  /\ g_startmenu \in BOOLEAN /\ g_menu_hover \in {0} \cup DOMAIN Menu
  /\ g_menu_hover # 0 => Menu[g_menu_hover] # NONE
  /\ g_mouse \in [pos : Pos, left : BOOLEAN] /\ prev_btn \in BOOLEAN

DragOK ==
  /\ dragging \in BOOLEAN /\ drag \in [idx : 0..MAX_WINDOWS, ox : Int, oy : Int]
  /\ dragging => prev_btn
  /\ DragHoldsFront

IconsOK ==
  /\ selected \subseteq DOMAIN Icons /\ g_last_click_icon \in {0} \cup DOMAIN Icons
  /\ since \in 0..LONG_AGO

LEMMA Parts == IInv <=> TurnOK /\ DragOK /\ IconsOK
<1>1. IInv => TurnOK
  <2>1. IInv => Stack(g_wins)
    BY DEF IInv, WindowsOnScreen, TypeOK, Stack, Window, OnScreen, Unique
  <2> QED
    BY <2>1 DEF IInv, WindowsOnScreen, TypeOK, TurnOK
<1>2. IInv => DragOK /\ IconsOK
  BY DEF IInv, WindowsOnScreen, TypeOK, DragOK, IconsOK
<1>3. ASSUME TurnOK, DragOK, IconsOK PROVE IInv
  <2>1. TypeOK
    <3>1. g_mouse.left \in BOOLEAN
      BY <1>3 DEF TurnOK
    <3> QED
      BY <1>3, <3>1 DEF TypeOK, TurnOK, DragOK, IconsOK, Stack, Window
  <2>2. WindowsOnScreen
    BY <1>3, <2>1 DEF TurnOK, WindowsOnScreen, Stack, OnScreen, Unique
  <2> QED
    BY <1>3, <2>2 DEF IInv, TurnOK, DragOK
<1> QED
  BY <1>1, <1>2, <1>3

\* draw_startmenu draws selected the item under the pointer, never a separator.
LEMMA HoverIsProgram ==
  ASSUME NEW p
  PROVE  /\ HoverAt(p) \in {0} \cup DOMAIN Menu
         /\ HoverAt(p) # 0 => Menu[HoverAt(p)] # NONE
  BY DEF HoverAt

\* A pointer in a window is above the task bar.
LEMMA WindowsAboveTaskbar ==
  ASSUME NEW win \in Window, OnScreen(win), NEW p \in Pos, hit_win(win, p), NEW i
  PROVE  ~hit_task(i, p)
<1>1. p.y \in Int /\ win.y \in Int /\ H(win) \in Int
  BY SizeFacts DEF Pos, Window
<1>2. p.y < win.y + H(win) /\ win.y + H(win) <= DeskH
  BY DEF hit_win, pt_in, OnScreen
<1>3. ~(p.y >= DeskH + 3)
  BY <1>1, <1>2
<1> QED
  BY <1>3 DEF hit_task, pt_in

LEMMA CloseInWindow ==
  ASSUME NEW win \in Window, NEW p \in Pos, hit_title(win, p) \/ hit_close(win, p)
  PROVE  p.y \in win.y + BORDER_W..win.y + BORDER_W + TITLE_BAR_H - 1
<1>1. p.y \in Int /\ win.y \in Int
  BY DEF Pos, Window
<1> QED
  BY <1>1 DEF hit_title, hit_close, pt_in

\* A grip is inside the window and clear of the button that would close it.
LEMMA Grip ==
  ASSUME NEW win \in Window, NEW p \in Pos, hit_title(win, p)
  PROVE  /\ ~hit_ok(win, p)
         /\ p.x - win.x \in 0..W(win) - 1
         /\ p.y - win.y \in BORDER_W..BORDER_W + TITLE_BAR_H - 1
<1>1. p.x \in Int /\ p.y \in Int /\ win.x \in Int /\ win.y \in Int
  BY DEF Pos, Window
<1>2. W(win) \in 1..796 /\ H(win) \in 1..568
  BY SizeFacts
<1>3. /\ p.x >= win.x + 2 /\ p.x < win.x + 2 + (W(win) - 4 - 18)
      /\ p.y >= win.y + 2 /\ p.y < win.y + 2 + 18
  BY <1>1, <1>2 DEF hit_title, pt_in
<1>4. ASSUME hit_ok(win, p) PROVE FALSE
  <2>1. H(win) >= 50
    BY <1>4, OkAssumption DEF hit_ok, H
  <2>2. p.y >= win.y + H(win) - 2 - 28
    BY <1>4 DEF hit_ok, pt_in
  <2> QED
    BY <1>1, <1>2, <1>3, <2>1, <2>2
<1>5. p.x - win.x \in 0..W(win) - 1 /\ p.y - win.y \in 2..19
  BY <1>1, <1>2, <1>3
<1> QED
  BY <1>4, <1>5

\* Front is the stack without its topmost window.
LEMMA FrontCloses ==
  ASSUME NEW wins, Stack(wins), wins # <<>>
  PROVE  Len(wins) \in DOMAIN wins /\ Front(wins) = RemoveAt(wins, Len(wins))
<1>1. wins \in Seq(Window) /\ Len(wins) \in Nat /\ DOMAIN wins = 1..Len(wins)
  BY DEF Stack
<1>2. /\ Front(wins) \in Seq(Window) /\ Len(Front(wins)) = Len(wins) - 1
      /\ \A i \in 1..Len(wins) - 1 : Front(wins)[i] = wins[i]
      /\ Len(wins) \in 1..Len(wins)
  BY <1>1, FrontProperties
<1>3. /\ RemoveAt(wins, Len(wins)) \in Seq(Window)
      /\ Len(RemoveAt(wins, Len(wins))) = Len(wins) - 1
      /\ \A i \in 1..Len(wins) - 1 :
           RemoveAt(wins, Len(wins))[i] = wins[IF i < Len(wins) THEN i ELSE i + 1]
  BY <1>1, <1>2, RemoveAtProperties
<1>4. \A i \in 1..Len(wins) - 1 : (IF i < Len(wins) THEN i ELSE i + 1) = i
  BY <1>1
<1> QED
  BY <1>1, <1>2, <1>3, <1>4, SameSequence

\* Whatever the active program and the task bar make of a click.
LEMMA ThroughStack ==
  ASSUME NEW wins, Stack(wins)
  PROVE  Stack(ThroughApp(wins)) /\ Stack(ThroughTaskbar(wins))
<1>1. Stack(ThroughApp(wins))
  BY FrontCloses, CloseStack DEF ThroughApp
<1>2. Stack(ThroughTaskbar(wins))
  <2> DEFINE hits == {i \in DOMAIN wins : click /\ hit_task(i, pointer)}
             k == CHOOSE i \in hits : TRUE
  <2>1. CASE hits = {}
    BY <2>1 DEF ThroughTaskbar
  <2>2. CASE hits # {}
    <3>1. k \in DOMAIN wins
      BY <2>2
    <3>2. ThroughTaskbar(wins) = bring_front(wins, k)
      BY <2>2 DEF ThroughTaskbar
    <3> QED
      BY <3>1, <3>2, RaiseStack
  <2> QED
    BY <2>1, <2>2
<1> QED
  BY <1>1, <1>2

LEMMA RenderTurn ==
  ASSUME TurnOK, NEW wins, Stack(wins), NEW menu \in BOOLEAN, Render(wins, menu)
  PROVE  TurnOK' /\ prev_btn' = btn
<1> DEFINE t == ThroughTaskbar(ThroughApp(wins))
<1>1. Stack(t) /\ g_wins' = t /\ g_front' = Len(g_wins')
  BY ThroughStack DEF Render
<1>2. Stack(g_wins)'
  BY <1>1 DEF Stack, OnScreen, Unique, W, H
<1>3. g_startmenu' \in BOOLEAN
  BY DEF Render
<1>4. /\ (g_menu_hover \in {0} \cup DOMAIN Menu)'
      /\ (g_menu_hover # 0 => Menu[g_menu_hover] # NONE)'
  <2>1. g_menu_hover' = HoverAt(pointer) \/ g_menu_hover' = g_menu_hover
    BY DEF Render
  <2> QED
    BY <2>1, HoverIsProgram DEF TurnOK
<1>5. (g_mouse \in [pos : Pos, left : BOOLEAN])'
  BY PointAssumption DEF Render, Pos
<1>6. prev_btn' = btn /\ prev_btn' \in BOOLEAN
  BY DEF Render, btn, TurnOK
<1> QED
  BY <1>1, <1>2, <1>3, <1>4, <1>5, <1>6 DEF TurnOK

\* A turn without a click only shows the windows.
LEMMA QuietRender ==
  ASSUME NEW wins, NEW menu, ~click, Render(wins, menu)
  PROVE  g_wins' = wins
<1>1. ThroughApp(wins) = wins
  BY DEF ThroughApp
<1>2. ThroughTaskbar(wins) = wins
  BY DEF ThroughTaskbar
<1> QED
  BY <1>1, <1>2 DEF Render

\* A click in a window is in none of the task bar's buttons.
LEMMA WindowRender ==
  ASSUME NEW wins, NEW menu, Render(wins, menu),
         NEW win \in Window, OnScreen(win), pointer \in Pos, hit_win(win, pointer)
  PROVE  g_wins' = ThroughApp(wins)
<1>1. \A i : ~hit_task(i, pointer)
  BY WindowsAboveTaskbar
<1>2. ThroughTaskbar(ThroughApp(wins)) = ThroughApp(wins)
  BY <1>1 DEF ThroughTaskbar
<1> QED
  BY <1>2 DEF Render

LEMMA LeastExists ==
  ASSUME NEW S, S \subseteq Nat, S # {}
  PROVE  \E x \in S : \A y \in S : x <= y
<1> DEFINE R == {ss \in Nat \X Nat : ss[1] < ss[2]}
<1>1. IsWellFoundedOn(R, Nat)
  BY NatLessThanWellFounded DEF OpToRel
<1>2. PICK x \in S : \A y \in S : <<y, x>> \notin R
  <2> HIDE DEF R
  <2> QED
    BY <1>1, WFMin
<1>3. ASSUME NEW y \in S PROVE x <= y
  <2>1. x \in Nat /\ y \in Nat /\ <<y, x>> \in Nat \X Nat
    OBVIOUS
  <2>2. ~(<<y, x>>[1] < <<y, x>>[2])
    BY <1>2, <2>1
  <2> QED
    BY <2>1, <2>2
<1> QED
  BY <1>3

LEMMA TopmostHit ==
  ASSUME NEW wins, Stack(wins), NEW p, Hit(wins, p) # {}
  PROVE  Topmost(wins, p) \in Hit(wins, p)
<1> DEFINE hits == Hit(wins, p)
           n == Len(wins)
           S == {n - i : i \in hits}
<1>1. n \in Nat /\ hits \subseteq 1..n /\ hits # {}
  BY DEF Stack, Hit
<1> HIDE DEF hits, n
<1>2. S \subseteq Nat /\ S # {}
  <2>1. \A i \in hits : n - i \in Nat
    <3> SUFFICES ASSUME NEW i \in hits PROVE n - i \in Nat
      OBVIOUS
    <3>1. i \in Int /\ i <= n
      BY <1>1
    <3> QED
      BY <3>1, <1>1
  <2>2. PICK i \in hits : TRUE
    BY <1>1
  <2>3. n - i \in S
    BY <2>2
  <2> QED
    BY <2>1, <2>3
<1>3. PICK x \in S : \A y \in S : x <= y
  <2> HIDE DEF S
  <2> QED
    BY <1>2, LeastExists
<1>4. PICK i \in hits : x = n - i
  OBVIOUS
<1>5. ASSUME NEW j \in hits PROVE j <= i
  <2>1. n - i <= n - j
    BY <1>3, <1>4
  <2>2. n \in Int /\ i \in Int /\ j \in Int
    BY <1>1
  <2> QED
    BY <2>1, <2>2
<1> QED
  BY <1>5 DEF hits, Topmost

------------------------------------------------------------------------------
\* The invariant.

LEMMA InitKeeps == Init => IInv
<1> SUFFICES ASSUME Init PROVE IInv
  OBVIOUS
<1>1. Stack(g_wins)
  <2>1. Stack(<<>>)
    <3>1. <<>> \in Seq(Window) /\ Len(<<>>) = 0 /\ DOMAIN <<>> = {}
      OBVIOUS
    <3> QED
      BY <3>1, LimitAssumption DEF Stack, Unique
  <2> QED
    BY <2>1, OpenStack, AppAssumption DEF Init
<1>2. Len(g_wins) = 1
  <2>1. g_wins = Append(<<>>, Place(TERMINAL, 0))
    <3>1. Len(<<>>) = 0 /\ DOMAIN <<>> = {}
      OBVIOUS
    <3> QED
      BY <3>1, LimitAssumption DEF Init, open_window
  <2>2. Place(TERMINAL, 0) \in Window
    BY PlaceOnScreen, AppAssumption
  <2>3. <<>> \in Seq(Window) /\ Len(<<>>) = 0
    OBVIOUS
  <2> QED
    BY <2>1, <2>2, <2>3, AppendProperties
<1>3. TurnOK
  <2>1. g_front = Len(g_wins)
    BY <1>2 DEF Init
  <2>2. g_startmenu \in BOOLEAN /\ prev_btn \in BOOLEAN
    BY DEF Init
  <2>3. g_menu_hover = 0
    BY DEF Init
  <2>4. g_mouse \in [pos : Pos, left : BOOLEAN]
    BY DEF Init, Pos
  <2> QED
    BY <1>1, <2>1, <2>2, <2>3, <2>4 DEF TurnOK
<1>4. DragOK
  <2>1. ~dragging /\ dragging \in BOOLEAN /\ drag = NoDrag
    BY DEF Init
  <2> QED
    BY <2>1, NoDragFacts DEF DragOK, DragHoldsFront
<1>5. IconsOK
  BY DEF Init, IconsOK, LONG_AGO
<1> QED
  BY <1>3, <1>4, <1>5, Parts

\* What every turn may take from the one before.
LEMMA TurnFacts ==
  ASSUME TurnOK, DragOK
  PROVE  /\ pointer \in Pos /\ btn \in BOOLEAN /\ prev_btn \in BOOLEAN
         /\ Stack(Dragged) /\ Len(Dragged) = Len(g_wins)
         /\ \A i \in DOMAIN g_wins : Dragged[i].app = g_wins[i].app
         /\ click => ~dragging /\ Dragged = g_wins
<1>1. pointer \in Pos /\ btn \in BOOLEAN /\ prev_btn \in BOOLEAN
  BY DEF TurnOK, pointer, btn
<1>2. drag.ox \in Int /\ drag.oy \in Int
  BY DEF DragOK
<1>3. /\ Stack(Dragged) /\ Len(Dragged) = Len(g_wins)
      /\ \A i \in DOMAIN g_wins : Dragged[i].app = g_wins[i].app
  BY <1>1, <1>2, DragStack DEF TurnOK
<1>4. click => ~dragging /\ Dragged = g_wins
  BY DEF click, DragOK, Dragged
<1> QED
  BY <1>1, <1>3, <1>4

LEMMA WaitKeeps ==
  ASSUME IconsOK, NEW t \in FrameTicks, Wait(t)
  PROVE  since' \in 0..LONG_AGO
<1>1. since \in 0..96 /\ t \in Nat
  BY TicksAssumption DEF IconsOK, LONG_AGO
<1>2. since' = IF since + t < 96 THEN since + t ELSE 96
  BY DEF Wait, LONG_AGO
<1> QED
  BY <1>1, <1>2 DEF LONG_AGO

\* A click that grips nothing leaves no drag, and none was.
LEMMA NoGrip ==
  ASSUME TurnOK, DragOK, click, UNCHANGED dragVars
  PROVE  DragOK'
<1>1. ~dragging
  BY TurnFacts
<1>2. dragging' = dragging /\ drag' = drag
  BY DEF dragVars
<1> QED
  BY <1>1, <1>2 DEF DragOK, DragHoldsFront

LEMMA NoClickKeeps ==
  ASSUME TurnOK, DragOK, IconsOK, NoClick
  PROVE  TurnOK' /\ DragOK' /\ IconsOK'
<1>1. TurnOK' /\ prev_btn' = btn /\ g_wins' = Dragged
  <2>1. Render(Dragged, g_startmenu) /\ ~click /\ g_startmenu \in BOOLEAN
    BY DEF NoClick, TurnOK
  <2> QED
    BY <2>1, TurnFacts, RenderTurn, QuietRender
<1>2. DragOK'
  <2>1. CASE release
    <3>1. dragging' = FALSE /\ drag' = NoDrag
      BY <2>1 DEF NoClick
    <3>2. ~dragging' /\ dragging' \in BOOLEAN
      BY <3>1
    <3>3. drag' \in [idx : 0..MAX_WINDOWS, ox : Int, oy : Int]
      BY <3>1, NoDragFacts
    <3>4. DragHoldsFront'
      BY <3>2 DEF DragHoldsFront
    <3> QED
      BY <3>2, <3>3, <3>4 DEF DragOK
  <2>2. CASE ~release
    <3>1. dragging' = dragging /\ drag' = drag
      BY <2>2 DEF NoClick, dragVars
    <3>2. CASE ~dragging
      BY <3>1, <3>2 DEF DragOK, DragHoldsFront
    <3>3. CASE dragging
      <4>1. prev_btn' /\ ~click'
        BY <1>1, <2>2, <3>3, TurnFacts DEF DragOK, release, click
      <4>2. /\ drag.idx = g_front /\ drag.idx \in DOMAIN g_wins
            /\ drag.ox \in 0..W(g_wins[drag.idx]) - 1
            /\ drag.oy \in BORDER_W..BORDER_W + TITLE_BAR_H - 1
        BY <3>3 DEF DragOK, DragHoldsFront
      <4>3. g_front' = g_front /\ DOMAIN g_wins' = DOMAIN g_wins
        <5>1. /\ g_front = Len(g_wins) /\ g_front' = Len(g_wins')
              /\ Stack(g_wins) /\ Stack(Dragged)
              /\ Len(Dragged) = Len(g_wins)
          BY <1>1, TurnFacts DEF TurnOK
        <5> QED
          BY <1>1, <5>1 DEF Stack
      <4>4. W(g_wins'[drag.idx]) = W(g_wins[drag.idx])
        BY <1>1, <4>2, TurnFacts DEF W
      <4>5. DragHoldsFront'
        BY <3>1, <4>1, <4>2, <4>3, <4>4 DEF DragHoldsFront, W
      <4> QED
        BY <3>1, <4>1, <4>5 DEF DragOK
    <3> QED
      BY <3>2, <3>3
  <2> QED
    BY <2>1, <2>2
<1>3. IconsOK'
  BY WaitKeeps DEF NoClick, IconsOK
<1> QED
  BY <1>1, <1>2, <1>3

LEMMA ClickMenuKeeps ==
  ASSUME TurnOK, DragOK, IconsOK, ClickMenu
  PROVE  TurnOK' /\ DragOK' /\ IconsOK'
<1>1. TurnOK'
  <2>1. CASE g_menu_hover # 0
    <3>1. Menu[g_menu_hover] \in App
      BY <2>1, MenuAssumption DEF TurnOK
    <3>2. Stack(open_window(Dragged, Menu[g_menu_hover]))
      BY <3>1, TurnFacts, OpenStack
    <3>3. Render(open_window(Dragged, Menu[g_menu_hover]), FALSE)
      BY <2>1 DEF ClickMenu
    <3> DEFINE no == FALSE
               wins == open_window(Dragged, Menu[g_menu_hover])
    <3>4. Render(wins, no) /\ no \in BOOLEAN /\ Stack(wins)
      BY <3>2, <3>3
    <3> HIDE DEF no, wins
    <3> QED
      BY <3>4, RenderTurn
  <2>2. CASE g_menu_hover = 0
    <3> DEFINE m == hit_menu(pointer) \/ hit_start(pointer)
    <3>1. Render(Dragged, m) /\ m \in BOOLEAN
      BY <2>2 DEF ClickMenu
    <3> HIDE DEF m
    <3> QED
      BY <3>1, TurnFacts, RenderTurn
  <2> QED
    BY <2>1, <2>2
<1>2. DragOK'
  BY NoGrip DEF ClickMenu
<1>3. IconsOK'
  BY WaitKeeps DEF ClickMenu, IconsOK
<1> QED
  BY <1>1, <1>2, <1>3

\* The window a click picks, and the stack with it in front.
LEMMA Picked ==
  ASSUME TurnOK, DragOK, click, Hit(Dragged, pointer) # {}, NEW i, i = Topmost(Dragged, pointer),
         NEW wins, wins = bring_front(Dragged, i), NEW top, top = Last(wins)
  PROVE  /\ i \in DOMAIN g_wins /\ wins = bring_front(g_wins, i)
         /\ top = g_wins[i] /\ top \in Window /\ OnScreen(top)
         /\ pointer \in Pos /\ hit_win(top, pointer)
         /\ Stack(wins) /\ wins \in Seq(Window) /\ wins # <<>> /\ Len(wins) \in DOMAIN wins
         /\ wins[Len(wins)] = top
         /\ close_window(wins, Len(wins)) = RemoveAt(g_wins, i)
         /\ Front(wins) = RemoveAt(g_wins, i)
         /\ Stack(RemoveAt(g_wins, i))
<1>1. Stack(g_wins) /\ Dragged = g_wins /\ pointer \in Pos
  BY TurnFacts DEF TurnOK
<1>2. i \in Hit(g_wins, pointer)
  BY <1>1, TopmostHit
<1>3. i \in DOMAIN g_wins /\ hit_win(g_wins[i], pointer)
  BY <1>2 DEF Hit
<1>4. Stack(wins) /\ top = g_wins[i] /\ top \in Window /\ OnScreen(top)
  BY <1>1, <1>3, RaiseStack, StackFacts
<1>5. Stack(RemoveAt(g_wins, i))
  BY <1>1, <1>3, CloseStack
<1> DEFINE rest == RemoveAt(g_wins, i)
<1>6. wins = Append(rest, top) /\ rest \in Seq(Window)
  BY <1>1, <1>4, <1>5 DEF bring_front, Stack
<1> HIDE DEF rest
<1>7. /\ wins \in Seq(Window) /\ wins # <<>> /\ Len(wins) = Len(rest) + 1
      /\ wins[Len(rest) + 1] = top
      /\ RemoveAt(wins, Len(wins)) = rest /\ Front(wins) = rest
  BY <1>4, <1>6, AppendedProperties
<1>8. Len(wins) \in DOMAIN wins
  BY <1>4, <1>7, FrontCloses
<1> QED
  BY <1>1, <1>3, <1>4, <1>5, <1>7, <1>8 DEF rest, close_window

LEMMA ClickWindowKeeps ==
  ASSUME TurnOK, DragOK, IconsOK, ClickWindow
  PROVE  TurnOK' /\ DragOK' /\ IconsOK'
<1> DEFINE i == Topmost(Dragged, pointer)
           wins == bring_front(Dragged, i)
           top == Last(wins)
<1>1. /\ click /\ Hit(Dragged, pointer) # {}
      /\ IF hit_close(top, pointer)
         THEN Render(close_window(wins, Len(wins)), g_startmenu) /\ UNCHANGED dragVars
         ELSE /\ Render(wins, g_startmenu)
              /\ IF hit_title(top, pointer)
                 THEN /\ dragging' = TRUE
                      /\ drag' = [idx |-> Len(wins), ox |-> pointer.x - top.x, oy |-> pointer.y - top.y]
                 ELSE UNCHANGED dragVars
  BY DEF ClickWindow
<1>2. g_startmenu \in BOOLEAN
  BY DEF TurnOK
<1>3. /\ i \in DOMAIN g_wins /\ top \in Window /\ OnScreen(top)
      /\ pointer \in Pos /\ hit_win(top, pointer)
      /\ Stack(wins) /\ wins # <<>> /\ Len(wins) \in DOMAIN wins /\ wins[Len(wins)] = top
      /\ close_window(wins, Len(wins)) = RemoveAt(g_wins, i)
      /\ Stack(RemoveAt(g_wins, i))
  BY <1>1, Picked
<1>4. IconsOK'
  BY WaitKeeps DEF ClickWindow, IconsOK
<1> HIDE DEF i, wins, top
<1>5. CASE hit_close(top, pointer)
  <2>1. TurnOK'
    BY <1>1, <1>2, <1>3, <1>5, RenderTurn
  <2> QED
    BY <1>1, <1>4, <1>5, <2>1, NoGrip
<1>6. CASE ~hit_close(top, pointer)
  <2>1. Render(wins, g_startmenu)
    BY <1>1, <1>6
  <2>2. TurnOK' /\ prev_btn' = btn
    BY <1>2, <1>3, <2>1, RenderTurn
  <2>3. CASE ~hit_title(top, pointer)
    BY <1>1, <1>4, <1>6, <2>2, <2>3, NoGrip
  <2>4. CASE hit_title(top, pointer)
    <3>1. dragging' = TRUE /\ drag' = [idx |-> Len(wins), ox |-> pointer.x - top.x, oy |-> pointer.y - top.y]
      BY <1>1, <1>6, <2>4
    <3>2. /\ ~hit_ok(top, pointer)
          /\ pointer.x - top.x \in 0..W(top) - 1
          /\ pointer.y - top.y \in BORDER_W..BORDER_W + TITLE_BAR_H - 1
      BY <1>3, <2>4, Grip
    <3>3. g_wins' = wins
      <4>1. g_wins' = ThroughApp(wins)
        BY <1>3, <2>1, WindowRender
      <4>2. Last(wins) = top
        BY DEF top
      <4> QED
        BY <3>2, <4>1, <4>2 DEF ThroughApp
    <3>4. prev_btn' /\ ~click'
      BY <1>1, <2>2 DEF click
    <3>5. g_front' = Len(wins)
      BY <2>2, <3>3 DEF TurnOK
    <3>6. Len(wins) \in 0..MAX_WINDOWS /\ pointer.x - top.x \in Int /\ pointer.y - top.y \in Int
      <4>1. Len(wins) \in Nat /\ Len(wins) <= MAX_WINDOWS
        BY <1>3 DEF Stack
      <4>2. pointer.x \in Int /\ pointer.y \in Int /\ top.x \in Int /\ top.y \in Int
        BY <1>3, PlaneFacts
      <4> QED
        BY <4>1, <4>2, LimitAssumption
    <3>7. DragHoldsFront'
      BY <1>3, <3>1, <3>2, <3>3, <3>4, <3>5 DEF DragHoldsFront, W
    <3>8. DragOK'
      BY <3>1, <3>4, <3>6, <3>7 DEF DragOK
    <3> QED
      BY <1>4, <2>2, <3>8
  <2> QED
    BY <2>3, <2>4
<1> QED
  BY <1>5, <1>6

LEMMA ClickIconKeeps ==
  ASSUME TurnOK, DragOK, IconsOK, ClickIcon
  PROVE  TurnOK' /\ DragOK' /\ IconsOK'
<1>1. PICK i \in DOMAIN Icons, t \in FrameTicks :
        /\ click
        /\ IF g_last_click_icon = i /\ since < DBLCLICK_MS
           THEN /\ Render(open_window(Dragged, Icons[i].app), g_startmenu)
                /\ selected' = {} /\ g_last_click_icon' = 0
                /\ Wait(t)
           ELSE /\ Render(Dragged, g_startmenu)
                /\ selected' = {i} /\ g_last_click_icon' = i
                /\ since' = IF t < LONG_AGO THEN t ELSE LONG_AGO
        /\ UNCHANGED dragVars
  BY DEF ClickIcon
<1>2. DragOK'
  BY <1>1, NoGrip
<1>3. g_startmenu \in BOOLEAN /\ Stack(Dragged)
  BY TurnFacts DEF TurnOK
<1>4. CASE g_last_click_icon = i /\ since < DBLCLICK_MS
  <2>1. Icons[i].app \in App
    <3> DEFINE R == [x : Int, y : Int, app : App]
    <3>1. Icons \in Seq(R) /\ i \in DOMAIN Icons
      BY MenuAssumption
    <3> HIDE DEF R
    <3>2. Icons[i] \in R
      BY <3>1, SequenceFacts
    <3> QED
      BY <3>2 DEF R
  <2>2. Stack(open_window(Dragged, Icons[i].app))
    BY <1>3, <2>1, OpenStack
  <2>3. TurnOK'
    BY <1>1, <1>3, <1>4, <2>2, RenderTurn
  <2>4. IconsOK'
    BY <1>1, <1>4, WaitKeeps DEF IconsOK
  <2> QED
    BY <1>2, <2>3, <2>4
<1>5. CASE ~(g_last_click_icon = i /\ since < DBLCLICK_MS)
  <2>1. TurnOK'
    BY <1>1, <1>3, <1>5, RenderTurn
  <2>2. t \in Nat
    BY TicksAssumption
  <2>3. since' \in 0..LONG_AGO
    BY <1>1, <1>5, <2>2 DEF LONG_AGO
  <2>4. IconsOK'
    BY <1>1, <1>5, <2>3 DEF IconsOK
  <2> QED
    BY <1>2, <2>1, <2>4
<1> QED
  BY <1>4, <1>5

LEMMA ClickNothingKeeps ==
  ASSUME TurnOK, DragOK, IconsOK, ClickNothing
  PROVE  TurnOK' /\ DragOK' /\ IconsOK'
<1>1. click /\ Render(Dragged, g_startmenu) /\ UNCHANGED dragVars /\ g_startmenu \in BOOLEAN
  BY DEF ClickNothing, TurnOK
<1>2. TurnOK' /\ DragOK'
  BY <1>1, TurnFacts, RenderTurn, NoGrip
<1>3. IconsOK'
  BY WaitKeeps DEF ClickNothing, IconsOK
<1> QED
  BY <1>2, <1>3

LEMMA PartsNext == (TurnOK /\ DragOK /\ IconsOK)' => IInv'
<1>1. TurnOK /\ DragOK /\ IconsOK => IInv
  BY Parts
<1> QED
  BY <1>1, PTL

LEMMA StepKeeps == IInv /\ [Next]_vars => IInv'
<1> SUFFICES ASSUME IInv, [Next]_vars PROVE IInv'
  OBVIOUS
<1>1. TurnOK /\ DragOK /\ IconsOK
  BY Parts
<1>2. TurnOK' /\ DragOK' /\ IconsOK'
  <2>1. CASE NoClick
    BY <1>1, <2>1, NoClickKeeps
  <2>2. CASE ClickMenu
    BY <1>1, <2>2, ClickMenuKeeps
  <2>3. CASE ClickWindow
    BY <1>1, <2>3, ClickWindowKeeps
  <2>4. CASE ClickIcon
    BY <1>1, <2>4, ClickIconKeeps
  <2>5. CASE ClickNothing
    BY <1>1, <2>5, ClickNothingKeeps
  <2>6. CASE UNCHANGED vars
    <3>1. TurnOK'
      BY <1>1, <2>6 DEF vars, stackVars, menuVars, TurnOK, Stack, OnScreen, Unique, W, H
    <3>2. DragOK'
      BY <1>1, <2>6 DEF vars, stackVars, dragVars, DragOK, DragHoldsFront, click, btn, W
    <3>3. IconsOK'
      BY <1>1, <2>6 DEF vars, iconVars, IconsOK
    <3> QED
      BY <3>1, <3>2, <3>3
  <2> QED
    BY <2>1, <2>2, <2>3, <2>4, <2>5, <2>6 DEF Next
<1> QED
  BY <1>2, PartsNext

LEMMA InvariantHolds == Spec => []IInv
  BY InitKeeps, StepKeeps, PTL DEF Spec

\* gui_desktop.c:422-541, 2318-2326.  Whatever turns the desktop takes, its
\* windows lie whole above the task bar, as many as there is room for, no
\* program has two of them, and the active one is the topmost.
THEOREM WindowsStayOnScreen == Spec => []WindowsOnScreen
  BY InvariantHolds, PTL DEF IInv

\* gui_desktop.c:2318, 2327, 2357.  While a window is dragged the index kept at
\* the grip is the active window's, and no click can come.
THEOREM DragsHoldTheFront == Spec => []DragHoldsFront
  BY InvariantHolds, PTL DEF IInv

------------------------------------------------------------------------------
\* What a click does to the other windows.

LEMMA OthersOf ==
  ASSUME NEW wins, Stack(wins), NEW k \in DOMAIN wins
  PROVE  Others(wins, wins[k].app) = RemoveAt(wins, k)
<1> DEFINE a == wins[k].app
<1>1. \A i \in DOMAIN wins : wins[i].app = a <=> i = k
  BY DEF Stack, Unique
<1>2. (CHOOSE i \in DOMAIN wins : wins[i].app = a) = k
  BY <1>1
<1> QED
  BY <1>1, <1>2 DEF Others

LEMMA OthersOfNone ==
  ASSUME NEW wins, NEW app, \A i \in DOMAIN wins : wins[i].app # app
  PROVE  Others(wins, app) = wins
  BY DEF Others

LEMMA ClickStep ==
  ASSUME IInv, [Next]_vars, click, ~g_startmenu, Hit(g_wins, pointer) # {},
         NEW top, top = g_wins[Topmost(g_wins, pointer)],
         NEW before, before = Others(g_wins, top.app)
  PROVE  \/ Others(g_wins', top.app) = before
         \/ /\ hit_close(top, pointer)
            /\ hit_ok(Last(before), pointer)
            /\ g_wins' = Front(before)
<1>1. TurnOK /\ DragOK /\ IconsOK
  BY Parts
<1>2. Dragged = g_wins /\ Stack(g_wins)
  BY <1>1, TurnFacts DEF TurnOK
<1>3. CASE UNCHANGED vars
  BY <1>3 DEF vars, stackVars
<1>4. CASE ClickWindow
  <2> DEFINE i == Topmost(Dragged, pointer)
             wins == bring_front(Dragged, i)
  <2>1. top = g_wins[i]
    BY <1>2
  <2>2. /\ i \in DOMAIN g_wins /\ Last(wins) = top
        /\ top \in Window /\ OnScreen(top) /\ pointer \in Pos /\ hit_win(top, pointer)
        /\ Stack(wins) /\ wins # <<>> /\ Len(wins) \in DOMAIN wins /\ wins[Len(wins)] = top
        /\ close_window(wins, Len(wins)) = RemoveAt(g_wins, i)
        /\ Front(wins) = RemoveAt(g_wins, i)
    BY <1>1, <1>2, <2>1, Picked
  <2>3. IF hit_close(top, pointer)
        THEN Render(close_window(wins, Len(wins)), g_startmenu)
        ELSE Render(wins, g_startmenu)
    BY <1>4, <2>2 DEF ClickWindow
  <2> HIDE DEF i, wins
  <2>4. before = RemoveAt(g_wins, i)
    BY <1>2, <2>1, <2>2, OthersOf
  <2>5. Others(before, top.app) = before
    <3>1. \A j \in DOMAIN before : before[j].app # top.app
      BY <1>2, <2>1, <2>2, <2>4, CloseStack
    <3> QED
      BY <3>1, OthersOfNone
  <2>6. Others(wins, top.app) = before
    <3>1. Others(wins, top.app) = RemoveAt(wins, Len(wins))
      BY <2>2, OthersOf
    <3> QED
      BY <2>2, <2>4, <3>1 DEF close_window
  <2>7. CASE hit_close(top, pointer)
    <3>1. g_wins' = ThroughApp(before)
      BY <2>2, <2>3, <2>4, <2>7, WindowRender
    <3> QED
      BY <2>5, <2>7, <3>1 DEF ThroughApp
  <2>8. CASE ~hit_close(top, pointer)
    <3>1. g_wins' = ThroughApp(wins)
      BY <2>2, <2>3, <2>8, WindowRender
    <3>2. g_wins' = before \/ g_wins' = wins
      BY <2>2, <2>4, <3>1 DEF ThroughApp
    <3> QED
      BY <2>5, <2>6, <3>2
  <2> QED
    BY <2>7, <2>8
<1> QED
  BY <1>2, <1>3, <1>4 DEF Next, NoClick, ClickMenu, ClickIcon, ClickNothing

\* gui_desktop.c:2346-2362, 2399, 2403.  With the menu closed a click on a
\* window is the topmost window's under the pointer: the windows of all other
\* programs stay open, in their places and in their order, except that behind
\* an [x] the click goes on to the button of the window that becomes active.
THEOREM ClicksHitTheTopmost == Spec => ClickHitsTopmost
<1>1. IInv /\ [Next]_vars =>
        [click /\ ~g_startmenu /\ Hit(g_wins, pointer) # {} =>
           LET top == g_wins[Topmost(g_wins, pointer)]
               before == Others(g_wins, top.app)
           IN  \/ Others(g_wins', top.app) = before
               \/ /\ hit_close(top, pointer)
                  /\ hit_ok(Last(before), pointer)
                  /\ g_wins' = Front(before)]_vars
  BY ClickStep
<1> QED
  BY <1>1, InvariantHolds, PTL DEF Spec, ClickHitsTopmost

------------------------------------------------------------------------------
(***************************************************************************)
(* For every ring size, screen, set of movements and buttons, and any      *)
(* number of packets and lost bytes: the variables keep their types, the   *)
(* pointer stays on the screen, the ring is the queue of KeyFifo, and the  *)
(* driver finds back to the packets of the mouse.                          *)
(*                                                                         *)
(* Framing is about the moment when no byte is under way.  FrameInv says   *)
(* in between how the bytes on the line fit the driver's index: it stands  *)
(* at the start of a packet, or those that are left when it has completed  *)
(* the packet it is in cannot be taken for a first byte.                   *)
(***************************************************************************)

------------------------------------------------------------------------------
\* Bytes.

LEMMA ByteRange ==
  /\ Byte \subseteq 0..255
  /\ \A d \in Delta : d % 256 \in Byte
  /\ \A h \in Held, o \in BOOLEAN : FlagsByte(h, o) \in Byte
<1>1. \A d \in Delta : d % 256 \in 0..255
  BY DeltaAssumption
<1>2. \A h \in Held, o \in BOOLEAN : FlagsByte(h, o) \in 0..255
  BY DEF FlagsByte
<1> QED
  BY <1>1, <1>2 DEF Byte

LEMMA FlagsBits ==
  ASSUME NEW h \in Held, NEW o \in BOOLEAN
  PROVE  LET f == FlagsByte(h, o)
         IN  /\ HasBit(f, 8) /\ ~HasBit(f, 128)
             /\ HasBit(f, 64) <=> o
             /\ ButtonsOf(f) = h
<1> DEFINE f == FlagsByte(h, o)
           l == IF "left" \in h THEN 1 ELSE 0
           r == IF "right" \in h THEN 2 ELSE 0
           v == IF o THEN 64 ELSE 0
<1>1. f = 8 + l + r + v /\ l \in {0, 1} /\ r \in {0, 2} /\ v \in {0, 64}
  BY DEF FlagsByte
<1>2. /\ l = 1 <=> "left" \in h
      /\ r = 2 <=> "right" \in h
      /\ v = 64 <=> o
  OBVIOUS
<1> HIDE DEF f, l, r, v
<1>3. HasBit(f, 8) /\ ~HasBit(f, 128) /\ (HasBit(f, 64) <=> v = 64)
  BY <1>1 DEF HasBit
<1>4. (HasBit(f, 1) <=> l = 1) /\ (HasBit(f, 2) <=> r = 2)
  BY <1>1 DEF HasBit
<1>5. ButtonsOf(f) = h
  <2>1. \A n \in Button : n \in ButtonsOf(f) <=> n \in h
    BY <1>2, <1>4 DEF ButtonsOf, Button
  <2>2. ButtonsOf(f) \subseteq Button /\ h \subseteq Button
    BY HeldAssumption DEF ButtonsOf, Button
  <2> QED
    BY <2>1, <2>2
<1> QED
  BY <1>2, <1>3, <1>5 DEF f

LEMMA SignedRange ==
  ASSUME NEW b \in 0..255
  PROVE  Signed(b) \in -128..127
BY DEF Signed

LEMMA EventOfBytes ==
  ASSUME NEW b \in Byte \cup {0}, NEW c \in Byte, NEW flags
  PROVE  [dx |-> Signed(b), dy |-> -Signed(c), btn |-> ButtonsOf(flags)] \in Event
<1>1. Signed(b) \in {0} \cup {Signed(a) : a \in Byte}
  BY DEF Signed
<1>2. -Signed(c) \in {0} \cup {-Signed(a) : a \in Byte}
  OBVIOUS
<1>3. ButtonsOf(flags) \in SUBSET Button
  BY DEF ButtonsOf
<1> QED
  BY <1>1, <1>2, <1>3 DEF Event

LEMMA ClampRange ==
  ASSUME NEW v \in Int, NEW size \in Nat \ {0}
  PROVE  Clamp(v, size) \in 0..size - 1
BY DEF Clamp

------------------------------------------------------------------------------
\* Types.

LEMMA NextSlotValue ==
  ASSUME NEW i \in 0..MOUSE_QUEUE_SIZE - 1
  PROVE  /\ NextSlot(i) = IF i + 1 = MOUSE_QUEUE_SIZE THEN 0 ELSE i + 1
         /\ NextSlot(i) \in 0..MOUSE_QUEUE_SIZE - 1
BY QueueAssumption DEF NextSlot

LEMMA InitType ==
  ASSUME MouseInit
  PROVE  MouseTypeOK
<1>1. EmptyEvent \in Event
  BY DEF EmptyEvent, Event
<1>2. g_screen_w \div 2 \in 0..g_screen_w - 1 /\ g_screen_h \div 2 \in 0..g_screen_h - 1
  BY ScreenAssumption
<1> QED
  BY <1>1, <1>2, QueueAssumption, ScreenAssumption, BoundsAssumption DEF MouseInit, MouseTypeOK

LEMMA TailOfWire ==
  ASSUME MouseTypeOK, wire # <<>>
  PROVE  /\ Head(wire) \in Byte
         /\ Tail(wire) \in Seq(Byte)
         /\ Len(wire) \in 1..3 /\ Len(Tail(wire)) = Len(wire) - 1
         /\ \A i \in 1..Len(Tail(wire)) : Tail(wire)[i] = wire[i + 1]
         /\ Head(wire) = wire[1]
<1>1. wire \in Seq(Byte) /\ Len(wire) <= 3
  BY DEF MouseTypeOK
<1>2. Len(wire) \in 1..3
  <2>1. Len(wire) \in Nat
    BY <1>1
  <2>2. Len(wire) # 0
    BY <1>1, EmptySeq
  <2>3. Len(wire) <= 3
    BY <1>1
  <2>4. \A n \in Nat : n # 0 /\ n <= 3 => n \in 1..3
    OBVIOUS
  <2> QED
    BY <2>1, <2>2, <2>3, <2>4
<1>3. Head(wire) \in Byte /\ Tail(wire) \in Seq(Byte) /\ Head(wire) = wire[1]
  BY <1>1
<1>4. /\ Len(Tail(wire)) = Len(wire) - 1
      /\ \A i \in 1..Len(Tail(wire)) : Tail(wire)[i] = wire[i + 1]
  BY <1>1
<1> QED
  BY <1>2, <1>3, <1>4

LEMMA CountersType ==
  ASSUME MouseTypeOK
  PROVE  packets \in 0..MAX_PACKETS /\ lost \in 0..MAX_LOST /\ g_byte_idx \in 0..2
BY DEF MouseTypeOK

LEMMA EnqueueType ==
  ASSUME MouseTypeOK, NEW e \in Event, Enqueue(e)
  PROVE  /\ g_queue' \in [0..MOUSE_QUEUE_SIZE - 1 -> Event]
         /\ {g_q_head', g_q_tail'} \subseteq 0..MOUSE_QUEUE_SIZE - 1
<1>1. g_q_tail \in 0..MOUSE_QUEUE_SIZE - 1
  BY DEF MouseTypeOK
<1> QED
  BY <1>1, NextSlotValue DEF MouseTypeOK, Enqueue, ringVars

LEMMA NextType == MouseTypeOK /\ [MouseNext]_mouseVars => MouseTypeOK'
<1> SUFFICES ASSUME MouseTypeOK, [MouseNext]_mouseVars PROVE MouseTypeOK'
  OBVIOUS
<1>1. ASSUME NEW dx \in Delta, NEW dy \in Delta, NEW held \in Held, NEW overflow \in BOOLEAN,
             Send(dx, dy, held, overflow)
      PROVE  MouseTypeOK'
  <2> DEFINE p == <<FlagsByte(held, overflow), dx % 256, dy % 256>>
  <2>1. p \in Seq(Byte) /\ Len(p) = 3
    BY ByteRange
  <2>2. wire' = p /\ packets' = packets + 1 /\ packets < MAX_PACKETS
    BY <1>1 DEF Send
  <2>6. /\ aligned' = (aligned \/ Unmistakable(p))
        /\ reported' = IF overflow THEN reported ELSE held
    BY <1>1 DEF Send
  <2>3. UNCHANGED <<lost, g_packet, g_byte_idx, stateVars, ringVars, offered, syncVars>>
    BY <1>1 DEF Send
  <2> HIDE DEF p
  <2>4. wire' \in Seq(Byte) /\ Len(wire') <= 3 /\ packets' \in 0..MAX_PACKETS
    <3>1. packets \in 0..MAX_PACKETS
      BY CountersType
    <3>2. packets' \in 0..MAX_PACKETS
      BY <2>2, <3>1, BoundsAssumption
    <3>3. wire' \in Seq(Byte) /\ Len(wire') = 3
      BY <2>1, <2>2
    <3> QED
      BY <3>2, <3>3
  <2>5. aligned' \in BOOLEAN /\ reported' \subseteq Button
    BY <2>6, HeldAssumption DEF MouseTypeOK, Button
  <2> QED
    BY <2>3, <2>4, <2>5 DEF MouseTypeOK, stateVars, ringVars, syncVars
<1>2. CASE LoseByte
  <2>1. wire' \in Seq(Byte) /\ Len(wire') <= 3
    BY <1>2, TailOfWire DEF LoseByte
  <2>2. lost' \in 0..MAX_LOST /\ aligned' \in BOOLEAN
    <3>1. lost < MAX_LOST /\ lost' = lost + 1
      BY <1>2 DEF LoseByte
    <3>2. lost \in 0..MAX_LOST
      BY CountersType
    <3>3. lost' \in 0..MAX_LOST
      BY <3>1, <3>2, BoundsAssumption
    <3>4. aligned' \in BOOLEAN
      BY <1>2 DEF LoseByte
    <3> QED
      BY <3>3, <3>4
  <2> QED
    BY <1>2, <2>1, <2>2 DEF LoseByte, MouseTypeOK, stateVars, ringVars, syncVars
<1>3. ASSUME TakeByte
      PROVE  /\ wire' \in Seq(Byte) /\ Len(wire') <= 3 /\ Head(wire) \in Byte
             /\ UNCHANGED <<packets, lost, aligned, reported, last, pc, g_sampled>>
  BY <1>3, TailOfWire DEF TakeByte, syncVars
<1>4. CASE SkipByte
  BY <1>3, <1>4 DEF SkipByte, MouseTypeOK, stateVars, ringVars
<1>5. CASE StoreByte
  <2>1. g_packet' \in [0..2 -> Byte \cup {0}] /\ g_byte_idx' \in 0..2
    BY <1>3, <1>5 DEF StoreByte, MouseTypeOK
  <2> QED
    BY <1>3, <1>5, <2>1 DEF StoreByte, MouseTypeOK, stateVars, ringVars
<1>6. CASE UsePacket
  <2> DEFINE flags == g_packet[0]
             dx == Signed(g_packet[1])
             dy == -Signed(Head(wire))
  <2>1. Head(wire) \in Byte /\ g_packet[1] \in Byte \cup {0}
    BY <1>3, <1>6 DEF UsePacket, MouseTypeOK
  <2>2. dx \in Int /\ dy \in Int
    <3>1. Head(wire) \in 0..255 /\ g_packet[1] \in 0..255
      <4>1. Byte \subseteq 0..255 /\ 0 \in 0..255
        BY ByteRange
      <4> QED
        BY <2>1, <4>1
    <3>2. dx \in -128..127 /\ Signed(Head(wire)) \in -128..127
      BY <3>1, SignedRange
    <3> QED
      BY <3>2
  <2>3. g_packet' \in [0..2 -> Byte \cup {0}] /\ g_byte_idx' \in 0..2
    BY <1>6, <2>1 DEF UsePacket, MouseTypeOK
  <2>4. CASE HasBit(flags, 64) \/ HasBit(flags, 128)
    BY <1>3, <1>6, <2>3, <2>4 DEF UsePacket, MouseTypeOK, stateVars, ringVars
  <2>5. CASE ~(HasBit(flags, 64) \/ HasBit(flags, 128))
    <3>1. /\ g_mouse_x' = Clamp(g_mouse_x + dx, g_screen_w)
          /\ g_mouse_y' = Clamp(g_mouse_y + dy, g_screen_h)
          /\ g_btn' = ButtonsOf(flags)
          /\ Enqueue([dx |-> dx, dy |-> dy, btn |-> ButtonsOf(flags)])
          /\ TakeByte
      BY <1>6, <2>5 DEF UsePacket
    <3>2. [dx |-> dx, dy |-> dy, btn |-> ButtonsOf(flags)] \in Event
      BY <2>1, EventOfBytes
    <3> HIDE DEF dx, dy, flags
    <3>3. /\ g_mouse_x' \in 0..g_screen_w - 1 /\ g_mouse_y' \in 0..g_screen_h - 1
          /\ g_btn' \subseteq Button
      <4>1. g_mouse_x + dx \in Int /\ g_mouse_y + dy \in Int
        BY <2>2 DEF MouseTypeOK
      <4>2. g_btn' \subseteq Button
        BY <3>1 DEF ButtonsOf
      <4> QED
        BY <3>1, <4>1, <4>2, ClampRange, ScreenAssumption
    <3>4. /\ g_queue' \in [0..MOUSE_QUEUE_SIZE - 1 -> Event]
          /\ {g_q_head', g_q_tail'} \subseteq 0..MOUSE_QUEUE_SIZE - 1
      BY <3>1, <3>2, EnqueueType
    <3>5. offered' \in {0, 1}
      BY <1>6, <2>5 DEF UsePacket, MouseTypeOK
    <3> QED
      BY <1>3, <2>3, <3>1, <3>3, <3>4, <3>5 DEF MouseTypeOK
  <2> QED
    BY <2>4, <2>5
<1>7. CASE Drain
  <2>1. g_q_head \in 0..MOUSE_QUEUE_SIZE - 1 /\ g_queue[g_q_head] \in Event
    BY DEF MouseTypeOK
  <2>2. last' \in Event /\ g_q_head' \in 0..MOUSE_QUEUE_SIZE - 1
    BY <1>7, <2>1, NextSlotValue DEF Drain
  <2> QED
    BY <1>7, <2>2 DEF Drain, SyncStep, SyncOnly, MouseTypeOK, lineVars, stateVars
<1>8. CASE Drained
  BY <1>8 DEF Drained, SyncStep, SyncOnly, MouseTypeOK, lineVars, stateVars, ringVars
<1>9. CASE Sample
  <2>1. /\ pc' \in {"drain", "x", "y", "buttons"}
        /\ \/ g_sampled' = [g_sampled EXCEPT !.x = g_mouse_x]
           \/ g_sampled' = [g_sampled EXCEPT !.y = g_mouse_y]
           \/ g_sampled' = [g_sampled EXCEPT !.buttons = g_btn]
    BY <1>9 DEF Sample, SyncStep
  <2>2. g_sampled' \in [x : 0..g_screen_w - 1, y : 0..g_screen_h - 1, buttons : SUBSET Button]
    BY <2>1 DEF MouseTypeOK
  <2> QED
    BY <1>9, <2>1, <2>2 DEF Sample, SyncOnly, MouseTypeOK, lineVars, stateVars, ringVars
<1>10. CASE UNCHANGED mouseVars
  BY <1>10 DEF MouseTypeOK, mouseVars, lineVars, stateVars, ringVars, syncVars
<1> QED
  BY <1>1, <1>2, <1>4, <1>5, <1>6, <1>7, <1>8, <1>9, <1>10 DEF MouseNext, Irq12

\* The driver's indices stay in their arrays and the pointer on the screen,
\* whatever bytes arrive and however the handler interrupts sync_mouse.
THEOREM MouseTypeCorrect == MouseSpec => []MouseTypeOK
BY InitType, NextType, PTL DEF MouseSpec

------------------------------------------------------------------------------
\* Framing.

\* Bytes that complete the packet the driver is in.
Owed == IF g_byte_idx = 0 THEN 0 ELSE 3 - g_byte_idx

\* None of the bytes behind those can be taken for a first one.
Refused ==
  /\ Owed <= Len(wire)
  /\ \A i \in 1..Len(wire) : i > Owed => ~HasBit(wire[i], 8)

AtStart == g_byte_idx = 0 /\ Len(wire) = 3 /\ HasBit(wire[1], 8)

\* The packet on the line or in the accumulator, or else the last one, accounts
\* for the buttons that the user holds.
Accounts(flags) ==
  IF HasBit(flags, 64) \/ HasBit(flags, 128) THEN g_btn = reported
  ELSE ButtonsOf(flags) = reported

ButtonsDue ==
  CASE wire = <<>>      -> g_btn = reported
    [] Len(wire) = 3    -> Accounts(wire[1])
    [] OTHER            -> Accounts(g_packet[0])

FrameInv ==
  /\ aligned => Refused \/ AtStart
  /\ lost = 0 => aligned /\ (Len(wire) = Owed \/ AtStart) /\ ButtonsDue

LEMMA InitFrame == MouseInit => FrameInv
<1> SUFFICES ASSUME MouseInit PROVE FrameInv
  OBVIOUS
<1>1. wire = <<>> /\ Len(wire) = 0 /\ g_byte_idx = 0 /\ g_btn = reported /\ aligned
  BY DEF MouseInit
<1>2. Owed = 0 /\ ButtonsDue
  BY <1>1 DEF Owed, ButtonsDue
<1>3. Refused
  BY <1>1, <1>2 DEF Refused
<1> QED
  BY <1>1, <1>2, <1>3 DEF FrameInv

LEMMA OwedRange ==
  ASSUME MouseTypeOK
  PROVE  /\ Owed \in 0..2 /\ (Owed = 0 <=> g_byte_idx = 0)
         /\ Len(wire) \in 0..3 /\ (Len(wire) = 0 <=> wire = <<>>)
<1>1. g_byte_idx \in 0..2
  BY CountersType
<1>2. Owed \in 0..2 /\ (Owed = 0 <=> g_byte_idx = 0)
  BY <1>1 DEF Owed
<1>3. wire \in Seq(Byte) /\ Len(wire) <= 3
  BY DEF MouseTypeOK
<1>4. Len(wire) = 0 <=> wire = <<>>
  BY <1>3, EmptySeq
<1>5. Len(wire) \in 0..3
  <2>1. Len(wire) \in Nat /\ \A n \in Nat : n <= 3 => n \in 0..3
    BY <1>3
  <2> QED
    BY <1>3, <2>1
<1> QED
  BY <1>2, <1>4, <1>5

LEMMA SendFrame ==
  ASSUME MouseTypeOK, FrameInv, NEW dx, NEW dy, NEW held \in Held, NEW overflow \in BOOLEAN,
         Send(dx, dy, held, overflow)
  PROVE  FrameInv'
<1> DEFINE p == <<FlagsByte(held, overflow), dx % 256, dy % 256>>
<1>1. /\ wire = <<>> /\ wire' = p /\ lost' = lost
      /\ g_packet' = g_packet /\ g_byte_idx' = g_byte_idx /\ g_btn' = g_btn
  BY DEF Send, stateVars
<1>2. aligned' = (aligned \/ Unmistakable(p))
  BY DEF Send
<1>3. reported' = IF overflow THEN reported ELSE held
  BY DEF Send
<1>4. /\ Len(p) = 3 /\ p # <<>>
      /\ HasBit(p[1], 8) /\ ~HasBit(p[1], 128) /\ (HasBit(p[1], 64) <=> overflow)
      /\ ButtonsOf(p[1]) = held
  BY FlagsBits
<1> HIDE DEF p
<1>5. Owed' = Owed /\ Owed \in 0..2 /\ (Owed = 0 <=> g_byte_idx = 0) /\ Len(wire) = 0
  BY <1>1, OwedRange DEF Owed
<1>6. g_byte_idx = 0 => AtStart'
  BY <1>1, <1>4 DEF AtStart
<1>7. aligned => g_byte_idx = 0
  BY <1>1, <1>5 DEF FrameInv, Refused, AtStart
<1>8. Unmistakable(p) /\ g_byte_idx # 0 => Refused'
  <2> SUFFICES ASSUME Unmistakable(p), g_byte_idx # 0 PROVE Refused'
    OBVIOUS
  <2>1. Owed' <= Len(wire')
    BY <1>1, <1>4, <1>5
  <2>2. ASSUME NEW i \in 1..Len(wire'), i > Owed' PROVE ~HasBit(wire'[i], 8)
    <3>1. i = 2 \/ i = 3
      BY <2>2, <1>1, <1>4, <1>5
    <3> QED
      BY <3>1, <1>1 DEF Unmistakable
  <2> QED
    BY <2>1, <2>2 DEF Refused
<1>9. aligned' => Refused' \/ AtStart'
  BY <1>2, <1>6, <1>7, <1>8
<1>10. lost' = 0 => aligned' /\ AtStart' /\ ButtonsDue'
  <2> SUFFICES ASSUME lost' = 0 PROVE aligned' /\ AtStart' /\ ButtonsDue'
    OBVIOUS
  <2>1. aligned /\ g_btn = reported
    BY <1>1 DEF FrameInv, ButtonsDue
  <2>2. Accounts(p[1])'
    BY <1>1, <1>3, <1>4, <2>1 DEF Accounts
  <2>3. ButtonsDue'
    BY <2>2, <1>1, <1>4 DEF ButtonsDue, Accounts
  <2> QED
    BY <2>1, <2>3, <1>2, <1>6, <1>7
<1> QED
  BY <1>9, <1>10 DEF FrameInv

\* What every case of the handler shares.
LEMMA ByteTaken ==
  ASSUME MouseTypeOK, TakeByte
  PROVE  /\ lost' = lost /\ aligned' = aligned /\ reported' = reported
         /\ Len(wire) \in 1..3 /\ Len(wire') = Len(wire) - 1
         /\ Len(wire') = 0 <=> wire' = <<>>
         /\ Head(wire) = wire[1]
         /\ \A i \in 1..Len(wire') : i + 1 \in 1..Len(wire) /\ wire'[i] = wire[i + 1]
<1>1. wire # <<>> /\ wire' = Tail(wire)
      /\ lost' = lost /\ aligned' = aligned /\ reported' = reported
  BY DEF TakeByte
<1>2. /\ Len(wire) \in 1..3 /\ Len(wire') = Len(wire) - 1 /\ wire' \in Seq(Byte)
      /\ \A i \in 1..Len(wire') : wire'[i] = wire[i + 1]
      /\ Head(wire) = wire[1]
  BY <1>1, TailOfWire
<1>3. Len(wire') = 0 <=> wire' = <<>>
  BY <1>2, EmptySeq
<1> QED
  BY <1>1, <1>2, <1>3

LEMMA SkipFrame ==
  ASSUME MouseTypeOK, FrameInv, SkipByte
  PROVE  FrameInv'
<1>1. TakeByte /\ g_byte_idx = 0 /\ ~HasBit(wire[1], 8) /\ g_byte_idx' = g_byte_idx
  BY ByteTaken DEF SkipByte
<1>2. Owed = 0 /\ Owed' = 0 /\ ~AtStart
  BY <1>1 DEF Owed, AtStart
<1>3. lost # 0
  BY <1>1, <1>2, ByteTaken DEF FrameInv
<1>4. Refused => Refused'
  BY <1>1, <1>2, ByteTaken DEF Refused
<1> QED
  BY <1>1, <1>2, <1>3, <1>4, ByteTaken DEF FrameInv

LEMMA StoreFrame ==
  ASSUME MouseTypeOK, FrameInv, StoreByte
  PROVE  FrameInv'
<1>1. /\ TakeByte /\ g_byte_idx < 2 /\ g_byte_idx' = g_byte_idx + 1
      /\ g_packet' = [g_packet EXCEPT ![g_byte_idx] = wire[1]]
      /\ g_btn' = g_btn
  BY ByteTaken DEF StoreByte, stateVars
<1>2. g_packet \in [0..2 -> Byte \cup {0}] /\ g_byte_idx \in {0, 1}
  BY <1>1, CountersType DEF MouseTypeOK
<1>3. CASE g_byte_idx = 0
  <2>1. HasBit(wire[1], 8) /\ Owed = 0 /\ Owed' = 2 /\ g_packet'[0] = wire[1]
    BY <1>1, <1>2, <1>3, ByteTaken DEF StoreByte, Owed
  <2>2. ~Refused
    BY <2>1, <1>1, ByteTaken DEF Refused
  <2>3. AtStart => Len(wire') = 2
    BY <1>1, ByteTaken DEF AtStart
  <2>4. AtStart => Refused'
    <3> SUFFICES ASSUME AtStart PROVE Refused'
      OBVIOUS
    <3>1. Owed' = 2 /\ Len(wire') = 2
      BY <2>1, <2>3
    <3>2. Owed' <= Len(wire')
      BY <3>1
    <3>3. \A i \in 1..Len(wire') : ~(i > Owed')
      BY <3>1
    <3> QED
      BY <3>2, <3>3 DEF Refused
  <2>5. lost = 0 => AtStart
    BY <2>1, <1>1, ByteTaken DEF FrameInv
  <2>6. AtStart /\ ButtonsDue => Accounts(wire[1])
    <3>1. AtStart => wire # <<>> /\ Len(wire) = 3
      BY OwedRange DEF AtStart
    <3> QED
      BY <3>1 DEF ButtonsDue
  <2>7. AtStart /\ ButtonsDue => ButtonsDue'
    <3> SUFFICES ASSUME AtStart, ButtonsDue PROVE ButtonsDue'
      OBVIOUS
    <3>1. wire' # <<>> /\ Len(wire') # 3
      BY <2>3, <1>1, ByteTaken
    <3>2. Accounts(g_packet[0])'
      BY <2>1, <2>6, <1>1, ByteTaken DEF Accounts
    <3> QED
      BY <3>1, <3>2 DEF ButtonsDue
  <2> QED
    BY <2>1, <2>2, <2>3, <2>4, <2>5, <2>7, <1>1, ByteTaken DEF FrameInv
<1>4. CASE g_byte_idx = 1
  <2>1. Owed = 2 /\ Owed' = 1 /\ g_packet'[0] = g_packet[0] /\ ~AtStart
    BY <1>1, <1>2, <1>4 DEF Owed, AtStart
  <2>2. Refused => Refused'
    BY <2>1, <1>1, ByteTaken DEF Refused
  <2>3. lost = 0 => Len(wire) = 2 /\ Len(wire') = 1 /\ ButtonsDue
    <3>1. lost = 0 => Len(wire) = 2 /\ ButtonsDue
      BY <2>1 DEF FrameInv
    <3>2. Len(wire') = Len(wire) - 1
      BY <1>1, ByteTaken
    <3>3. Len(wire) = 2 => Len(wire') = 1
      BY <3>2
    <3> QED
      BY <3>1, <3>3
  <2>4. Len(wire) = 2 /\ ButtonsDue => Accounts(g_packet[0])
    BY OwedRange DEF ButtonsDue
  <2>5. lost = 0 => ButtonsDue'
    <3> SUFFICES ASSUME lost = 0 PROVE ButtonsDue'
      OBVIOUS
    <3>1. wire' # <<>> /\ Len(wire') # 3
      BY <2>3, <1>1, ByteTaken
    <3>2. Accounts(g_packet[0])'
      BY <2>1, <2>3, <2>4, <1>1, ByteTaken DEF Accounts
    <3> QED
      BY <3>1, <3>2 DEF ButtonsDue
  <2> QED
    BY <2>1, <2>2, <2>3, <2>5, <1>1, ByteTaken DEF FrameInv
<1> QED
  BY <1>2, <1>3, <1>4

LEMMA UseFrame ==
  ASSUME MouseTypeOK, FrameInv, UsePacket
  PROVE  FrameInv'
<1>1. TakeByte /\ g_byte_idx = 2 /\ g_byte_idx' = 0
  BY DEF UsePacket
<1>2. Owed = 1 /\ Owed' = 0 /\ ~AtStart
  BY <1>1 DEF Owed, AtStart
<1>3. Refused => Refused'
  BY <1>1, <1>2, ByteTaken DEF Refused
<1>4. lost = 0 => Len(wire) = 1 /\ Len(wire') = 0 /\ ButtonsDue
  BY <1>1, <1>2, ByteTaken DEF FrameInv
<1>5. Len(wire) = 1 /\ ButtonsDue => Accounts(g_packet[0])
  BY OwedRange DEF ButtonsDue
<1>6. Accounts(g_packet[0]) => g_btn' = reported
  BY DEF UsePacket, Accounts, stateVars
<1>7. lost = 0 => ButtonsDue'
  BY <1>1, <1>4, <1>5, <1>6, ByteTaken DEF ButtonsDue
<1> QED
  BY <1>1, <1>2, <1>3, <1>4, <1>7, ByteTaken DEF FrameInv

LEMMA NextFrame == MouseTypeOK /\ FrameInv /\ [MouseNext]_mouseVars => FrameInv'
<1> SUFFICES ASSUME MouseTypeOK, FrameInv, [MouseNext]_mouseVars PROVE FrameInv'
  OBVIOUS
<1>1. CASE \E dx, dy \in Delta, held \in Held, overflow \in BOOLEAN :
             Send(dx, dy, held, overflow)
  BY <1>1, SendFrame
<1>2. CASE LoseByte
  <2>1. lost' = lost + 1 /\ lost \in Nat /\ aligned' = FALSE
    BY <1>2, CountersType DEF LoseByte
  <2> QED
    BY <2>1 DEF FrameInv
<1>3. CASE Irq12
  BY <1>3, SkipFrame, StoreFrame, UseFrame DEF Irq12
<1>4. CASE Drain \/ Drained \/ Sample \/ UNCHANGED mouseVars
  <2>1. UNCHANGED <<wire, lost, aligned, reported, g_packet, g_byte_idx, g_btn>>
    BY <1>4 DEF Drain, Drained, Sample, SyncOnly, lineVars, stateVars, mouseVars
  <2> QED
    BY <2>1 DEF FrameInv, Refused, AtStart, Owed, ButtonsDue, Accounts
<1> QED
  BY <1>1, <1>2, <1>3, <1>4 DEF MouseNext

\* mouse_irq_handler and the test of bit 3: as long as no byte is lost the
\* driver stands where the mouse stands and shows its buttons; after a loss one
\* packet without bit 3 in its movement brings it back, from any index.
THEOREM MouseFramingCorrect == MouseSpec => []FramesAligned
<1>1. MouseTypeOK /\ FrameInv => FramesAligned
  <2> SUFFICES ASSUME MouseTypeOK, FrameInv, aligned, wire = <<>>
               PROVE  g_byte_idx = 0 /\ (lost = 0 => g_btn = reported)
    BY DEF FramesAligned
  <2>1. g_byte_idx = 0
    BY OwedRange DEF FrameInv, Refused, AtStart
  <2>2. lost = 0 => g_btn = reported
    BY DEF FrameInv, ButtonsDue
  <2> QED
    BY <2>1, <2>2
<1> QED
  BY <1>1, InitFrame, NextFrame, MouseTypeCorrect, PTL DEF MouseSpec
------------------------------------------------------------------------------
\* The ring is a queue.

Slots == 0..MOUSE_QUEUE_SIZE - 1
Occupied == (g_q_tail - g_q_head) % MOUSE_QUEUE_SIZE
SlotAt(i) == (g_q_head + i) % MOUSE_QUEUE_SIZE

LEMMA IndexType ==
  ASSUME MouseTypeOK
  PROVE  /\ MOUSE_QUEUE_SIZE \in Nat /\ MOUSE_QUEUE_SIZE >= 2
         /\ g_q_head \in Slots /\ g_q_tail \in Slots
         /\ g_queue \in [Slots -> Event]
BY QueueAssumption DEF MouseTypeOK, Slots

\* The remainder of a number just above its range.
LEMMA Remainder ==
  ASSUME NEW n \in Nat \ {0}, NEW x \in 0..n + n - 1
  PROVE  x % n = IF x < n THEN x ELSE x - n
OBVIOUS

\* The distance between two indices of a ring.
LEMMA RingDistance ==
  ASSUME NEW n \in Nat \ {0}, NEW a \in 0..n - 1, NEW b \in 0..n - 1
  PROVE  (a - b) % n = IF a >= b THEN a - b ELSE a - b + n
<1>1. CASE a >= b
  <2> DEFINE x == a - b
  <2>1. x \in 0..n + n - 1 /\ x < n
    BY <1>1
  <2> HIDE DEF x
  <2>2. x % n = x
    BY <2>1, Remainder
  <2> QED
    BY <1>1, <2>2 DEF x
<1>2. CASE ~(a >= b)
  <2> DEFINE x == a - b
             y == x + n
  <2>1. x \in Int /\ y \in 0..n - 1 /\ n \in Nat \ {0} /\ x = y + (-1) * n
    BY <1>2
  <2> HIDE DEF x
  <2>2. x % n = y
    BY <2>1
  <2> QED
    BY <1>2, <2>2 DEF x
<1> QED
  BY <1>1, <1>2

\* How full the ring is and where its slots are.
LEMMA SlotRange ==
  ASSUME MouseTypeOK
  PROVE  /\ Occupied \in Slots
         /\ Occupied = IF g_q_tail >= g_q_head THEN g_q_tail - g_q_head
                       ELSE g_q_tail - g_q_head + MOUSE_QUEUE_SIZE
         /\ \A i \in Slots :
              SlotAt(i) = IF g_q_head + i < MOUSE_QUEUE_SIZE THEN g_q_head + i
                          ELSE g_q_head + i - MOUSE_QUEUE_SIZE
<1>1. Occupied = IF g_q_tail >= g_q_head THEN g_q_tail - g_q_head
                 ELSE g_q_tail - g_q_head + MOUSE_QUEUE_SIZE
  <2> DEFINE a == g_q_tail
             b == g_q_head
             n == MOUSE_QUEUE_SIZE
  <2>1. n \in Nat \ {0} /\ a \in 0..n - 1 /\ b \in 0..n - 1
    BY IndexType DEF Slots
  <2>2. Occupied = (a - b) % n
    BY DEF Occupied
  <2> HIDE DEF a, b, n
  <2>3. (a - b) % n = IF a >= b THEN a - b ELSE a - b + n
    BY <2>1, RingDistance
  <2> QED
    BY <2>2, <2>3 DEF a, b, n
<1>2. ASSUME NEW i \in Slots
      PROVE  SlotAt(i) = IF g_q_head + i < MOUSE_QUEUE_SIZE THEN g_q_head + i
                         ELSE g_q_head + i - MOUSE_QUEUE_SIZE
  <2> DEFINE x == g_q_head + i
  <2>1. /\ x \in 0..MOUSE_QUEUE_SIZE + MOUSE_QUEUE_SIZE - 1
        /\ MOUSE_QUEUE_SIZE \in Nat \ {0} /\ g_q_head \in Nat /\ i \in Nat
    BY IndexType DEF Slots
  <2> HIDE DEF x
  <2>2. x % MOUSE_QUEUE_SIZE = IF x < MOUSE_QUEUE_SIZE THEN x ELSE x - MOUSE_QUEUE_SIZE
    BY <2>1, Remainder
  <2> QED
    BY <2>1, <2>2 DEF SlotAt, x
<1>3. Occupied \in Slots
  BY <1>1, IndexType DEF Slots
<1> QED
  BY <1>1, <1>2, <1>3

\* Of a ring of n slots with q of them taken from h on, t is the first that
\* is not.
LEMMA RingSlots ==
  ASSUME NEW n \in Nat, n >= 2, NEW h \in 0..n - 1, NEW t \in 0..n - 1,
         NEW q, q = IF t >= h THEN t - h ELSE t - h + n
  PROVE  /\ q \in 0..n - 1
         /\ \A i \in 0..q - 1 : i \in 0..n - 1 /\ (IF h + i < n THEN h + i ELSE h + i - n) # t
         /\ (IF h + q < n THEN h + q ELSE h + q - n) = t
<1>1. CASE t >= h
  BY <1>1
<1>2. CASE ~(t >= h)
  BY <1>2
<1> QED
  BY <1>1, <1>2

\* The slots in use, and the one behind them.
LEMMA OccupiedSlots ==
  ASSUME MouseTypeOK
  PROVE  /\ \A i \in Slots : SlotAt(i) \in Slots
         /\ \A i \in 0..Occupied - 1 : SlotAt(i) # g_q_tail
         /\ SlotAt(Occupied) = g_q_tail /\ SlotAt(0) = g_q_head
         /\ Occupied = 0 <=> ~mouse_has_event
<1>1. ASSUME NEW i \in Slots PROVE SlotAt(i) \in Slots
  BY SlotRange, IndexType DEF Slots
<1> DEFINE n == MOUSE_QUEUE_SIZE
           h == g_q_head
           t == g_q_tail
           q == Occupied
<1>a. /\ n \in Nat /\ n >= 2 /\ h \in 0..n - 1 /\ t \in 0..n - 1
      /\ q = (IF t >= h THEN t - h ELSE t - h + n)
      /\ \A i \in 0..n - 1 : SlotAt(i) = IF h + i < n THEN h + i ELSE h + i - n
  BY SlotRange, IndexType DEF Slots
<1> HIDE DEF n, h, t, q
<1>b. /\ q \in 0..n - 1
      /\ \A i \in 0..q - 1 : i \in 0..n - 1 /\ (IF h + i < n THEN h + i ELSE h + i - n) # t
      /\ (IF h + q < n THEN h + q ELSE h + q - n) = t
  BY <1>a, RingSlots
<1>c. (\A i \in 0..q - 1 : SlotAt(i) # t) /\ SlotAt(q) = t
  BY <1>a, <1>b
<1>2. ASSUME NEW i \in 0..Occupied - 1 PROVE SlotAt(i) # g_q_tail
  BY <1>c DEF q, t
<1>3. SlotAt(Occupied) = g_q_tail
  BY <1>c DEF q, t
<1> USE DEF n, h, t, q
<1>4. SlotAt(0) = g_q_head
  <2>1. 0 \in Slots
    BY IndexType DEF Slots
  <2> QED
    BY <2>1, SlotRange, IndexType DEF Slots
<1>5. Occupied = 0 <=> ~mouse_has_event
  BY SlotRange, IndexType DEF Slots, mouse_has_event
<1> QED
  BY <1>1, <1>2, <1>3, <1>4, <1>5

LEMMA ContentsAre ==
  ASSUME MouseTypeOK
  PROVE  /\ QueueContents = [i \in 1..Occupied |-> g_queue[SlotAt(i - 1)]]
         /\ QueueContents \in Seq(Event) /\ Len(QueueContents) = Occupied
<1>1. \A i \in 1..Occupied : i - 1 \in Slots /\ g_q_head + i - 1 = g_q_head + (i - 1)
  BY SlotRange, IndexType DEF Slots
<1>2. QueueContents = [i \in 1..Occupied |-> g_queue[SlotAt(i - 1)]]
  BY <1>1 DEF QueueContents, Occupied, SlotAt
<1>3. \A i \in 1..Occupied : g_queue[SlotAt(i - 1)] \in Event
  BY <1>1, OccupiedSlots, IndexType
<1>4. Occupied \in Nat
  BY SlotRange, IndexType DEF Slots
<1>5. QueueContents \in Seq(Event) /\ Len(QueueContents) = Occupied
  BY <1>2, <1>3, <1>4
<1> QED
  BY <1>2, <1>5

\* The same of the next state.
LEMMA RangeNext ==
  MouseTypeOK' =>
         /\ g_q_head' \in Slots /\ g_q_tail' \in Slots
         /\ Occupied' \in Slots
         /\ Occupied' = IF g_q_tail' >= g_q_head' THEN g_q_tail' - g_q_head'
                        ELSE g_q_tail' - g_q_head' + MOUSE_QUEUE_SIZE
         /\ \A i \in Slots :
              SlotAt(i)' = IF g_q_head' + i < MOUSE_QUEUE_SIZE THEN g_q_head' + i
                           ELSE g_q_head' + i - MOUSE_QUEUE_SIZE
<1> DEFINE Claim ==
      /\ g_q_head \in Slots /\ g_q_tail \in Slots
      /\ Occupied \in Slots
      /\ Occupied = IF g_q_tail >= g_q_head THEN g_q_tail - g_q_head
                    ELSE g_q_tail - g_q_head + MOUSE_QUEUE_SIZE
      /\ \A i \in Slots :
           SlotAt(i) = IF g_q_head + i < MOUSE_QUEUE_SIZE THEN g_q_head + i
                       ELSE g_q_head + i - MOUSE_QUEUE_SIZE
<1>1. MouseTypeOK => Claim
  BY SlotRange, IndexType
<1> HIDE DEF Claim
<1>2. MouseTypeOK' => Claim'
  BY <1>1, PTL
<1> QED
  BY <1>2 DEF Claim, Slots

LEMMA ContentsNext ==
  MouseTypeOK' =>
         /\ QueueContents' = [i \in 1..Occupied' |-> g_queue'[SlotAt(i - 1)']]
         /\ QueueContents' \in Seq(Event) /\ Len(QueueContents') = Occupied'
<1> DEFINE Claim ==
      /\ QueueContents = [i \in 1..Occupied |-> g_queue[SlotAt(i - 1)]]
      /\ QueueContents \in Seq(Event) /\ Len(QueueContents) = Occupied
<1>1. MouseTypeOK => Claim
  BY ContentsAre
<1> HIDE DEF Claim
<1>2. MouseTypeOK' => Claim'
  BY <1>1, PTL
<1> QED
  BY <1>2 DEF Claim, Event

\* mouse_irq_handler: the event goes behind those in the ring, or is dropped.
LEMMA EnqueueIsAccept ==
  ASSUME MouseTypeOK, MouseTypeOK', NEW e \in Event, Enqueue(e), UNCHANGED last,
         offered' = 1 - offered
  PROVE  Fifo!Accept \/ Fifo!Refuse
<1> DEFINE Q == QueueContents
<1>1. CASE NextSlot(g_q_tail) = g_q_head
  <2>1. UNCHANGED QueueContents
    BY <1>1 DEF Enqueue, QueueContents, ringVars
  <2>2. NextSlot(g_q_tail) = IF g_q_tail + 1 = MOUSE_QUEUE_SIZE THEN 0 ELSE g_q_tail + 1
    BY NextSlotValue, IndexType DEF Slots
  <2>3. Occupied = MOUSE_QUEUE_SIZE - 1
    <3>1. Occupied = IF g_q_tail >= g_q_head THEN g_q_tail - g_q_head
                     ELSE g_q_tail - g_q_head + MOUSE_QUEUE_SIZE
      BY SlotRange
    <3>2. /\ g_q_head \in 0..MOUSE_QUEUE_SIZE - 1 /\ g_q_tail \in 0..MOUSE_QUEUE_SIZE - 1
          /\ MOUSE_QUEUE_SIZE \in Nat
      BY IndexType DEF Slots
    <3>3. g_q_head = IF g_q_tail + 1 = MOUSE_QUEUE_SIZE THEN 0 ELSE g_q_tail + 1
      BY <1>1, <2>2
    <3> QED
      BY <3>1, <3>2, <3>3
  <2>4. Len(QueueContents) = MOUSE_QUEUE_SIZE - 1
    BY <2>3, ContentsAre
  <2> QED
    BY <2>1, <2>4 DEF Fifo!Refuse
<1>2. CASE NextSlot(g_q_tail) # g_q_head
  <2>1. /\ g_queue' = [g_queue EXCEPT ![g_q_tail] = e]
        /\ g_q_tail' = NextSlot(g_q_tail) /\ g_q_head' = g_q_head
    BY <1>2 DEF Enqueue
  <2>2. NextSlot(g_q_tail) = IF g_q_tail + 1 = MOUSE_QUEUE_SIZE THEN 0 ELSE g_q_tail + 1
    BY NextSlotValue, IndexType DEF Slots
  <2>3. /\ Occupied' = IF g_q_tail' >= g_q_head' THEN g_q_tail' - g_q_head'
                       ELSE g_q_tail' - g_q_head' + MOUSE_QUEUE_SIZE
        /\ g_q_tail' \in Slots
    BY RangeNext
  <2>4. Occupied < MOUSE_QUEUE_SIZE - 1 /\ Occupied' = Occupied + 1
    <3>1. Occupied = IF g_q_tail >= g_q_head THEN g_q_tail - g_q_head
                     ELSE g_q_tail - g_q_head + MOUSE_QUEUE_SIZE
      BY SlotRange
    <3>2. /\ g_q_head \in 0..MOUSE_QUEUE_SIZE - 1 /\ g_q_tail \in 0..MOUSE_QUEUE_SIZE - 1
          /\ MOUSE_QUEUE_SIZE \in Nat
      BY IndexType DEF Slots
    <3> QED
      BY <1>2, <2>1, <2>2, <2>3, <3>1, <3>2
  <2>5. \A i : SlotAt(i)' = SlotAt(i)
    BY <2>1 DEF SlotAt
  <2>6. /\ Q' = [i \in 1..Occupied + 1 |-> g_queue'[SlotAt(i - 1)]]
        /\ Q' \in Seq(Event) /\ Len(Q') = Occupied + 1
    <3>1. Q' = [i \in 1..Occupied' |-> g_queue'[SlotAt(i - 1)']]
          /\ Q' \in Seq(Event) /\ Len(Q') = Occupied'
      BY ContentsNext
    <3> QED
      BY <3>1, <2>4, <2>5
  <2>7. Occupied \in Nat /\ Occupied \in Slots
    BY SlotRange, IndexType DEF Slots
  <2>8. ASSUME NEW i \in 1..Occupied
        PROVE  Q'[i] = Q[i]
    <3>1. i - 1 \in 0..Occupied - 1 /\ i - 1 \in Slots /\ i \in 1..Occupied + 1
      BY <2>7, IndexType DEF Slots
    <3>2. SlotAt(i - 1) # g_q_tail /\ SlotAt(i - 1) \in Slots
      BY <3>1, OccupiedSlots
    <3>3. g_queue'[SlotAt(i - 1)] = g_queue[SlotAt(i - 1)]
      BY <2>1, <3>2, IndexType
    <3> QED
      BY <2>6, <3>1, <3>3, ContentsAre
  <2>9. Q'[Occupied + 1] = e
    <3>1. g_queue'[g_q_tail] = e
      BY <2>1, IndexType
    <3>2. Occupied + 1 \in 1..Occupied + 1 /\ (Occupied + 1) - 1 = Occupied
      BY <2>7
    <3> QED
      BY <2>6, <3>1, <3>2, OccupiedSlots
  <2>10. /\ Append(Q, e) \in Seq(Event) /\ Len(Append(Q, e)) = Occupied + 1
         /\ \A i \in 1..Occupied : Append(Q, e)[i] = Q[i]
         /\ Append(Q, e)[Occupied + 1] = e
    BY <2>7, ContentsAre
  <2>11. \A i \in 1..Occupied + 1 : Q'[i] = Append(Q, e)[i]
    <3>1. \A i \in 1..Occupied + 1 : i \in 1..Occupied \/ i = Occupied + 1
      BY <2>7
    <3> QED
      BY <2>8, <2>9, <2>10, <3>1
  <2>12. Q' = Append(Q, e)
    BY <2>6, <2>10, <2>11, SeqEqual
  <2>13. Len(Q) < MOUSE_QUEUE_SIZE - 1 /\ Len(Q') = Len(Q) + 1
    BY <2>4, <2>6, ContentsAre
  <2> QED
    BY <2>12, <2>13 DEF Fifo!Accept
<1> QED
  BY <1>1, <1>2

\* mouse_get_event takes the oldest.
LEMMA DrainIsTake ==
  ASSUME MouseTypeOK, MouseTypeOK', Drain
  PROVE  Fifo!Take
<1> DEFINE Q == QueueContents
<1>1. /\ g_queue' = g_queue /\ g_q_tail' = g_q_tail /\ mouse_has_event
      /\ g_q_head' = NextSlot(g_q_head) /\ last' = g_queue[g_q_head]
      /\ offered' = offered
  BY DEF Drain, SyncOnly
<1>2. NextSlot(g_q_head) = IF g_q_head + 1 = MOUSE_QUEUE_SIZE THEN 0 ELSE g_q_head + 1
  BY NextSlotValue, IndexType DEF Slots
<1>3. Occupied' = IF g_q_tail' >= g_q_head' THEN g_q_tail' - g_q_head'
                  ELSE g_q_tail' - g_q_head' + MOUSE_QUEUE_SIZE
  BY RangeNext
<1>4. Occupied \in Slots /\ Occupied > 0 /\ Occupied' = Occupied - 1
  <2>1. Occupied \in Slots /\ Occupied = IF g_q_tail >= g_q_head THEN g_q_tail - g_q_head
                                         ELSE g_q_tail - g_q_head + MOUSE_QUEUE_SIZE
    BY SlotRange
  <2>2. /\ g_q_head \in 0..MOUSE_QUEUE_SIZE - 1 /\ g_q_tail \in 0..MOUSE_QUEUE_SIZE - 1
        /\ MOUSE_QUEUE_SIZE \in Nat /\ g_q_head # g_q_tail
    BY <1>1, IndexType DEF Slots, mouse_has_event
  <2> QED
    BY <1>1, <1>2, <1>3, <2>1, <2>2
<1>5. ASSUME NEW i \in 1..Occupied - 1
      PROVE  SlotAt(i - 1)' = SlotAt(i) /\ SlotAt(i) \in Slots
  <2>1. i \in Slots /\ i - 1 \in Slots
    BY <1>4, IndexType DEF Slots
  <2>2. SlotAt(i) = IF g_q_head + i < MOUSE_QUEUE_SIZE THEN g_q_head + i
                    ELSE g_q_head + i - MOUSE_QUEUE_SIZE
    BY <2>1, SlotRange
  <2>3. SlotAt(i - 1)' = IF g_q_head' + (i - 1) < MOUSE_QUEUE_SIZE THEN g_q_head' + (i - 1)
                         ELSE g_q_head' + (i - 1) - MOUSE_QUEUE_SIZE
    <3>1. \A j \in Slots :
            SlotAt(j)' = IF g_q_head' + j < MOUSE_QUEUE_SIZE THEN g_q_head' + j
                         ELSE g_q_head' + j - MOUSE_QUEUE_SIZE
      BY RangeNext
    <3> QED
      BY <2>1, <3>1
  <2> QED
    <3>1. /\ g_q_head \in 0..MOUSE_QUEUE_SIZE - 1 /\ MOUSE_QUEUE_SIZE \in Nat
          /\ i \in 0..MOUSE_QUEUE_SIZE - 1 /\ i > 0
      BY <2>1, IndexType DEF Slots
    <3>2. SlotAt(i - 1)' = SlotAt(i)
      BY <2>2, <2>3, <3>1, <1>1, <1>2
    <3> QED
      BY <2>1, <3>2, OccupiedSlots
<1>6. /\ Q' = [i \in 1..Occupied - 1 |-> g_queue[SlotAt(i)]]
      /\ Q' \in Seq(Event) /\ Len(Q') = Occupied - 1
  <2>1. Q' = [i \in 1..Occupied' |-> g_queue'[SlotAt(i - 1)']]
        /\ Q' \in Seq(Event) /\ Len(Q') = Occupied'
    BY ContentsNext
  <2> QED
    BY <2>1, <1>1, <1>4, <1>5
<1>7. Q \in Seq(Event) /\ Len(Q) = Occupied /\ Q # <<>>
  BY <1>4, ContentsAre, EmptySeq DEF Slots
<1>8. Head(Q) = g_queue[g_q_head]
  <2>1. 1 \in 1..Occupied /\ 1 - 1 = 0
    BY <1>4 DEF Slots
  <2>2. Head(Q) = Q[1]
    BY <1>7
  <2> QED
    BY <2>1, <2>2, ContentsAre, OccupiedSlots
<1>9. Q' = Tail(Q)
  <2>1. /\ Tail(Q) \in Seq(Event) /\ Len(Tail(Q)) = Occupied - 1
        /\ \A i \in 1..Occupied - 1 : Tail(Q)[i] = Q[i + 1]
    BY <1>7, HeadTailProperties
  <2>2. ASSUME NEW i \in 1..Occupied - 1
        PROVE  Q'[i] = Tail(Q)[i]
    <3>1. i + 1 \in 1..Occupied /\ (i + 1) - 1 = i
      BY <1>4 DEF Slots
    <3>2. Q[i + 1] = g_queue[SlotAt(i)]
      BY <3>1, ContentsAre
    <3> QED
      BY <1>6, <2>1, <3>2
  <2> QED
    BY <1>6, <2>1, <2>2, SeqEqual
<1> QED
  BY <1>1, <1>7, <1>8, <1>9 DEF Fifo!Take

LEMMA InitIsFifoInit == MouseInit => Fifo!FifoInit
<1> SUFFICES ASSUME MouseInit PROVE Fifo!FifoInit
  OBVIOUS
<1>1. MouseTypeOK
  BY InitType
<1>2. Occupied = 0
  BY <1>1, SlotRange, IndexType DEF MouseInit
<1>3. Len(QueueContents) = 0 /\ QueueContents \in Seq(Event)
  BY <1>1, <1>2, ContentsAre
<1> QED
  BY <1>3, EmptySeq DEF MouseInit, Fifo!FifoInit

LEMMA NextIsFifoNext ==
  MouseTypeOK /\ MouseTypeOK' /\ [MouseNext]_mouseVars => [Fifo!FifoNext]_<<QueueContents, last, offered>>
<1> SUFFICES ASSUME MouseTypeOK, MouseTypeOK', [MouseNext]_mouseVars
             PROVE  [Fifo!FifoNext]_<<QueueContents, last, offered>>
  OBVIOUS
<1>1. ASSUME UNCHANGED ringVars, UNCHANGED last, UNCHANGED offered
      PROVE  UNCHANGED <<QueueContents, last, offered>>
  BY <1>1 DEF ringVars, QueueContents
<1>2. CASE \E dx, dy \in Delta, held \in Held, overflow \in BOOLEAN :
             Send(dx, dy, held, overflow)
  BY <1>1, <1>2 DEF Send, syncVars
<1>3. CASE LoseByte \/ SkipByte \/ StoreByte
  BY <1>1, <1>3 DEF LoseByte, SkipByte, StoreByte, TakeByte, syncVars
<1>4. CASE UsePacket
  <2> DEFINE e == [dx |-> Signed(g_packet[1]), dy |-> -Signed(Head(wire)),
                   btn |-> ButtonsOf(g_packet[0])]
  <2>1. UNCHANGED last
    BY <1>4 DEF UsePacket, TakeByte, syncVars
  <2>2. UNCHANGED <<ringVars, offered>> \/ (Enqueue(e) /\ offered' = 1 - offered)
    BY <1>4 DEF UsePacket
  <2>3. e \in Event
    <3>1. Head(wire) \in Byte
      BY <1>4, TailOfWire DEF UsePacket, TakeByte
    <3>2. g_packet[1] \in Byte \cup {0}
      BY DEF MouseTypeOK
    <3> QED
      BY <3>1, <3>2, EventOfBytes
  <2> HIDE DEF e
  <2>4. Enqueue(e) /\ offered' = 1 - offered => Fifo!Accept \/ Fifo!Refuse
    BY <2>1, <2>3, EnqueueIsAccept
  <2> QED
    BY <1>1, <2>1, <2>2, <2>4 DEF Fifo!FifoNext
<1>5. CASE Drain
  BY <1>5, DrainIsTake DEF Fifo!FifoNext
<1>6. CASE Drained \/ Sample \/ UNCHANGED mouseVars
  BY <1>1, <1>6 DEF Drained, Sample, SyncOnly, mouseVars, ringVars, syncVars
<1> QED
  BY <1>2, <1>3, <1>4, <1>5, <1>6 DEF MouseNext, Irq12

\* The ring of mouse.c implements a queue of MOUSE_QUEUE_SIZE - 1 places: what
\* mouse_get_event hands out is what the handler accepted, in order, each once,
\* though the handler runs between any two reads, and only a full ring refuses.
THEOREM MouseRingImplementsFifo == MouseSpec => QueueIsFifo
BY InitIsFifoInit, NextIsFifoNext, MouseTypeCorrect, PTL
   DEF MouseSpec, QueueIsFifo, Fifo!FifoSpec, Fifo!fifoVars

==============================================================================
