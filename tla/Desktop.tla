------------------------------- MODULE Desktop --------------------------------
(***************************************************************************)
(* The desktop of kernel/gui/gui_desktop.c: its stack of windows, dragging,*)
(* start menu, task bar and icons, one action for each turn of gui_run's   *)
(* loop.  A turn works on the pointer that the previous turn sampled, so   *)
(* whatever the mouse did in between is the next turn's business; Mouse    *)
(* has the sampling itself.  Interrupts touch nothing of what is here.     *)
(*                                                                         *)
(* Of the programs in the windows only one thing is kept: whether they     *)
(* have a button that closes their window.  Windows are numbered from 1,   *)
(* back to front; g_front is 0 where the code has -1.  Drawing is left out.*)
(***************************************************************************)
EXTENDS Integers, Sequences, SequencesExt

CONSTANTS
  App,           \* the programs
  NONE,          \* APP_NONE, the separator of the menu
  TERMINAL,      \* the program opened at startup
  Size,          \* of each program's window: a record of w and h
  OkButton,      \* programs whose window has a button that closes it
  Menu,          \* the start menu: a sequence of programs and NONE
  Icons,         \* the desktop's icons: a sequence of records x, y, app
  MAX_WINDOWS,
  Point,         \* the positions the pointer is seen at
  FrameTicks     \* the milliseconds a turn may take: its sleep and the drawing

\* gui_desktop.h:44-49, gui_desktop.c:373-395 and 2169-2176.
SCREEN_W == 800
SCREEN_H == 600
TASKBAR_H == 28
TITLE_BAR_H == 18
BORDER_W == 2
DBLCLICK_MS == 40
MENU_ITEM_H == 12
SM_COL_W == 140
SM_COL_ROWS == 18
SM_H == SM_COL_ROWS * MENU_ITEM_H + 4

\* Bound: a click longer ago than this is as good as none.
LONG_AGO == 3 * 32

DeskH == SCREEN_H - TASKBAR_H

ASSUME AppAssumption == TERMINAL \in App /\ NONE \notin App /\ OkButton \subseteq App
ASSUME SizeAssumption ==
  \A a \in App : Size[a].w \in 1..SCREEN_W - 4 /\ Size[a].h \in 1..DeskH - 4
\* The button stands clear of the title bar: the About window is 220 high.
ASSUME OkAssumption == \A a \in OkButton : Size[a].h >= 50
ASSUME MenuAssumption ==
  /\ Menu \in Seq(App \cup {NONE})
  /\ Icons \in Seq([x : Int, y : Int, app : App])
ASSUME LimitAssumption == MAX_WINDOWS \in Nat \ {0}
ASSUME PointAssumption == Point \subseteq [x : Int, y : Int]
ASSUME TicksAssumption == FrameTicks \subseteq {t \in Nat : t >= 32}

VARIABLES
  g_wins, g_front,            \* the windows, back to front, and the active one
  g_startmenu, g_menu_hover,  \* whether the menu is open; the item drawn selected
  dragging, drag,             \* the window dragged and where it was gripped
  selected,                   \* the selected icons
  g_last_click_icon, since,   \* the icon clicked last, and how long ago
  g_mouse, prev_btn           \* the last sample, and the button of the one before

stackVars == <<g_wins, g_front>>
menuVars == <<g_startmenu, g_menu_hover>>
dragVars == <<dragging, drag>>
iconVars == <<selected, g_last_click_icon, since>>
vars == <<stackVars, menuVars, dragVars, iconVars, g_mouse, prev_btn>>

------------------------------------------------------------------------------
\* Rectangles.

pt_in(p, x, y, w, h) == p.x >= x /\ p.x < x + w /\ p.y >= y /\ p.y < y + h

W(win) == Size[win.app].w
H(win) == Size[win.app].h

hit_win(win, p) == pt_in(p, win.x, win.y, W(win), H(win))
hit_title(win, p) ==
  pt_in(p, win.x + BORDER_W, win.y + BORDER_W, W(win) - 2 * BORDER_W - TITLE_BAR_H, TITLE_BAR_H)
hit_close(win, p) ==
  pt_in(p, win.x + W(win) - BORDER_W - TITLE_BAR_H, win.y + BORDER_W, TITLE_BAR_H, TITLE_BAR_H)

\* The button of render_about, in the middle of the client area's foot.
hit_ok(win, p) ==
  /\ win.app \in OkButton
  /\ pt_in(p, win.x + BORDER_W + 2 + (W(win) - 2 * BORDER_W - 4 - 60) \div 2,
           win.y + H(win) - BORDER_W - 28, 60, 18)

hit_start(p) == pt_in(p, 2, DeskH + 2, 54, TASKBAR_H - 4)
hit_menu(p) == pt_in(p, 2, DeskH - SM_H, 2 * SM_COL_W + 2, SM_H)
hit_task(i, p) ==
  LET bx == 60 + (i - 1) * 102
  IN  bx < SCREEN_W - 80 /\ pt_in(p, bx, DeskH + 3, 100, TASKBAR_H - 6)
hit_icon(i, p) == pt_in(p, Icons[i].x, Icons[i].y, 32, 44)

\* draw_startmenu: the item under the pointer, 0 for none.
HoverAt(p) ==
  LET At(i) == Menu[i] # NONE
               /\ pt_in(p, 18 + ((i - 1) \div SM_COL_ROWS) * SM_COL_W,
                        DeskH - SM_H + 2 + ((i - 1) % SM_COL_ROWS) * MENU_ITEM_H,
                        SM_COL_W, MENU_ITEM_H)
  IN  IF \E i \in DOMAIN Menu : At(i) THEN CHOOSE i \in DOMAIN Menu : At(i) ELSE 0

------------------------------------------------------------------------------
\* The stack of windows.

bring_front(wins, i) == Append(RemoveAt(wins, i), wins[i])

close_window(wins, i) == RemoveAt(wins, i)

\* Where the cascade puts window n.  The code's two tests for negative
\* coordinates never apply, for windows that fit the screen.
Place(app, n) ==
  LET x == 60 + ((n * 22) % 300)
      y == 30 + ((n * 22) % 200)
  IN  [app |-> app,
       x |-> IF x + Size[app].w > SCREEN_W - 4 THEN SCREEN_W - Size[app].w - 4 ELSE x,
       y |-> IF y + Size[app].h > DeskH - 4 THEN 4 ELSE y]

\* A program has one window, which opening it again brings to the front.
open_window(wins, app) ==
  IF \E i \in DOMAIN wins : wins[i].app = app
  THEN bring_front(wins, CHOOSE i \in DOMAIN wins : wins[i].app = app)
  ELSE IF Len(wins) >= MAX_WINDOWS THEN wins
  ELSE Append(wins, Place(app, Len(wins)))

\* Mutant: a drag may push a window below the task bar.
DragToLoose(win, p) ==
  LET x == IF p.x - drag.ox < 0 THEN 0 ELSE p.x - drag.ox
      y == IF p.y - drag.oy < 0 THEN 0 ELSE p.y - drag.oy
  IN  [win EXCEPT !.x = IF x + W(win) > SCREEN_W THEN SCREEN_W - W(win) ELSE x,
                  !.y = IF y + H(win) > SCREEN_H THEN SCREEN_H - H(win) ELSE y]

\* The dragged window follows the pointer as far as the desktop goes.
DragTo(win, p) ==
  LET x == IF p.x - drag.ox < 0 THEN 0 ELSE p.x - drag.ox
      y == IF p.y - drag.oy < 0 THEN 0 ELSE p.y - drag.oy
  IN  [win EXCEPT !.x = IF x + W(win) > SCREEN_W THEN SCREEN_W - W(win) ELSE x,
                  !.y = IF y + H(win) > DeskH THEN DeskH - H(win) ELSE y]

Hit(wins, p) == {i \in DOMAIN wins : hit_win(wins[i], p)}
Topmost(wins, p) == CHOOSE i \in Hit(wins, p) : \A j \in Hit(wins, p) : j <= i

------------------------------------------------------------------------------
\* The parts of a turn, in its order.  wins is the stack as the part before
\* left it; each part leaves the rest of the turn's effects to its caller.

pointer == g_mouse.pos
btn == g_mouse.left
click == btn /\ ~prev_btn
release == ~btn /\ prev_btn

\* Nothing is dragged; the offsets are dead then, and given one value.
NoDrag == [idx |-> 0, ox |-> 0, oy |-> 0]

\* "Drag update"
Dragged ==
  IF dragging /\ btn /\ drag.idx \in DOMAIN g_wins
  THEN [g_wins EXCEPT ![drag.idx] = DragTo(@, pointer)]
  ELSE g_wins

\* The program of the active window sees every click, and may close its window.
ThroughApp(wins) ==
  IF click /\ wins # <<>> /\ hit_ok(Last(wins), pointer) THEN Front(wins) ELSE wins

\* draw_taskbar's window buttons.
ThroughTaskbar(wins) ==
  LET hits == {i \in DOMAIN wins : click /\ hit_task(i, pointer)}
  IN  IF hits = {} THEN wins ELSE bring_front(wins, CHOOSE i \in hits : TRUE)

\* The rest of a turn: windows, task bar, menu, and the next sample.
Render(wins, menu) ==
  LET rendered == ThroughApp(wins)
      open == IF click /\ hit_start(pointer) THEN ~menu
              ELSE menu /\ ~(click /\ \E i \in DOMAIN rendered : hit_task(i, pointer))
  IN  /\ g_wins' = ThroughTaskbar(rendered)
      /\ g_front' = Len(g_wins')
      /\ g_startmenu' = open
      /\ g_menu_hover' = IF open THEN HoverAt(pointer) ELSE g_menu_hover
      /\ prev_btn' = btn
      /\ \E q \in Point, left \in BOOLEAN : g_mouse' = [pos |-> q, left |-> left]

Wait(t) == since' = IF since + t < LONG_AGO THEN since + t ELSE LONG_AGO

\* Mutant: letting go of the button does not end the drag.
NoClickStillDragging ==
  /\ ~click
  /\ Render(Dragged, g_startmenu)
  /\ UNCHANGED <<dragVars, selected, g_last_click_icon>>
  /\ \E t \in FrameTicks : Wait(t)

NoClick ==
  /\ ~click
  /\ Render(Dragged, g_startmenu)
  /\ IF release THEN dragging' = FALSE /\ drag' = NoDrag ELSE UNCHANGED dragVars
  /\ UNCHANGED <<selected, g_last_click_icon>>
  /\ \E t \in FrameTicks : Wait(t)

\* With the menu open a click goes to the item drawn selected a turn ago, or
\* closes the menu; no window is searched, but the active one sees the click.
ClickMenu ==
  /\ click /\ g_startmenu
  /\ IF g_menu_hover # 0
     THEN Render(open_window(Dragged, Menu[g_menu_hover]), FALSE)
     ELSE Render(Dragged, hit_menu(pointer) \/ hit_start(pointer))
  /\ UNCHANGED <<dragVars, selected, g_last_click_icon>>
  /\ \E t \in FrameTicks : Wait(t)

\* Mutant: the window hit last, not first, is taken.
ClickHindmost ==
  LET i == CHOOSE i \in Hit(Dragged, pointer) : \A j \in Hit(Dragged, pointer) : j >= i
      wins == bring_front(Dragged, i)
      top == Last(wins)
  IN  /\ click /\ ~g_startmenu
      /\ Hit(Dragged, pointer) # {}
      /\ IF hit_close(top, pointer)
         THEN Render(close_window(wins, Len(wins)), g_startmenu) /\ UNCHANGED dragVars
         ELSE /\ Render(wins, g_startmenu)
              /\ IF hit_title(top, pointer)
                 THEN /\ dragging' = TRUE
                      /\ drag' = [idx |-> Len(wins), ox |-> pointer.x - top.x, oy |-> pointer.y - top.y]
                 ELSE UNCHANGED dragVars
      /\ UNCHANGED <<selected, g_last_click_icon>>
      /\ \E t \in FrameTicks : Wait(t)

\* The topmost window under the pointer comes to the front, and is closed or
\* gripped.
ClickWindow ==
  LET wins == bring_front(Dragged, Topmost(Dragged, pointer))
      top == Last(wins)
  IN  /\ click /\ ~g_startmenu
      /\ Hit(Dragged, pointer) # {}
      /\ IF hit_close(top, pointer)
         THEN Render(close_window(wins, Len(wins)), g_startmenu) /\ UNCHANGED dragVars
         ELSE /\ Render(wins, g_startmenu)
              /\ IF hit_title(top, pointer)
                 THEN /\ dragging' = TRUE
                      /\ drag' = [idx |-> Len(wins), ox |-> pointer.x - top.x, oy |-> pointer.y - top.y]
                 ELSE UNCHANGED dragVars
      /\ UNCHANGED <<selected, g_last_click_icon>>
      /\ \E t \in FrameTicks : Wait(t)

\* A second click on an icon within DBLCLICK_MS opens its program.
ClickIcon ==
  \E i \in DOMAIN Icons, t \in FrameTicks :
    LET twice == g_last_click_icon = i /\ since < DBLCLICK_MS
    IN  /\ click /\ ~g_startmenu
        /\ Hit(Dragged, pointer) = {}
        /\ hit_icon(i, pointer)
        /\ IF twice
           THEN /\ Render(open_window(Dragged, Icons[i].app), g_startmenu)
                /\ selected' = {} /\ g_last_click_icon' = 0
                /\ Wait(t)
           ELSE /\ Render(Dragged, g_startmenu)
                /\ selected' = {i} /\ g_last_click_icon' = i
                /\ since' = IF t < LONG_AGO THEN t ELSE LONG_AGO
        /\ UNCHANGED dragVars

ClickNothing ==
  /\ click /\ ~g_startmenu
  /\ Hit(Dragged, pointer) = {}
  /\ \A i \in DOMAIN Icons : ~hit_icon(i, pointer)
  /\ Render(Dragged, g_startmenu)
  /\ selected' = {}
  /\ UNCHANGED <<dragVars, g_last_click_icon>>
  /\ \E t \in FrameTicks : Wait(t)

Init ==
  /\ g_wins = open_window(<<>>, TERMINAL) /\ g_front = 1
  /\ g_startmenu = FALSE /\ g_menu_hover = 0
  /\ dragging = FALSE /\ drag = NoDrag
  /\ selected = {} /\ g_last_click_icon = 0 /\ since = LONG_AGO
  /\ g_mouse = [pos |-> [x |-> 0, y |-> 0], left |-> FALSE] /\ prev_btn = FALSE

Next == NoClick \/ ClickMenu \/ ClickWindow \/ ClickIcon \/ ClickNothing

Spec == Init /\ [][Next]_vars

------------------------------------------------------------------------------
\* Properties.

TypeOK ==
  /\ g_wins \in Seq([app : App, x : 0..SCREEN_W, y : 0..DeskH])
  /\ g_startmenu \in BOOLEAN /\ g_menu_hover \in {0} \cup DOMAIN Menu
  /\ dragging \in BOOLEAN /\ drag \in [idx : 0..MAX_WINDOWS, ox : Int, oy : Int]
  /\ selected \subseteq DOMAIN Icons /\ g_last_click_icon \in {0} \cup DOMAIN Icons
  /\ since \in 0..LONG_AGO
  /\ g_mouse.left \in BOOLEAN /\ prev_btn \in BOOLEAN

\* gui_desktop.c:422-541, 2318-2326.  However windows are opened from the
\* menu, dragged, restacked and closed, each lies whole on the desktop above
\* the task bar, no program has two, and the active one is the topmost.
WindowsOnScreen ==
  /\ TypeOK
  /\ Len(g_wins) <= MAX_WINDOWS /\ g_front = Len(g_wins)
  /\ \A i \in DOMAIN g_wins :
       LET win == g_wins[i]
       IN  /\ win.x >= 0 /\ win.x + W(win) <= SCREEN_W
           /\ win.y >= 0 /\ win.y + H(win) <= DeskH
           /\ \A j \in DOMAIN g_wins : g_wins[j].app = win.app => j = i

\* gui_desktop.c:2318, 2327, 2357.  The index kept while the button is down
\* stays the index of the window that was gripped: as long as it is dragged it
\* is the active window, and no click can arrive to restack or close it.
DragHoldsFront ==
  dragging => /\ drag.idx = g_front
              /\ drag.idx \in DOMAIN g_wins
              /\ ~click
              /\ LET win == g_wins[drag.idx]
                 IN  drag.ox \in 0..W(win) - 1 /\ drag.oy \in BORDER_W..BORDER_W + TITLE_BAR_H - 1

\* The windows of programs other than app, back to front.
Others(wins, app) ==
  IF \E i \in DOMAIN wins : wins[i].app = app
  THEN RemoveAt(wins, CHOOSE i \in DOMAIN wins : wins[i].app = app)
  ELSE wins

\* gui_desktop.c:2346-2362, 2399, 2403.  A click on a window while the menu is
\* closed is the topmost window's under the pointer: the windows of all other
\* programs stay open, where they are and in their order, although the task
\* bar and the active program are shown the same click afterwards.  Only
\* behind [x] it goes on, to the button of the window that becomes active.
ClickHitsTopmost ==
  [][click /\ ~g_startmenu /\ Hit(g_wins, pointer) # {} =>
       LET top == g_wins[Topmost(g_wins, pointer)]
           before == Others(g_wins, top.app)
       IN  \/ Others(g_wins', top.app) = before
           \/ /\ hit_close(top, pointer)
              /\ hit_ok(Last(before), pointer)
              /\ g_wins' = Front(before)]_vars

==============================================================================
