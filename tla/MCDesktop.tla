------------------------------ MODULE MCDesktop -------------------------------
(***************************************************************************)
(* Desktop for TLC: the code's geometry and sizes, three programs, room for*)
(* two windows.  The positions lie on the title bar, the [x] and the OK    *)
(* button of windows where the cascade puts them, on the menu, the Start   *)
(* button and a task button, on an icon, and off the desktop, where the    *)
(* driver's 1024 by 768 let the pointer go.                                *)
(***************************************************************************)
EXTENDS Desktop

MCSize == [a \in App |->
  CASE a = TERMINAL -> [w |-> 460, h |-> 300]
    [] a \in OkButton -> [w |-> 300, h |-> 220]
    [] OTHER -> [w |-> 200, h |-> 240]]

At(x, y) == [x |-> x, y |-> y]

MCPoint ==
  {At(100, 60), At(63, 248), At(230, 250), At(505, 40), At(20, 360), At(20, 380),
   At(20, 585), At(170, 585), At(20, 60), At(1000, 700)}

CONSTANTS ABOUT, CALCULATOR
MCMenu == <<ABOUT, NONE, CALCULATOR>>
MCIcons == <<[x |-> 8, y |-> 50, app |-> TERMINAL], [x |-> 8, y |-> 435, app |-> ABOUT]>>

\* Nothing reads the selection, the item a closed menu had selected, or the age
\* of a click that is too old to count.
MCView == <<stackVars, dragVars, g_startmenu, IF g_startmenu THEN g_menu_hover ELSE 0,
            g_last_click_icon, g_mouse, prev_btn,
            IF g_last_click_icon # 0 /\ since < DBLCLICK_MS THEN since ELSE LONG_AGO>>

==============================================================================
