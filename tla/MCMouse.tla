------------------------------- MODULE MCMouse --------------------------------
(***************************************************************************)
(* Mouse for TLC: a ring of three slots, two of them usable, so that three *)
(* packets fill it with events to keep in order and one to refuse, and a   *)
(* screen of three by two.                                                 *)
(* As first bytes, the movement -10 is refused and 10 taken for a packet   *)
(* that holds the right button.                                            *)
(***************************************************************************)
EXTENDS Mouse

MCDelta == {-10, 10}
MCHeld == {{}, {"left"}}

==============================================================================
