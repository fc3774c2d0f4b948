------------------------------- MODULE MCProcess -------------------------------
(***************************************************************************)
(* Process for TLC: pages of 16 bytes, an image of 104, sizes of 8 bits.   *)
(* One program leaves room for nine words, one for none.  The view leaves  *)
(* out what words hold that belong to no client, which nothing reads, and  *)
(* the answer, which every step that changes it determines.                *)
(***************************************************************************)
EXTENDS Process

MCErrors == {-10}

MCView ==
  <<running, g_app_exit_requested, g_app_exit_code, live, said,
    [arena EXCEPT !.mem = Restrict(@, UNION {Payload(h, live[h].n) : h \in DOMAIN live})]>>

==============================================================================
