-------------------------------- MODULE MCShell --------------------------------
(***************************************************************************)
(* Shell for TLC: two scripts that run each other, a package of two files, *)
(* one that is cut short and one without install.cfg, and lines that nest, *)
(* redirect and fail.                                                      *)
(***************************************************************************)
EXTENDS Shell

C(name, args) == [name |-> name, args |-> args, out |-> <<>>, append |-> FALSE]
Into(cmd, out) == [cmd EXCEPT !.out = out]
Onto(cmd, out) == [cmd EXCEPT !.out = out, !.append = TRUE]
One(cmd) == [cmds |-> <<cmd>>, ops |-> <<>>]
Two(a, op, b) == [cmds |-> <<a, b>>, ops |-> <<op>>]
Three(a, op, b, op2, c) == [cmds |-> <<a, b, c>>, ops |-> <<op, op2>>]

W(s) == <<s>>                 \* a relative word of one segment
At(s) == <<"/", s>>           \* an absolute one
MCVarOf == [x \in {"$A"} |-> "A"]

MCLineOf ==
  [ll |-> One(C("ls", <<>>)), la |-> One(C("ls", <<>>)), cls |-> One(C("clear", <<>>)),
   q |-> One(C("exit", <<>>)),
   copies |-> One(Into(C("cp", <<At("p"), <<"/", "d", "g">>>>), At("f"))),
   runb |-> One(Into(C("b.sh", <<>>), W("f"))),
   leave |-> Two(C("exit", <<>>), "&&", C("cat", <<At("p")>>)),
   runa |-> Three(C("a.sh", <<>>), "&&", C("false", <<>>), "||", C("touch", <<W("t")>>))]
  @@ (".." :> One(C("cd", <<W("..")>>))) @@ ("..." :> One(C("cd", <<<<"..", "..">>>>)))

MCNFiles == [hdr2 |-> 2, hdr1 |-> 1]
MCEntryOf ==
  [cfg |-> [name |-> W("install.cfg"), size |-> 1, cfg |-> TRUE, dest |-> <<"/", "n", "m">>],
   big |-> [name |-> W("big"), size |-> 2, cfg |-> FALSE, dest |-> <<>>],
   abs |-> [name |-> <<"/", "d", "abs">>, size |-> 2, cfg |-> FALSE, dest |-> <<>>]]

Whole == <<"hdr2", "cfg", "c1", "big", "b1", "b2">>
MCTrees ==
  {(<<"d">> :> Dir) @@ (<<"a.sh">> :> File(<<"runb", "leave">>)) @@ (<<"b.sh">> :> File(<<"runa">>))
   @@ (<<"p">> :> File(p)) @@ (<<"p.e32">> :> File(<<"text">>))
   : p \in {Whole, SubSeq(Whole, 1, 5), <<"hdr1", "abs", "x1", "x2">>, <<"hdr1", "abs", "x1">>}}

MCTyped ==
  {One(C("a.sh", <<>>)),
   Two(C("source", <<At("b.sh")>>), "|", C("unknown", <<>>)),
   Three(C("false", <<>>), "||", C("cp", <<At("p"), W("g")>>), "&&", C("install", <<W("g")>>)),
   One(Into(C("install", <<At("p")>>), At("f"))),
   One(Onto(C("echo", <<W("x")>>), At("p"))),
   One(Into(C("echo", <<W("x")>>), <<"no", "f">>)),
   Two(C("mkdir", <<W("n")>>), "&&", C("cd", <<W("n")>>)),
   Two(C("mv", <<At("p"), <<"/", "d", "p">>>>), "&&", C("install", <<<<"/", "d", "p">>>>)),
   One(C("rm", <<At("d")>>)),
   One(C("write", <<At("f")>>)),
   Three(C("alias", <<W("r"), W("copies")>>), "&&", C("set", <<W("A"), W("x")>>), "&&", C("r", <<>>)),
   Two(C("unalias", <<W("ll")>>), "&&", C("ll", <<>>)),
   Three(C("set", <<W("A"), At("d")>>), "&&", C("export", <<W("A")>>), "&&", C("cd", <<W("$A")>>)),
   Three(C("unset", <<W("HOME")>>), "&&", C("cd", <<>>), "&&", C("..", <<>>)),
   Three(C("p.e32", <<>>), "||", C("cd", <<W("-")>>), "|", C("ll", <<W("d")>>)),
   One(C("q", <<>>))}

MCClicked ==
  {C("a.sh", <<>>), C("install", <<At("p")>>), C("cp", <<At("p"), W("g")>>), C("exit", <<>>)}

MCProgramFiles == {<<"o">>}

MCCodes == {-1, 0, 3}

==============================================================================
