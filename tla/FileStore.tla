------------------------------ MODULE FileStore ------------------------------
(***************************************************************************)
(* What the file calls promise to a caller that keeps the rules of use:    *)
(* a tree of byte strings under path names, and descriptors with a         *)
(* position in one of them.  A write may come short when the disk is full. *)
(*                                                                         *)
(* Two promises are as weak as the driver makes them: an open that finds   *)
(* no free descriptor may leave the new file behind, and a rename that     *)
(* fails may have lost the file.                                           *)
(***************************************************************************)
EXTENDS Integers, Sequences

CONSTANTS
  Path, Fd, Strings, Counts, Seeks, Dirs

VARIABLES
  tree,     \* path -> what is there: [dir, bytes]
  fds,      \* descriptor -> Closed, or an open file
  result    \* the latest call and its answer

storeVars == <<tree, fds, result>>

File(bytes) == [dir |-> FALSE, bytes |-> bytes]
Dir == [dir |-> TRUE, bytes |-> <<>>]
Closed == [open |-> FALSE]

Answered(op, ret, data) == result' = [op |-> op, ret |-> ret, data |-> data]

With(t, p, x) == [q \in DOMAIN t \cup {p} |-> IF q = p THEN x ELSE t[q]]
But(t, p) == [q \in DOMAIN t \ {p} |-> t[q]]

\* s with bytes put over it from pos on.
Overlay(s, pos, bytes) ==
  [i \in 1..(IF pos + Len(bytes) > Len(s) THEN pos + Len(bytes) ELSE Len(s)) |->
    IF i \in (pos + 1)..(pos + Len(bytes)) THEN bytes[i - pos] ELSE s[i]]

Clamped(n, s) == IF n < 0 THEN 0 ELSE IF n > Len(s) THEN Len(s) ELSE n

------------------------------------------------------------------------------
\* The calls, on a tree t and descriptors f.  Where a call answers -1 without
\* a word here, it changes nothing.

Refuse(t, f) ==
  /\ result'.op \in {"open", "write", "mkdir", "delete", "rename"}
  /\ result'.ret = -1
  /\ tree' = t /\ fds' = f

Open(t, f, p, mode) ==
  LET there == p \in DOMAIN t
      pos == IF mode = "append" /\ there THEN Len(t[p].bytes) ELSE 0
      new == [open |-> TRUE, path |-> p, pos |-> pos, writable |-> mode # "read"]
  IN  /\ result'.op = "open"
      /\ there \/ mode # "read"
      /\ \/ /\ result'.ret \in Fd /\ ~f[result'.ret].open
            /\ fds' = [f EXCEPT ![result'.ret] = new]
            /\ tree' = IF there /\ mode # "rewrite" THEN t ELSE With(t, p, File(<<>>))
         \/ /\ result'.ret = -1
            /\ \A fd \in Fd : f[fd].open
            /\ fds' = f
            /\ tree' = IF there THEN t ELSE With(t, p, File(<<>>))

Close(t, f, fd) ==
  /\ Answered("close", 0, <<>>)
  /\ fds' = [f EXCEPT ![fd] = Closed]
  /\ tree' = t

Read(t, f, fd, count) ==
  LET s == t[f[fd].path].bytes
      end == Clamped(f[fd].pos + count, s)
  IN  /\ result'.op = "read"
      /\ Answered("read", end - f[fd].pos, SubSeq(s, f[fd].pos + 1, end))
      /\ fds' = [f EXCEPT ![fd].pos = end]
      /\ tree' = t

Write(t, f, fd, bytes) ==
  /\ result'.op = "write"
  /\ f[fd].writable
  /\ result'.ret \in 0..Len(bytes)
  /\ fds' = [f EXCEPT ![fd].pos = @ + result'.ret]
  /\ tree' = [t EXCEPT ![f[fd].path].bytes =
                Overlay(@, f[fd].pos, SubSeq(bytes, 1, result'.ret))]

Seek(t, f, fd, offset) ==
  LET s == t[f[fd].path].bytes
  IN  /\ result'.op = "seek"
      /\ \E base \in {0, f[fd].pos, Len(s)} :
           Answered("seek", Clamped(base + offset, s), <<>>)
      /\ fds' = [f EXCEPT ![fd].pos = result'.ret]
      /\ tree' = t

Mkdir(t, f, p) ==
  /\ Answered("mkdir", 0, <<>>)
  /\ p \notin DOMAIN t
  /\ tree' = With(t, p, Dir)
  /\ fds' = f

Delete(t, f, p) ==
  /\ Answered("delete", 0, <<>>)
  /\ p \in DOMAIN t
  /\ tree' = But(t, p)
  /\ fds' = f

Rename(t, f, old, new) ==
  /\ result'.op = "rename"
  /\ old \in DOMAIN t /\ new \notin DOMAIN t
  /\ tree' = IF result'.ret = 0 THEN But(With(t, new, t[old]), old) ELSE But(t, old)
  /\ fds' = f

------------------------------------------------------------------------------
StoreInit ==
  /\ \/ tree = [p \in {} |-> Dir]
     \/ \E p \in Path : tree = [q \in {p} |-> File(<<>>)]
  /\ fds = [fd \in Fd |-> Closed]
  /\ result = [op |-> "mount", ret |-> 0, data |-> <<>>]

StoreNext ==
  LET t == tree
      f == fds
  IN  \/ Refuse(t, f)
      \/ \E p \in Path :
           \/ \E mode \in {"read", "touch", "append", "rewrite"} : Open(t, f, p, mode)
           \/ Delete(t, f, p)
           \/ \E new \in Path : Rename(t, f, p, new)
      \/ \E p \in Dirs : Mkdir(t, f, p)
      \/ \E fd \in {x \in Fd : f[x].open} :
           \/ Close(t, f, fd)
           \/ \E count \in Counts : Read(t, f, fd, count)
           \/ \E seek \in Seeks : Seek(t, f, fd, seek[2])
           \/ \E bytes \in Strings : Write(t, f, fd, bytes)

StoreSpec == StoreInit /\ [][StoreNext]_storeVars

==============================================================================
