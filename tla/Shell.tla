--------------------------------- MODULE Shell ---------------------------------
(***************************************************************************)
(* The shell esh (shell/shell.c), from the login to its end, with the      *)
(* package installer (shell/ins_pkg.c) that its command install runs.      *)
(* Calls in progress are frames on the stack ctl, the innermost first; a   *)
(* step does what one of them does until it calls, writes or returns.      *)
(*                                                                         *)
(* A line is [cmds, ops]: commands with "&&", "||" and "|" between them,   *)
(* set off by spaces; a command is [name, args, out, append], with a file  *)
(* to redirect to or the empty word.  Blocks of a script are names of      *)
(* lines.  A package starts with a block that gives its number of files;   *)
(* each has a block of EntryOf before those of its data.                   *)
(***************************************************************************)
EXTENDS Environment, Volume

CONSTANTS
  SHELL_SCRIPT_DEPTH,   \* 16 in the code
  LineOf,               \* name -> line: aliases' texts and scripts' lines
  NFiles, EntryOf,      \* header -> files; name -> [name, size, cfg, dest]
  Typed,                \* the lines typed at the prompt
  Clicked,              \* the commands entered in the desktop's terminal
  Quiet, Reader,        \* built-ins that touch no file, and that read one
  Scripts, Programs,    \* names that end in .sh and in .e32
  ProgramFiles,         \* the files that programs write and remove
  Codes,                \* what programs answer, and exit's argument may be
  Trees, Caps,          \* the disks to start with, and their clusters
  MaxLines              \* bound: lines entered

ASSUME ShellAssumption ==
  /\ SHELL_SCRIPT_DEPTH \in Nat \ {0} /\ MaxLines \in Nat
  /\ Codes \subseteq Int /\ Caps \subseteq Nat

VARIABLES
  ctl,      \* the frames
  sh,       \* the shell's own variables
  d, fds,   \* the disk, and the descriptors that the shell has open
  strays,   \* the descriptors that programs have opened and not closed
  cap,      \* the clusters of the disk
  place,    \* "login", "prompt" of the text screen, "desktop" or "stopped"
  left      \* lines still to come
vars == <<ctl, sh, d, fds, strays, cap, place, left>>

NewShell(env, aliases) ==
  [last_exit_code |-> 0, shell_running |-> TRUE, script_depth |-> 0, cwd |-> <<>>,
   env |-> env, vars |-> EmptyTable, aliases |-> aliases]

\* kmain goes to the desktop or, without a framebuffer, to the login; only
\* initramfs_start and shell_main fill the tables.
Init ==
  /\ ctl = <<>> /\ fds = {} /\ strays = {} /\ left = MaxLines
  /\ d \in Trees /\ cap \in Caps
  /\ \/ place = "desktop" /\ sh = NewShell(EmptyTable, EmptyTable)
     \/ place = "login" /\ sh = NewShell(DefaultEnv, EmptyTable)

Top == Head(ctl)
Rest == Tail(ctl)
On(k) == ctl # <<>> /\ Top.k = k
Resolved(word) == path_resolve(sh.cwd, word)
Exits(s, code) == [s EXCEPT !.last_exit_code = code]
Closed(open, fd) == open \ {fd}
Taken == fds \cup strays
Still == UNCHANGED <<strays, cap, place, left>>
SameFiles == UNCHANGED <<d, fds>>

\* A call returns, with an exit code or leaving the last one; or it calls.
Return == ctl' = Rest /\ UNCHANGED sh
ReturnCode(code) == ctl' = Rest /\ sh' = Exits(sh, code)
Calls(frames) == ctl' = frames \o Rest /\ UNCHANGED sh

Line(line) == [k |-> "line", line |-> line]
After(op, line) == [k |-> op, line |-> line]
Cmd(cmd) == [k |-> "cmd", cmd |-> cmd]
Zero == [k |-> "zero"]   \* run_builtin's last_exit_code = 0
ScriptCall(path) == [k |-> "run", path |-> path]

------------------------------------------------------------------------------
\* Lines.

Leftmost(line, op) == SelectInSeq(line.ops, LAMBDA o : o = op)
Before(line, i) == [cmds |-> SubSeq(line.cmds, 1, i), ops |-> SubSeq(line.ops, 1, i - 1)]
Behind(line, i) ==
  [cmds |-> SubSeq(line.cmds, i + 1, Len(line.cmds)), ops |-> SubSeq(line.ops, i + 1, Len(line.ops))]

\* The whole line is expanded before any of it runs; what expands to nothing is
\* no argument.
Expanded(word) == expand_var(sh.vars, sh.env, word)
expand_vars(line) ==
  [line EXCEPT !.cmds = [i \in DOMAIN @ |->
     [@[i] EXCEPT !.args = SelectSeq([j \in DOMAIN @ |-> Expanded(@[j])], LAMBDA w : w # <<>>),
                  !.out = Expanded(@)]]]

\* execute_line: the first "&&" splits, then the first "||", then the first "|".
Split ==
  /\ On("line") /\ Top.line.ops # <<>>
  /\ LET line == expand_vars(Top.line)
     IN  \E op \in {"&&", "||", "|"} :
           LET i == Leftmost(line, op)
           IN  /\ i # 0
               /\ op = "||" => Leftmost(line, "&&") = 0
               /\ op = "|" => Leftmost(line, "&&") = 0 /\ Leftmost(line, "||") = 0
               /\ Calls(<<Line(Before(line, i)), After(op, Behind(line, i))>>)
  /\ SameFiles /\ Still

SecondHalf ==
  /\ On("&&") \/ On("||") \/ On("|")
  /\ IF (Top.k = "&&" => sh.last_exit_code = 0) /\ (Top.k = "||" => sh.last_exit_code # 0)
     THEN Calls(<<Line(Top.line)>>) ELSE Return
  /\ SameFiles /\ Still

OneCommand == On("line") /\ Top.line.ops = <<>>
TheCommand == expand_vars(Top.line).cmds[1]

PlainCommand ==
  /\ OneCommand /\ TheCommand.out = <<>>
  /\ Calls(<<Cmd(TheCommand)>>)
  /\ SameFiles /\ Still

\* What echo writes is a line of text; a full disk drops it.
Redirected ==
  /\ OneCommand /\ TheCommand.out # <<>>
  /\ LET path == Resolved(TheCommand.out)
         r == fat32_open(d, cap, Taken, path, IF TheCommand.append THEN "append" ELSE "trunc")
     IN  \/ r.fd = NoFd /\ d' = r.d /\ UNCHANGED fds /\ ReturnCode(1)
         \/ /\ r.fd # NoFd /\ TheCommand.name = "echo"
            /\ d' = fat32_write(r.d, cap, path, "text")
            /\ UNCHANGED fds /\ ReturnCode(0)
         \/ /\ r.fd # NoFd /\ TheCommand.name # "echo"
            /\ d' = r.d /\ fds' = fds \cup {r.fd}
            /\ Calls(<<Cmd(TheCommand), [k |-> "redirect", fd |-> r.fd]>>)
  /\ Still

RedirectEnds ==
  /\ On("redirect")
  /\ fds' = Closed(fds, Top.fd)
  /\ Return /\ UNCHANGED d /\ Still

------------------------------------------------------------------------------
\* execute_cmd.

Name == Top.cmd.name
Args == Top.cmd.args
IsAlias == Name \in DOMAIN sh.aliases
Runs(name) == On("cmd") /\ ~IsAlias /\ Name = name

\* The arguments follow whatever the alias' text ends with.
Alias ==
  /\ On("cmd") /\ IsAlias
  /\ LET line == LineOf[sh.aliases[Name]]
     IN  Calls(<<Line([line EXCEPT !.cmds[Len(line.cmds)].args = @ \o Args])>>)
  /\ SameFiles /\ Still

\* Most built-ins end with exit code 0 whatever they have met.
QuietOne ==
  /\ On("cmd") /\ ~IsAlias /\ Name \in Quiet
  /\ ReturnCode(0) /\ SameFiles /\ Still

\* cat, head, tail, hexdump, wc, wavplay.
ReadOne ==
  /\ On("cmd") /\ ~IsAlias /\ Name \in Reader
  /\ LET r == fat32_open(d, cap, Taken, Resolved(Args[1]), "read")
     IN  fds' = Closed(fds \cup {r.fd}, r.fd)
  /\ UNCHANGED d /\ ReturnCode(0) /\ Still

False == Runs("false") /\ ReturnCode(1) /\ SameFiles /\ Still

\* OLDPWD is what it was until a cd succeeds.
cd ==
  /\ Runs("cd")
  /\ LET env == sh.env
         home == IF "HOME" \in DOMAIN env THEN env["HOME"] ELSE <<"/">>
         target == IF Args = <<>> THEN home
                   ELSE IF Args[1] = <<"-">> /\ "OLDPWD" \in DOMAIN env THEN env["OLDPWD"]
                   ELSE Args[1]
         path == Resolved(target)
     IN  /\ ctl' = Rest
         /\ sh' = IF ~IsDir(d, path) \/ target = <<"-">> THEN Exits(sh, 0)
                  ELSE [Exits(sh, 0) EXCEPT
                          !.cwd = path,
                          !.env = env_set(env_set(@, "OLDPWD", <<"/">> \o sh.cwd),
                                          "PWD", <<"/">> \o path)]
  /\ SameFiles /\ Still

touch ==
  /\ Runs("touch")
  /\ LET r == fat32_open(d, cap, Taken, Resolved(Args[1]), "append")
     IN  /\ d' = r.d /\ fds' = Closed(fds \cup {r.fd}, r.fd)
         /\ ReturnCode(IF r.fd = NoFd THEN 1 ELSE 0)
  /\ Still

mkdir ==
  /\ Runs("mkdir")
  /\ LET path == Resolved(Args[1])
         ok == ~Exists(d, path) /\ CanAdd(d, cap, path)
     IN  /\ d' = IF ok THEN fat32_mkdir(d, path) ELSE d
         /\ ReturnCode(IF ok THEN 0 ELSE 1)
  /\ UNCHANGED fds /\ Still

\* Of the clusters that d' shows no more, n are free; nobody finds the others.
Frees(n) == cap' = cap + Room(d, cap) + n - Room(d', cap)

\* A directory's own chain is freed, and not what is in it.
rm ==
  /\ Runs("rm")
  /\ LET path == Resolved(Args[1])
         ok == path \in DOMAIN d
     IN  /\ d' = IF ok THEN fat32_delete(d, path) ELSE d
         /\ Frees(IF ok THEN Clusters(d[path]) ELSE 0)
         /\ ReturnCode(IF ok THEN 0 ELSE 1)
  /\ UNCHANGED <<fds, strays, place, left>>

\* Of two entries of one name, which a name in use leaves, either may be the one
\* that is found (the other is not followed); in itself a directory is not found.
mv ==
  /\ Runs("mv")
  /\ LET old == Resolved(Args[1])
         new == Resolved(Args[2])
         ok == old \in DOMAIN d /\ new # <<>> /\ IsDir(d, Front(new))
         moved == {fat32_rename(fat32_delete(d, new), old, new)}
         unseen == {fat32_delete(d, old)}
     IN  /\ d' \in IF ~ok THEN {d}
                   ELSE IF old = new THEN {d}
                   ELSE IF IsPrefix(old, new) THEN unseen
                   ELSE IF Exists(d, new) THEN moved \cup unseen ELSE moved
         /\ Frees(0)
         /\ ReturnCode(IF ok THEN 0 ELSE 1)
  /\ UNCHANGED <<fds, strays, place, left>>

\* Mutant: the source stays open where there is no destination.
RefusedOpen(open, fi) == open

\* The descriptors when cp cannot open its destination.
Refused(open, fi) == Closed(open, fi)

cp ==
  /\ Runs("cp")
  /\ LET from == Resolved(Args[1])
         to == Resolved(Args[2])
         i == fat32_open(d, cap, Taken, from, "read")
         open == fds \cup {i.fd}
         o == fat32_open(d, cap, open \cup strays, to, "trunc")
     IN  \/ i.fd = NoFd /\ ReturnCode(1) /\ SameFiles
         \/ /\ i.fd # NoFd /\ o.fd = NoFd
            /\ d' = o.d /\ fds' = Refused(open, i.fd)
            /\ ReturnCode(1)
         \/ /\ i.fd # NoFd /\ o.fd # NoFd
            /\ d' = o.d /\ fds' = open \cup {o.fd}
            /\ Calls(<<[k |-> "copy", fi |-> i.fd, fo |-> o.fd, to |-> to,
                        rest |-> IF IsFile(o.d, from) THEN o.d[from].text ELSE <<>>]>>)
  /\ Still

\* Nobody looks whether a block was written.
CopyBlock ==
  /\ On("copy") /\ Top.rest # <<>>
  /\ d' = fat32_write(d, cap, Top.to, Head(Top.rest))
  /\ Calls(<<[Top EXCEPT !.rest = Tail(@)]>>)
  /\ UNCHANGED fds /\ Still

CopyEnds ==
  /\ On("copy") /\ Top.rest = <<>>
  /\ fds' = Closed(Closed(fds, Top.fi), Top.fo)
  /\ ReturnCode(0) /\ UNCHANGED d /\ Still

write ==
  /\ Runs("write")
  /\ LET path == Resolved(Args[1])
         r == fat32_open(d, cap, Taken, path, IF Len(Args) > 1 THEN "append" ELSE "trunc")
     IN  \/ r.fd = NoFd /\ d' = r.d /\ UNCHANGED fds /\ ReturnCode(1)
         \/ /\ r.fd # NoFd /\ d' = r.d /\ fds' = fds \cup {r.fd}
            /\ Calls(<<[k |-> "write", fd |-> r.fd, to |-> path]>>)
  /\ Still

\* The user's, for as long as it takes.
WriteLine ==
  /\ On("write")
  /\ Len(d[Top.to].text) < 2   \* bound: lines of the text
  /\ d' = fat32_write(d, cap, Top.to, "text")
  /\ UNCHANGED <<ctl, sh, fds>> /\ Still

WriteDot ==
  /\ On("write")
  /\ fds' = Closed(fds, Top.fd)
  /\ ReturnCode(0) /\ UNCHANGED d /\ Still

\* The loop of shell_main ends when the line does; a script goes on.
exit ==
  /\ Runs("exit")
  /\ ctl' = Rest
  /\ \E code \in IF Args = <<>> THEN {0} ELSE Codes :
       sh' = [Exits(sh, code) EXCEPT !.shell_running = FALSE]
  /\ SameFiles /\ Still

Tables(s) == sh' = Exits(s, 0) /\ ctl' = Rest /\ SameFiles /\ Still
Arg(i) == Args[i][1]

export ==
  /\ Runs("export")
  /\ LET value == IF Len(Args) > 1 THEN Args[2] ELSE var_get(sh.vars, sh.env, Arg(1))
     IN  Tables(IF value = <<>> THEN sh ELSE [sh EXCEPT !.env = env_set(@, Arg(1), value)])

set == Runs("set") /\ Tables([sh EXCEPT !.vars = var_set(@, Arg(1), Args[2])])
unset == Runs("unset") /\ Tables([sh EXCEPT !.env = env_unset(@, Arg(1))])
alias == Runs("alias") /\ Tables([sh EXCEPT !.aliases = alias_set(@, Arg(1), Arg(2))])
unalias_ == Runs("unalias") /\ Tables([sh EXCEPT !.aliases = unalias(@, Arg(1))])

source ==
  /\ Runs("source")
  /\ Calls(<<ScriptCall(Resolved(Args[1])), Zero>>)
  /\ SameFiles /\ Still

ZeroEnds == On("zero") /\ ReturnCode(0) /\ SameFiles /\ Still

\* By its name's ending; the loader opens and closes the file on its own.
Script ==
  /\ On("cmd") /\ ~IsAlias /\ Name \in Scripts
  /\ Calls(<<ScriptCall(Resolved(<<Name>>))>>)
  /\ SameFiles /\ Still

\* The loader closes the file before the program runs; one that it does not run
\* answers a negative code.
Program ==
  /\ On("cmd") /\ ~IsAlias /\ Name \in Programs
  /\ LET r == fat32_open(d, cap, Taken, Resolved(<<Name>>), "read")
     IN  \/ ReturnCode(126)
         \/ r.fd # NoFd /\ Calls(<<[k |-> "program"]>>)
  /\ SameFiles /\ Still

Known ==
  Quiet \cup Reader \cup Scripts \cup Programs \cup
  {"false", "cd", "touch", "mkdir", "rm", "mv", "cp", "write", "exit", "export", "set", "unset",
   "alias", "unalias", "source", "install"}
Unknown == On("cmd") /\ ~IsAlias /\ Name \notin Known /\ ReturnCode(127) /\ SameFiles /\ Still

------------------------------------------------------------------------------
\* A program's system calls.  Nobody closes what it leaves open, and nothing but
\* the program itself brings it to return.

Running == On("program")
CallsKernel == UNCHANGED <<ctl, sh, fds, cap, place, left>>

ProgramOpens ==
  /\ Running /\ LowestFree(Taken) # NoFd
  /\ strays' = strays \cup {LowestFree(Taken)}
  /\ UNCHANGED d /\ CallsKernel

ProgramCloses ==
  /\ Running
  /\ \E fd \in strays : strays' = strays \ {fd}
  /\ UNCHANGED d /\ CallsKernel

\* It opens a file, appends to it and closes it.
ProgramSaves ==
  /\ Running
  /\ \E path \in ProgramFiles :
       LET r == fat32_open(d, cap, Taken, path, "append")
       IN  /\ ~IsDir(d, path) /\ (IsFile(d, path) => d[path].text = <<>>)   \* bound: its text
           /\ d' = IF r.fd = NoFd THEN r.d ELSE fat32_write(r.d, cap, path, "text")
  /\ UNCHANGED strays /\ CallsKernel

ProgramRemoves ==
  /\ Running
  /\ \E path \in ProgramFiles : IsFile(d, path) /\ d' = fat32_delete(d, path)
  /\ UNCHANGED strays /\ CallsKernel

ProgramReturns ==
  /\ Running
  /\ \E rc \in Codes : ReturnCode(IF rc < 0 THEN 126 ELSE rc)
  /\ SameFiles /\ Still

------------------------------------------------------------------------------
\* shell_run_script.  What is not run leaves the exit code as it was.

\* Mutant: the line that was run is not passed over.
SameLines(lines) == lines
NextLines(lines) == Tail(lines)

RunScript ==
  /\ On("run")
  /\ LET r == fat32_open(d, cap, Taken, Top.path, "read")
     IN  IF sh.script_depth >= SHELL_SCRIPT_DEPTH \/ r.fd = NoFd
         THEN Return /\ SameFiles
         ELSE \/ Return /\ fds' = Closed(fds \cup {r.fd}, r.fd) /\ UNCHANGED d   \* no memory
              \/ /\ ctl' = <<[k |-> "script", lines |-> d[Top.path].text]>> \o Rest
                 /\ sh' = [sh EXCEPT !.script_depth = @ + 1]
                 /\ fds' = Closed(fds \cup {r.fd}, r.fd) /\ UNCHANGED d
  /\ Still

\* Text that is no line of a script is an unknown command.
Junk == [cmds |-> <<[name |-> "unknown", args |-> <<>>, out |-> <<>>, append |-> FALSE]>>,
         ops |-> <<>>]
ScriptLine ==
  /\ On("script") /\ Top.lines # <<>>
  /\ LET name == Head(Top.lines)
     IN  Calls(<<Line(IF name \in DOMAIN LineOf THEN LineOf[name] ELSE Junk),
                 [Top EXCEPT !.lines = NextLines(@)]>>)
  /\ SameFiles /\ Still

ScriptEnds ==
  /\ On("script") /\ Top.lines = <<>>
  /\ ctl' = Rest /\ sh' = [sh EXCEPT !.script_depth = @ - 1]
  /\ SameFiles /\ Still

------------------------------------------------------------------------------
\* ins_install_from_file.  Its frame has the package's descriptor, path and text,
\* where in the text it reads, how many files are left, the directory DEST and,
\* while a file is written, its descriptor, path and blocks left.

HasHeader(text) == text # <<>> /\ text[1] \in DOMAIN NFiles
IsEntry(text, pos) == pos \in DOMAIN text /\ text[pos] \in DOMAIN EntryOf

\* The positions of the entries, as far as the text has them.
Entries(text) ==
  LET Next1(ps, i) ==
        LET last == ps[Len(ps)]
        IN  IF IsEntry(text, last) THEN Append(ps, last + 1 + EntryOf[text[last]].size) ELSE ps
  IN  IF HasHeader(text)
      THEN SelectSeq(FoldLeft(Next1, <<2>>, [i \in 1..NFiles[text[1]] - 1 |-> i]),
                     LAMBDA p : IsEntry(text, p))
      ELSE <<>>
Complete(text) == HasHeader(text) /\ Len(Entries(text)) = NFiles[text[1]]
Data(text, pos) ==
  SubSeq(text, pos + 1,
         IF pos + EntryOf[text[pos]].size <= Len(text) THEN pos + EntryOf[text[pos]].size
         ELSE Len(text))

\* Where pass_load_cfg finds install.cfg, 0 if it is not among the files.
CfgAt(text) ==
  LET cfgs == SelectSeq(Entries(text), LAMBDA p : EntryOf[text[p]].cfg)
  IN  IF cfgs = <<>> THEN 0 ELSE cfgs[1]

\* It reads up to there, and its data, or else to the end.
pass_load_cfg(text) ==
  LET pos == CfgAt(text)
  IN  [ok   |-> IF pos = 0 THEN Complete(text)
                ELSE Len(Data(text, pos)) = EntryOf[text[pos]].size,
       dest |-> IF pos = 0 THEN <<"/", "apps">> ELSE EntryOf[text[pos]].dest]

join_dest(dest, name) == path_resolve(<<>>, IF Absolute(name) THEN name ELSE dest \o name)

\* The directories above stay where a lower one cannot be made.
mkdir_p(tree, path) ==
  FoldLeft(LAMBDA acc, i :
             LET p == SubSeq(path, 1, i)
             IN  IF ~acc.ok \/ IsDir(acc.d, p) THEN acc
                 ELSE IF ~Exists(acc.d, p) /\ CanAdd(acc.d, cap, p)
                 THEN [acc EXCEPT !.d = fat32_mkdir(@, p)]
                 ELSE [acc EXCEPT !.ok = FALSE],
           [ok |-> TRUE, d |-> tree], [i \in DOMAIN path |-> i])

Install ==
  /\ Runs("install")
  /\ LET path == Resolved(Args[1])
         r == fat32_open(d, cap, Taken, path, "read")
         text == IF IsFile(d, path) THEN d[path].text ELSE <<>>
         cfg == pass_load_cfg(text)
         dest == mkdir_p(d, path_resolve(<<>>, cfg.dest))
     IN  IF r.fd = NoFd \/ ~cfg.ok \/ ~dest.ok
         THEN /\ d' = IF r.fd # NoFd /\ cfg.ok THEN dest.d ELSE d
              /\ fds' = Closed(fds \cup {r.fd}, r.fd)
              /\ ReturnCode(0)
         ELSE /\ d' = dest.d /\ fds' = fds \cup {r.fd}
              /\ Calls(<<[k |-> "install", fi |-> r.fd, path |-> path, text |-> text, pos |-> 2,
                          files |-> NFiles[text[1]], dest |-> cfg.dest], Zero>>)
  /\ Still

InstallFails == fds' = Closed(fds, Top.fi) /\ Return

InstallFile ==
  /\ On("install") /\ Top.files > 0
  /\ LET pos == Top.pos
         entry == EntryOf[Top.text[pos]]
         out == join_dest(Top.dest, entry.name)
         dir == mkdir_p(d, Front(out))
         r == fat32_open(dir.d, cap, Taken, out, "trunc")
         next == [Top EXCEPT !.pos = pos + 1 + entry.size, !.files = @ - 1]
     IN  \/ ~IsEntry(Top.text, pos) /\ UNCHANGED d /\ InstallFails
         \/ /\ IsEntry(Top.text, pos) /\ entry.cfg
            /\ Calls(<<next>>) /\ SameFiles
         \/ /\ IsEntry(Top.text, pos) /\ ~entry.cfg /\ (~dir.ok \/ r.fd = NoFd)
            /\ d' = IF dir.ok THEN r.d ELSE dir.d
            /\ InstallFails
         \/ /\ IsEntry(Top.text, pos) /\ ~entry.cfg /\ dir.ok /\ r.fd # NoFd
            /\ d' = r.d /\ fds' = fds \cup {r.fd}
            /\ Calls(<<[k |-> "unpack", fi |-> Top.fi, fo |-> r.fd, out |-> out, size |-> entry.size,
                        data |-> Data(Top.text, pos)], next>>)
  /\ Still

\* Mutant: the count that fat32_write answers is not looked at.
NeverFails(tree, out) == FALSE
WriteFails(tree, out) == ~Takes(tree, cap, out)

\* copy_out_stream.  The install frame below it fails with it.
UnpackBlock ==
  /\ On("unpack") /\ Top.size > 0
  /\ IF Top.data = <<>> \/ WriteFails(d, Top.out)
     THEN /\ fds' = Closed(Closed(fds, Top.fo), Top.fi)
          /\ ctl' = Tail(Rest) /\ UNCHANGED <<sh, d>>
     ELSE /\ d' = fat32_write(d, cap, Top.out, Head(Top.data))
          /\ Calls(<<[Top EXCEPT !.data = Tail(@), !.size = @ - 1]>>)
          /\ UNCHANGED fds
  /\ Still

UnpackEnds ==
  /\ On("unpack") /\ Top.size = 0
  /\ fds' = Closed(fds, Top.fo)
  /\ Return /\ UNCHANGED d /\ Still

InstallEnds ==
  /\ On("install") /\ Top.files = 0
  /\ fds' = Closed(fds, Top.fi)
  /\ d' = fat32_delete(d, Top.path)
  /\ Return /\ Still

------------------------------------------------------------------------------
\* login_screen, shell_main and shell_exec_line.

Login(correct) ==
  /\ place = "login"
  /\ IF correct
     THEN /\ place' = "prompt"
          /\ sh' = [sh EXCEPT !.env = LoggedIn(@), !.aliases = DefaultAliases]
     ELSE UNCHANGED <<place, sh>>
  /\ UNCHANGED <<ctl, strays, cap, left>> /\ SameFiles

Enter(frame) ==
  /\ ctl = <<>> /\ left > 0
  /\ ctl' = <<frame, [k |-> "main"]>>
  /\ left' = left - 1
  /\ UNCHANGED <<sh, strays, cap, place>> /\ SameFiles

\* The exit code is set in the environment, or the shell stops, and the kernel.
LineEnds ==
  /\ On("main")
  /\ ctl' = Rest
  /\ IF place = "desktop" THEN UNCHANGED <<sh, place>>
     ELSE /\ sh' = [sh EXCEPT !.env = env_set(@, "?", <<ToString(sh.last_exit_code)>>)]
          /\ place' = IF sh.shell_running THEN place ELSE "stopped"
  /\ UNCHANGED <<strays, cap, left>> /\ SameFiles

Lines == Split \/ SecondHalf \/ PlainCommand \/ Redirected \/ RedirectEnds
Commands ==
  \/ Alias \/ QuietOne \/ ReadOne \/ False \/ cd \/ touch \/ mkdir \/ rm \/ mv \/ cp \/ write
  \/ exit \/ export \/ set \/ unset \/ alias \/ unalias_ \/ source \/ Script \/ Program
  \/ Unknown \/ Install
Calls_ ==
  \/ CopyBlock \/ CopyEnds \/ ZeroEnds \/ RunScript \/ ScriptLine \/ ScriptEnds
  \/ InstallFile \/ UnpackBlock \/ UnpackEnds \/ InstallEnds \/ LineEnds
Step == Lines \/ Commands \/ Calls_

User ==
  \/ \E correct \in BOOLEAN : Login(correct)
  \/ place = "prompt" /\ \E line \in Typed : Enter(Line(line))
  \/ place = "desktop" /\ \E cmd \in Clicked : Enter(Cmd(cmd))
  \/ WriteLine \/ WriteDot

TheProgram ==
  ProgramOpens \/ ProgramCloses \/ ProgramSaves \/ ProgramRemoves \/ ProgramReturns

\* The kernel has stopped, or the bound on lines is reached.
Over == ctl = <<>> /\ (place = "stopped" \/ left = 0) /\ UNCHANGED vars

Next == Step \/ User \/ TheProgram \/ Over

\* A call in progress has the processor until it returns, waits for the user or
\* runs a program.
\* This is WF_vars(Step), with the condition under which a Step is enabled (there
\* is no other state without a step: TLC looks for deadlocks) in place of ENABLED.
Busy == ctl # <<>> /\ ~On("write") /\ ~Running
Fairness == []<>~Busy \/ []<><<Busy>>_vars
Spec == Init /\ [][Next]_vars /\ Fairness

------------------------------------------------------------------------------
\* Properties.

Holds(f) ==
  CASE f.k \in {"redirect", "write"} -> {f.fd}
    [] f.k = "copy"                  -> {f.fi, f.fo}
    [] f.k = "install"               -> {f.fi}
    [] f.k = "unpack"                -> {f.fo}
    [] OTHER                         -> {}

\* shell.c:945-983, 1382-1401, 1558-1613, ins_pkg.c:185-325.  However redirections,
\* aliases, scripts and copies nest and fail, the descriptors that the shell has
\* open are those of the calls in progress, so that none is at the prompt, and as
\* many scripts run as are counted, never more than may.
FramesHoldAll ==
  /\ fds = UNION {Holds(ctl[i]) : i \in DOMAIN ctl}
  /\ sh.script_depth = Cardinality({i \in DOMAIN ctl : ctl[i].k = "script"})
  /\ sh.script_depth <= SHELL_SCRIPT_DEPTH

\* ins_pkg.c:240-325.  The installer leaves its package as it is until all of the
\* package's files are on the disk in full, and only then deletes it: a disk that
\* fills up, descriptors that programs have left open or a power cut never take
\* both.
Installed(f) ==
  \A i \in DOMAIN Entries(f.text) :
    LET pos == Entries(f.text)[i]
        entry == EntryOf[f.text[pos]]
        out == join_dest(f.dest, entry.name)
    IN  ~entry.cfg => IsFile(d, out) /\ d[out].text = Data(f.text, pos)
                      /\ Len(d[out].text) = entry.size
PackageSafe ==
  [][\A i \in DOMAIN ctl :
       ctl[i].k = "install" /\ (ctl[i].path \in DOMAIN d' => d'[ctl[i].path] # d[ctl[i].path])
         => i = 1 /\ Complete(ctl[i].text) /\ Installed(ctl[i])]_vars

\* shell.c:1382-1401, 1440-1613.  Every line that is entered comes to its end, or
\* to where the user is asked for text or a program runs, scripts that run each
\* other included.
LinesReturn == []<>(ctl = <<>> \/ On("write") \/ Running)

==============================================================================
