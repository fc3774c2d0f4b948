------------------------------ MODULE Environment ------------------------------
(***************************************************************************)
(* Names and what they stand for: the environment of kernel/initramfs/     *)
(* initramfs.c, the shell's variables and aliases, and path resolution     *)
(* (shell/shell.c).                                                        *)
(*                                                                         *)
(* A word is a sequence of segments, the first "/" if it is absolute, and  *)
(* a path one of names from the root.  A table is a function from the keys *)
(* it holds: the order of its slots shows in listings only.                *)
(***************************************************************************)
EXTENDS Integers, FiniteSets, SequencesExt, Functions, TLC

CONSTANTS
  MAX_ENV_VARS, SHELL_MAX_VARS, SHELL_MAX_ALIASES,   \* 64, 64 and 32 in the code
  VarOf   \* the name of the variable that a word like $A stands for

ASSUME EnvironmentAssumption ==
  MAX_ENV_VARS \in Nat /\ SHELL_MAX_VARS \in Nat /\ SHELL_MAX_ALIASES \in Nat

EmptyTable == <<>>

\* A full table takes no new key, and says nothing.
Put(table, max, key, value) ==
  IF key \in DOMAIN table \/ Cardinality(DOMAIN table) < max THEN (key :> value) @@ table ELSE table
Dropped(table, key) == Restrict(table, DOMAIN table \ {key})

env_set(env, key, value) == Put(env, MAX_ENV_VARS, key, value)
env_unset(env, key) == Dropped(env, key)
var_set(vars, name, value) == Put(vars, SHELL_MAX_VARS, name, value)
alias_set(aliases, name, command) == Put(aliases, SHELL_MAX_ALIASES, name, command)
unalias(aliases, name) == Dropped(aliases, name)

\* The empty word where there is neither a variable nor an environment entry.
var_get(vars, env, name) ==
  IF name \in DOMAIN vars THEN vars[name] ELSE IF name \in DOMAIN env THEN env[name] ELSE <<>>

expand_var(vars, env, word) ==
  IF word # <<>> /\ word[1] \in DOMAIN VarOf THEN var_get(vars, env, VarOf[word[1]]) ELSE word

\* initramfs_start, and what login_screen puts over it.
DefaultEnv ==
  [PATH |-> <<"/", "bin">>, HOME |-> <<"/", "root">>, USER |-> <<"root">>,
   LOGNAME |-> <<"root">>, SHELL |-> <<"/", "bin", "esh">>, TERM |-> <<"eclipse-vt100">>,
   OS |-> <<"Eclipse32">>, VERSION |-> <<"0.1.0">>, ARCH |-> <<"x86-32">>,
   HOSTNAME |-> <<"eclipse">>, PWD |-> <<"/">>, OLDPWD |-> <<"/">>, PS1 |-> <<"prompt">>,
   IFS |-> <<"blanks">>] @@ ("?" :> <<"0">>)
LoggedIn(env) ==
  [env EXCEPT !.USER = <<"root">>, !.LOGNAME = <<"root">>, !.HOME = <<"/", "root">>,
              !.PWD = <<"/", "root">>, !.OLDPWD = <<"/", "root">>]

\* The aliases that shell_main sets, whose texts are named by the same names.
DefaultAliases == [name \in {"ll", "la", "cls", "..", "...", "q"} |-> name]

Absolute(word) == word # <<>> /\ word[1] = "/"
Walk(path, segment) ==
  CASE segment = "."                   -> path
    [] segment = ".." /\ path = <<>>   -> path
    [] segment = ".." /\ path # <<>>   -> Front(path)
    [] OTHER                           -> Append(path, segment)
path_resolve(cwd, word) ==
  FoldLeft(Walk, <<>>, IF Absolute(word) THEN Tail(word) ELSE cwd \o word)

==============================================================================
