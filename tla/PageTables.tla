------------------------------ MODULE PageTables ------------------------------
(***************************************************************************)
(* The page tables, kernel/mm/vmm.c, over the page allocator: a directory   *)
(* whose tables are allocated when first needed and never given back.       *)
(*                                                                          *)
(* A virtual page is a pair of a directory and a table index.  The page     *)
(* directory is taken as empty at the start: vmm.c says that stage2 set it  *)
(* up, where nothing does.  An allocated frame holds whatever was in it     *)
(* before.  vmm_init is a series of vmm_map.                                *)
(***************************************************************************)
EXTENDS Pages

CONSTANTS
  Dir,        \* directory indices: 1024 of them
  Index,      \* table indices: 1024
  Frame,      \* the frames that clients map
  JUNK        \* a present entry that nobody wrote

ASSUME TablesAssumption == JUNK \notin Frame /\ NONE \notin Frame /\ JUNK # NONE

VARIABLES
  page_dir,   \* directory index -> page of its table or NONE
  memory,     \* page -> its content, read as a table: index -> frame or NONE
  call        \* history: the call of vmm.c that the latest step was, if any

tableVars == <<page_dir, memory>>
vars == <<pmmVars, tableVars, call>>

Virt == Dir \X Index

vmm_get_phys(dir, mem, v) ==
  IF dir[v[1]] = NONE THEN NONE ELSE mem[dir[v[1]]][v[2]]

\* Mutant: the table is not cleared.
DirtyTable(p) == memory[p]

CleanTable(p) == [i \in Index |-> NONE]

Init ==
  /\ pmm_init
  /\ page_dir = [d \in Dir |-> NONE]
  /\ memory = [p \in Page |-> [i \in Index |-> JUNK]]
  /\ call = <<>>

\* The entry goes into the table that is there, or into a new one; without
\* memory for it the call returns silently.
vmm_map(v, frame) ==
  LET new == FirstFreePage(pmm_bitmap)
  IN  \/ /\ page_dir[v[1]] # NONE
         /\ memory' = [memory EXCEPT ![page_dir[v[1]]][v[2]] = frame]
         /\ UNCHANGED <<page_dir, pmmVars>>
      \/ /\ page_dir[v[1]] = NONE /\ new # NONE
         /\ pmm_alloc_page("table")
         /\ page_dir' = [page_dir EXCEPT ![v[1]] = new]
         /\ memory' = [memory EXCEPT ![new] = [CleanTable(new) EXCEPT ![v[2]] = frame]]
      \/ /\ page_dir[v[1]] = NONE /\ new = NONE
         /\ UNCHANGED <<tableVars, pmmVars>>

vmm_unmap(v) ==
  /\ memory' = IF page_dir[v[1]] = NONE THEN memory
               ELSE [memory EXCEPT ![page_dir[v[1]]][v[2]] = NONE]
  /\ UNCHANGED <<page_dir, pmmVars>>

\* A client writes to a page it holds.
Scribble(p) ==
  /\ owner[p] = "client"
  /\ memory' = [memory EXCEPT ![p] = [i \in Index |-> JUNK]]
  /\ UNCHANGED <<page_dir, pmmVars>>

Called(what) == call' = what

Next ==
  \/ pmmNext /\ UNCHANGED tableVars /\ Called(<<>>)
  \/ \E v \in Virt : vmm_unmap(v) /\ Called(<<"unmap", v>>)
  \/ \E v \in Virt, frame \in Frame : vmm_map(v, frame) /\ Called(<<"map", v, frame>>)
  \/ \E p \in Page : Scribble(p) /\ Called(<<>>)

Spec == Init /\ [][Next]_vars

------------------------------------------------------------------------------
\* Properties.

TablesTypeOK ==
  /\ PagesTypeOK
  /\ page_dir \in [Dir -> Page \cup {NONE}]
  /\ memory \in [Page -> [Index -> Frame \cup {NONE, JUNK}]]

TypeOK ==
  /\ TablesTypeOK
  /\ \/ call = <<>>
     \/ \E v \in Virt : call = <<"unmap", v>> \/ \E frame \in Frame : call = <<"map", v, frame>>

\* vmm.c:40-58.  Each table has a page of its own that the allocator will not
\* give to anybody else, whatever clients do with theirs.
TablesAreOwned ==
  /\ \A d \in Dir : page_dir[d] # NONE => owner[page_dir[d]] = "table"
  /\ \A d, e \in Dir : d # e /\ page_dir[d] # NONE => page_dir[d] # page_dir[e]

Space == INSTANCE AddressSpace
           WITH mapping <- [v \in Virt |-> vmm_get_phys(page_dir, memory, v)],
                room <- \E p \in Page : owner[p] = FREE

\* vmm.c:40-82.  Tables come from recycled memory and share the page allocator
\* with clients that write what they like; still a call gives its own page the
\* frame it was told, and no other page another, and nothing but a call changes
\* a translation.  vmm_map fails, silently, only where no page is free.
OneTranslationAtATime == Space!SpaceSpec
==============================================================================
