-------------------------------- MODULE Process --------------------------------
(***************************************************************************)
(* A program's run: e32_exec_file_argv of kernel/exec/e32_loader.c, the    *)
(* break and the exit status of kernel/syscall/syscall.c, and the program  *)
(* itself (apps/), which allocates with UserHeap and keeps data in its     *)
(* blocks.  There is one image in the kernel and no system call to start   *)
(* another program, so runs follow each other.                             *)
(***************************************************************************)
EXTENDS UserHeap

CONSTANTS
  E32_RUNTIME_MAX,   \* bytes of the one image, 256 K in the code
  PAGE,              \* bytes of a page
  ImageSizes,        \* image_size + bss_size of the programs
  Codes,             \* the exit codes they use
  Errors,            \* what the loader answers for a file it does not run
  Requests,          \* the sizes asked for
  Value,             \* what clients keep in their blocks
  MaxLive            \* bound: blocks allocated at a time

ASSUME ProcessAssumption ==
  /\ E32_RUNTIME_MAX \in Nat /\ PAGE \in Nat \ {0}
  /\ ImageSizes \subseteq 1..E32_RUNTIME_MAX /\ E32_RUNTIME_MAX + PAGE < MOD
  /\ Errors \subseteq Int /\ \A e \in Errors : e < 0
  /\ Requests \subseteq 0..MOD - 1 /\ MaxLive \in Nat
  /\ Value \cap {HEADER, "zero", "unknown"} = {}

\* Requests whose rounding wraps to 0 get a block of no byte; a program that
\* uses such a block is not followed.
Wraps(n) == n > MOD - 8

\* No program asks for half the address space or more, but for a request that
\* wraps: sbrk would lower the break for it, and malloc and calloc do not refuse.
Sane(n) == n + 2 * MHDR_SZ <= MOD \div 2
ASSUME RequestAssumption ==
  \A n \in Requests : (Sane(n) \/ Wraps(n)) /\ (Sane(2 * n) \/ 2 * n >= MOD)

VARIABLES
  running,          \* whether the program has the processor
  g_app_exit_requested, g_app_exit_code,
  arena,            \* g_brk_base, g_brk_current, g_brk_limit and libc's memory
  live,             \* the program's: its blocks, with the size and value of each
  result,           \* what the loader last answered
  said              \* the reader's: <<what this run last passed to exit>>, or <<>>
vars == <<running, g_app_exit_requested, g_app_exit_code, arena, live, result, said>>

NoArena == NewArena(0, 0)

Init ==
  /\ running = FALSE /\ g_app_exit_requested = FALSE /\ g_app_exit_code = 0
  /\ arena = NoArena /\ live = <<>> /\ result = 0 /\ said = <<>>

\* PAGE_ALIGN_UP, counted from the image's first byte.
HeapOf(image_size) ==
  LET base == ((image_size + PAGE - 1) \div PAGE) * PAGE
  IN  IF base < E32_RUNTIME_MAX THEN NewArena(base, E32_RUNTIME_MAX) ELSE NoArena

\* Mutant: what the last program left is not reset.
BeginStale == UNCHANGED <<g_app_exit_requested, g_app_exit_code>>

syscall_app_begin == g_app_exit_requested' = FALSE /\ g_app_exit_code' = 0

\* The file is there and passes e32_validate; the image, and libc's free list in
\* it, is as the file has it.  Code and data end within the image, as pack_e32.py
\* lays them out: e32_validate compares where they end with the file's size only,
\* so that another file's could be loaded past image_size.
Exec(image_size) ==
  /\ ~running
  /\ running' = TRUE
  /\ syscall_app_begin
  /\ arena' = HeapOf(image_size)
  /\ live' = <<>> /\ said' = <<>>
  /\ UNCHANGED result

\* It is not, or cannot be read: every such path closes the file.
ExecFails(error) ==
  /\ ~running
  /\ result' = error
  /\ said' = <<>>
  /\ UNCHANGED <<running, g_app_exit_requested, g_app_exit_code, arena, live>>

\* SYS_exit only notes the code and returns to the program, which runs on.
sys_exit(code) ==
  /\ running
  /\ g_app_exit_requested' = TRUE /\ g_app_exit_code' = code
  /\ said' = <<code>>
  /\ UNCHANGED <<running, arena, live, result>>

\* The program's entry returns; crt0 has called exit with the same code before.
Return(rc) ==
  /\ running
  /\ running' = FALSE
  /\ result' = IF g_app_exit_requested THEN g_app_exit_code ELSE rc
  /\ said' = IF said = <<>> THEN <<rc>> ELSE said
  /\ arena' = NoArena /\ live' = <<>>
  /\ UNCHANGED <<g_app_exit_requested, g_app_exit_code>>

------------------------------------------------------------------------------
\* The program's memory.

Payload(h, n) == IF Wraps(n) THEN {} ELSE Words(h + MHDR_SZ, n)
Filled(a, h, n, v) == [a EXCEPT !.mem = Stored(@, Payload(h, n), v)]
Without(h) == Restrict(live, DOMAIN live \ {h})
With(blocks, h, n, v) ==
  [x \in DOMAIN blocks \cup {h} |-> IF x = h THEN [n |-> n, v |-> v] ELSE blocks[x]]
Quiet == UNCHANGED <<running, g_app_exit_requested, g_app_exit_code, result, said>>

\* The program fills the block it is given.
Malloc(n, v) ==
  LET r == malloc(arena, n)
  IN  /\ running /\ Cardinality(DOMAIN live) < MaxLive
      /\ arena' = IF r.h = NULL THEN r.a ELSE Filled(r.a, r.h, n, v)
      /\ live' = IF r.h = NULL THEN live ELSE With(live, r.h, n, v)
      /\ Quiet

Calloc(nmemb, size) ==
  LET r == calloc(arena, nmemb, size)
  IN  /\ running /\ Cardinality(DOMAIN live) < MaxLive
      /\ arena' = r.a
      /\ live' = IF r.h = NULL THEN live ELSE With(live, r.h, nmemb * size, "zero")
      /\ Quiet

Free(h) ==
  /\ running /\ arena' = free(arena, h) /\ live' = Without(h) /\ Quiet

\* A block that grew is filled up: of the old part only realloc's copy is there.
Realloc(h, n) ==
  LET r == realloc(arena, h, n)
      old == live[h].n
      grown == Payload(r.h, n) \ Payload(r.h, old)
  IN  /\ running /\ Quiet
      /\ \/ /\ r.h = NULL
            /\ arena' = r.a /\ live' = IF n = 0 THEN Without(h) ELSE live
         \/ /\ r.h # NULL
            /\ arena' = [r.a EXCEPT !.mem = Stored(@, grown, live[h].v)]
            /\ live' = With(Without(h), r.h, n, live[h].v)

Next ==
  \/ \E size \in ImageSizes : Exec(size)
  \/ \E error \in Errors : ExecFails(error)
  \/ \E code \in Codes : sys_exit(code) \/ Return(code)
  \/ \E n \in Requests, v \in Value : Malloc(n, v)
  \/ \E nmemb \in {0, 2}, size \in Requests : Calloc(nmemb, size)
  \/ \E h \in DOMAIN live : Free(h)
  \/ \E h \in DOMAIN live, n \in Requests : Realloc(h, n)

Spec == Init /\ [][Next]_vars

------------------------------------------------------------------------------
\* Properties.

\* stdlib.c:31-103, unistd.c:31-63, syscall.c:242-253.  Whatever a program
\* allocates, frees, splits and reallocates, every word of a block keeps what
\* its owner wrote, or what calloc cleared, through all of it, and lies between
\* the image's end and the break.
DataKept ==
  \A h \in DOMAIN live :
    \A w \in Payload(h, live[h].n) :
      arena.mem[w] = live[h].v /\ w \in arena.base..arena.brk - 8

\* e32_loader.c:68-78.  The answer for a program is the code it last passed to
\* exit, or what its entry returned if it never did, and never a code that an
\* earlier program left.
StatusIsOwn == [][running /\ ~running' => <<result'>> = said']_vars

==============================================================================
