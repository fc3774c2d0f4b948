# Formal model of Eclipse32

TLA+ specifications of Eclipse32, a 32-bit x86 hobby operating system: the parts
of its kernel whose correctness depends on interleavings, on the order of writes
or on long sequences of calls. The modules are checked with TLC on small
instances. Most of their safety properties are also proved with TLAPS, for all
instances; what is left is named under "Only model-checked".
`src/` below is the root of the repository.

## The system

One CPU, ring 0 only, no scheduler. The kernel starts either the desktop
(`gui_run`) or the text shell, and everything else is called from there, on one
stack. Concurrency comes from three sources: interrupt handlers (PIT, keyboard,
mouse) that run between any two instructions of the code they interrupt, the
disk that keeps what was written when the power goes, and programs of the user
that run inside one call of the loader and come back in through `int 0x80`.

| Component | State | Operations | Used by | What is hard | What makes it correct |
|---|---|---|---|---|---|
| Keyboard driver, `kernel/drivers/keyboard` | event ring, modifier flags, E0 flag | `keyboard_handler` (IRQ1), `has_event`, `get_event`, `wait_event`, `getchar` | shell, desktop, `sys_read` | ring shared with the handler; test and `hlt` are not atomic | a FIFO; flags follow the keys; a waiting reader wakes |
| Interrupts and timer, `kernel/arch/x86` | gates, handler table, tick count | `interrupt_dispatch`, `pit_handler`, `pit_sleep_ms` | all drivers | IF inside a system call; wrap of the tick count | blocking calls can be woken |
| System calls, `kernel/syscall` | exit flag, image and heap bounds, output callback | `int 0x80`: read, write, file calls, `brk`, `exit` | programs | globals of one program at a time; descriptors 0..2 mean two things | a call acts on the caller's own image and files |
| Kernel heap, `kernel/mm/heap.c` | boundary tags, free list | `kmalloc`, `krealloc`, `kfree` | shell (files and scripts) | splitting and merging in any order | blocks tile the arena; live chunks are disjoint |
| Page allocator and tables, `kernel/mm/pmm.c`, `vmm.c` | bitmap; directory and tables | `pmm_alloc_page(s)`, `pmm_free_page(s)`, `vmm_map`, `vmm_unmap` | heap, framebuffer | runs of pages across bitmap words; out of memory | no page twice; the count matches |
| FAT32, `kernel/fs/fat32` | the disk; table of open files, one cached sector each | open, close, read, write, seek, mkdir, delete, rename, readdir, stat | shell, system calls, loader, installer | caches against disk, full disk, order of writes before a power cut | a tree of byte strings; chains disjoint; bystanders survive a crash |
| ATA driver, `kernel/drivers/disk` | four drives | `ata_read_sectors`, `ata_write_sectors` | FAT32 | timeouts, ignored errors | sectors reach the disk in order |
| Mouse driver, `kernel/drivers/mouse` | packet bytes, position, buttons, queue | IRQ12 handler, `mouse_has_event`, `mouse_get_event` | desktop | lost bytes, full queue, a sample taken between two packets | packets are found again; the sample catches up |
| Program loader, `kernel/exec` | one static image | `e32_exec_file_argv` | shell, desktop terminal | globals that outlive a program | the status is that of the program that ran |
| Application library, `apps/sdk/libc` | free list, break, stdio buffers | `malloc`, `calloc`, `realloc`, `free`, `sbrk`, stdio | programs | splitting without merging, sizes at the wrap | blocks keep their data |
| Shell, `shell` | history, variables, aliases, script depth, directory, exit code | line editing, operators, redirection, built-ins, scripts, `ed` | user | nested calls that fail half way; the history ring; editor states | descriptors and depth come back; lines end |
| Installer, `shell/ins_pkg.c` | the package and the files it has unpacked | `ins_install_from_file` | shell | one of several writes failing | the package goes only when all is installed |
| Desktop, `kernel/gui/gui_desktop.c` | windows, menu, drag, a state for each program | the loop of `gui_run`, `render_app` | user | one click seen by several layers; indices kept across turns | windows on the screen, a click reaches the topmost |
| Login, environment, `kernel/initramfs` | variables | login, `env_set`, `env_get`, `env_unset` | shell | full table | lookups return the last value |
| Writer, `apps/writer` | a table of lines | append, delete, replace, save, load | user | lines and files longer than the buffers | what was saved comes back |
| Screen, speaker, boot loader, old GUI | - | output, start | - | - | not modelled: see the end |

`PROJECT.json` lists the components with their status, the hazards with the line
where each bites, and the lines every definition models.

## Modules

### Keyboard and console

    KeyFifo          what readers are promised: a bounded queue of events
    Keyboard         keyboard.c, the device, the timer, the readers
    ConsoleRead      read(0, buf, len): int 0x80, sys_read_impl   EXTENDS Keyboard
    ConsoleRead_proofs                                            theorems
    MCConsole        constants for TLC

A handler is one action, since the interrupt gates (0x8E) keep IF off until
`iret`. The reader is split wherever it touches `key_head`, `key_tail` or
`key_buf`: `TestHasEvent`, `Hlt`, `GetTest`, `GetCopy`, `GetAdvance`. Its program
counter is `rpc`; `op` tells which of the four callers it works for: `poll`
(`kb_getchar_nowait` of the desktop), `wait` (`keyboard_wait_event`), `getchar`
(`keyboard_getchar`) or `sys_read`. There is one reader at a time because there
is one thread. `intr` is EFLAGS.IF and `halted` the CPU in `hlt`; taking any
interrupt ends the `hlt`, as on the hardware.

Scancodes are one code per behaviour of the handler's switch ("letter", "ctrl",
"nav", ...), a byte being a code and its release bit; `sc_normal` and
`sc_shifted` become the classes lower, upper, control, newline, backspace, none.
The user may press any key at any time, press it again while it is down (repeat),
and release it; `Scancodes` says what a key sends, E0 prefix included.

Run `console`: a ring of three slots, hence two events, a line buffer of two
characters, three strokes (plus their releases) of four keys: one with a prefix
that is also a modifier, one plain modifier, a letter and Enter. That is enough for the ring
to fill, wrap and drop, for the prefix to precede a modifier, for two modifiers to overlap and
for a line to end by Enter and by a full buffer. Deadlock is not
checked in `console`, where the user stops after the bounded strokes and the
program may choose not to read again; nor in the FAT32 runs, where the power may be
off, and in `apps` and `process`, where a program may have ended.

* `RingIsFifo`: the ring implements `KeyFifo` (refinement, `queue <- Queued`). Of each
  event the handler has, `KeyFifo` records that it was accepted or refused (`offer`),
  and it refuses only when the queue is full, so that dropping one is no stutter.
* `ReaderNeverEmptyHanded`: what `has_event` saw is still there for `get_event`.
* `ModifiersFollowKeys`: bytes handled and keys up means flags off.
* `LineFits`: the line against `len` and `kbuf`; a newline comes last.
* `EnterEndsRead` (liveness): an Enter in the ring ends a blocked read, in spite
  of the gap between the test and the `hlt`.
* `KeysArrive` (liveness): bytes of the keyboard are eventually handled, also
  during a system call, which the comment at `idt.c:58` is about.

Fairness: weak fairness of the pending keyboard interrupt, of the timer and of
the code of the reader. The interrupts are unmasked (`pic_unmask_irq` in
`keyboard_init` and `pit_init`), level and edge stay pending until taken, the PIT
runs for ever, and a CPU that is not halted executes. The user and the choice of
the next call are not fair. Without the timer `EnterEndsRead` fails: the driver
relies on the tick to close its test-then-halt gap, which no comment says.

### Heap

    Allocator        live chunks never overlap, a refusal means no hole fits
    Heap             heap.c
    MCHeap
    Heap_proofs                                   theorems

`heap.hdr` and `heap.ftr` map addresses to the tags that are valid there; reading
one elsewhere is an error of the run, where the code would read data. The
linked list is the sequence of headers on it. One call is one action: handlers
never allocate. Run `heap`: tags of 2 and 1 units, alignment 2, an arena of 30
units in which several blocks of different sizes fit; requests of 0, 1 (rounded
up), 3, 6 and more than everything. `BlocksTile`, `FreeListExact` and
`ClientsOwnBlocks` relate tags, list and owners; `ImplementsAllocator` is the
refinement, which also says that first fit refuses only what cannot fit.

Clients pass NULL or pointers they hold; the code detects neither a double free
nor a request so large that rounding wraps. No caller does either. The arena is
taken to be backed by memory.

### FAT32

    FileStore        a tree of byte strings, descriptors with a position
    Fat32            fat32.c on a volume of sectors
    Fat32_proofs                                  theorems
    MCFat32, MCFat32Dirs, MCFat32Rename

The driver runs to completion and is not entered twice, so each call is one
action. Inside it, `t` is the history of disks: every `write_sector` appends the
disk it leaves. A call ends with `Last(t)`; with `PowerCuts` it may instead end
with any disk of `t` and an empty table, after which the model stops and the
properties look at what a mount would find. `view` is an auxiliary variable, a
function of disk and table (`View`) kept as a variable because most properties
read it; it is also the refinement mapping to `FileStore`. The runs fingerprint
`<<disk, file_table, Up>>` (`VIEW`): of `result` no action reads more than `Up`.

A sector of file bytes can be read as a directory: `Spelling` says which entry a
byte of it makes (`At`). That happens where a directory's new cluster is linked
(fat32.c:431) and the power goes before it is cleared (434-435). `Found` are the
paths that lead somewhere, `Entries` what stands there, `View` all of it.

A cluster has one sector (the image tool writes 8), a sector two or three
directory slots or two bytes, names are 8.3 already. Only the flags that callers
in the repository use are enumerated (`Mode`). Paths never name the root itself:
for it the code leaves the entry's position uninitialised.

Rules of use (`MayOpen`, `MayDelete`, `MayRename`) are preconditions of the
calls. The driver does not check them, and shell commands can break them
(`cp a a`, `mv` onto an existing name, `rm` of a non-empty directory). The
results below hold for clients that keep them.

* `fat32_files`: two files, two descriptors, every interleaving of reads, writes,
  seeks, truncations, deletions and renames until the disk is full. Two strings are
  written; no byte stands twice in either and they differ in every place, so that
  what a read returns tells the file, the offset and the write.
  `ChainsSound` (no cluster in two files, none free, enough for the size),
  `CallsLeakNothing` (no call, whether it succeeds or not, leaves a cluster that
  nobody can reach; a failed `mkdir` and a failed rename are excepted, for they do),
  `ImplementsFileStore`.
* `fat32_dirs`: a directory with room for one entry, so that the second extends
  it; slots deleted and reused; moves between directories; no room left.
  `ClustersAccounted` is `ChainsSound` and `CallsLeakNothing` together: here a new
  file's cluster must go back when its directory cannot be extended.
* Both with a power cut before, between or behind the writes of any call:
  `PowerCutsContained`, which is `BystandersSurvive` (files that no call was
  writing are as they were) and `CutEntriesBacked` (entries point at clusters
  in use). What the model says: creation and deletion are ordered so that a cut
  loses clusters and no more, with two exceptions that `CutEntriesBacked` names. A
  truncated file's entry points at freed clusters until it is closed. And a
  directory just extended shows, in the cluster that was linked and not cleared,
  entries made of whatever it held, which may lead to free clusters (`Stray`).
  A cut does not tear a sector.
* `fat32_rename` (expected violation): the driver deletes the old entry before it
  knows that the new one has room. The comment on `fat32_rename` states the
  opposite order. TLC gives a rename into a full directory on a full disk that
  answers -1 with the file gone.

`FileStore` is as weak as the code in two places, both of them stated there: an
open that finds no free descriptor may have created the file, and a failed
rename may have lost it.

### Memory

    FrameStore       a page has one owner; a refusal means no run is left
    Pages            pmm.c
    AddressSpace     a call gives its page its frame, nothing else changes any
    PageTables       vmm.c                        EXTENDS Pages
    MCPages
    Pages_proofs                                  theorems

`pmm_bitmap` maps words to sets of bits; an address is a page number counted from
`pmm_base_addr`. `owner` is auxiliary: whom the calls have given each page, and
what the properties compare the bitmap with. Clients may free pages twice and
free addresses that are no pages, which the code tolerates, but not pages of
others. `memory` is what pages hold, since a table is made from a page that
somebody else may have used. Run `pages`: `BitmapIsOwnership` (bits, padding of
the last word, and the counter that four functions keep beside them),
`RefusesOnlyWhenFull`, `NoPageTwice` (refinement of `FrameStore`),
`TablesAreOwned`, `OneTranslationAtATime`. The last is the refinement of
`AddressSpace`, to which `call` tells the call that a step was: `map` gives the page
it names the frame it names, `unmap` takes it away, any other step (the allocator's
calls, a client that writes to its pages) leaves the translations alone. The
page directory is taken as empty at the start: the comment in `vmm_init` says
that stage2 has set it up, but nothing in `src/boot` does, and nothing turns
paging on. When no page is left for a table `vmm_map` returns and says nothing:
its callers go on. `AddressSpace` allows this only where no page is free.

### Mouse and desktop

    Mouse            mouse.c, sync_mouse of the desktop
    Desktop          the window manager: one action for each kind of turn of gui_run
    Apps             a program in its window, one action per program
      Arcade         snake, tetris, breakout, pong
      Parlor         minesweeper, tic tac toe, slots, calculator, file manager
      TerminalText   terminal, notepad
      Editors        ed (shell.c) and Writer (writer.c)
      LineEdit       readline and the history of the shell
    Desktop_proofs   theorems about Desktop and Mouse
    Apps_proofs      theorems about Apps
    MCMouse, MCDesktop, MCApps

`Mouse` has the handler as one action, the wire that may lose a byte, and
`sync_mouse` split at each variable that it reads while the handler may run
(`Drain`, `Sample`). Run `mouse`: up to three packets and one lost byte, a queue
of two places. `FramesAligned`: after a lost byte the decoder finds the start of a
packet again, as far as packets allow it (the movement bytes lack the bit it
looks for: `Unmistakable`). `QueueIsFifo` reuses `KeyFifo`. `SampleCatchesUp`
(liveness): when the mouse rests the desktop's copy becomes the driver's state,
although the queue drops events and a sample may mix two packets. Fairness:
bytes on the wire are delivered, and the desktop's loop goes on. The loop itself
waits for nothing, but a program started from the desktop's terminal runs inside it:
the property is about the time in which none runs, or all return.

`Desktop` works with the code's own geometry and with positions chosen on every
kind of target; the order of a turn (drag, release, click, windows, task bar,
menu, sample) is kept, because the same click is shown to each in turn.
`WindowsOnScreen`, `DragHoldsFront` and `ClickHitsTopmost` are about the indices
and the click that pass from one part of the turn to the next. `ClickHitsTopmost`
states what the code does with a click on [x]: it also presses the OK button of
the window below when that lies there. `LONG_AGO` bounds the age of a click.

`Apps` runs each program that has a state, as a function from its state and a
frame's input to the state after, in small boards. What is uninitialised or
left over when a program opens is modelled as it is (`SnakeOpened`,
`TetrisOpened`, `PongOpened`); where pong puts ball and paddles (100, 80 and 60 in a
field of 320 by 240) are constants, since the field of the run is smaller. Numbers of the calculator have five bits and wrap
as the code's 32; the division that traps is a state (`halted`). The properties
are one conjunct per program: `GamesInOrder`, `ToolsInOrder`, `EditorsInOrder`.
Of minesweeper and tic tac toe they say that a game is over exactly when its board
says so, whether or not a finished one stays on the screen (see "Observed").
`ed` is followed on files of no more lines than its buffer takes, since the rest
of a longer file is dropped when it is opened and lost when it is saved.
For `ed`, this is also that a text counted as unmodified is what the file
brings back; for the history, that Up and Down bring back what was entered.
`ed_quit` (expected violation): no command leaves `ed`. `ed_colon` sets
`*quit = true`; `builtin_ed` passes it the condition of its own loop.

### Programs

    UserHeap         malloc, calloc, realloc, free, morecore; sbrk; brk
    Process          the loader, exit, and the program that allocates
    Process_proofs                                theorems
    MCProcess

`arena` holds the break, the blocks and the memory of a program, `live` what it
thinks it owns. Requests include 0 and sizes whose rounding wraps. Left out are
the other requests of half the address space or more (`Sane`): `sbrk` takes its
increment as a signed number, so that such a request lowers the break, and neither
`malloc` nor `calloc` refuses it. `DataKept`:
every word of a block keeps what its owner wrote through splitting, growing and
copying. `StatusIsOwn`: the loader's answer is the code this program passed to
exit last, or what it returned, never a code an earlier program left in the
global. There is no system call to start a program, so programs do not nest.
Code and data are taken to end within the image, as `pack_e32.py` lays them out;
`e32_validate` compares where they end with the size of the file only
(e32_loader.c:21-22), and what a file that passes there overwrites is not modelled.

### Shell

    Environment      env_set, shell variables, aliases, expansion, paths
    Volume           fat32.c as the shell sees it: paths, room, free descriptors
    Shell            execute_line, execute_cmd, built-ins, scripts, installer, login
    Shell_proofs                                  theorems
    MCShell

Calls in progress are frames on a stack (`ctl`), because the C code recurses:
a line calls its halves, a command an alias or a script, a script its lines, and
each call may hold descriptors. A step ends where the code writes to the disk,
calls or returns. A program is a frame too, from which it makes its system calls on
files: it opens, closes, appends to a file, removes one, and may return.
What it leaves open stays open (`strays`), for the loader reclaims nothing
(e32_loader.c:77-82), and it may never return (`_exit` of unistd.c:17-20 spins).
Removing a directory frees the chain of the directory only, and a rename over a name
in use frees nothing: what was there is in use and out of reach (`Frees`). Text is
abstract: a line is a record of commands and operators,
a file a sequence of blocks, one block per cluster. `Volume` keeps `fat32.c`'s
answers (full disk, full table, missing directory), `Fat32` its correctness.

Run `shell`: three lines out of sixteen, from the prompt after the login or from the
desktop's terminal, on disks with little room and three descriptors, all of which
programs may have left open when the next command opens a file.

* `FramesHoldAll`: the descriptors that the shell has open are exactly those of the
  calls in progress, and the depth counter counts the scripts that run.
* `PackageSafe`: a package is changed or deleted only when all of its files are
  on the disk in full.
* `LinesReturn` (liveness): every line comes to its end, or waits for the user
  (`write`) or for a program, scripts that run each other included. Fairness: a call in progress
  has the processor, weak fairness of `Step`; it is written without `ENABLED` as
  `[]<>~Busy \/ []<><<Busy>>_vars`, which is the same because no busy state is
  without a step (TLC checks deadlock in this run).

Left out because the code has no answer there: aliases that expand to themselves
(`alias ls="ls -l"` recurses until the stack is gone), a package that contains a file
of its own path, redirection into a directory or into a file that the command
itself reads, removal of an open file.

## Proofs

`ConsoleRead_proofs` holds for every ring size of at least 2, every set of keys,
any bound on the strokes, any line buffer and lengths. Assumed are only the
types of the constants (`KeyBufAssumption`, `StrokesAssumption`,
`ConsoleAssumption`), which TLC evaluates in `console`.

* `TypeCorrect`: `TypeOK` is inductive by itself.
* `NeverEmptyHanded`, `RingImplementsFifo`: `TypeOK /\ ReaderInv`. The handler
  moves only `key_head` and never onto `key_tail`, so a ring seen non-empty stays
  so until the reader itself advances, and the slot it has copied is not
  rewritten. `EnqueueIsAccept` and `AdvanceIsTake` map the two steps that change
  the ring to `Accept` and `Take`; a handler that leaves the ring alone with an event
  in hand is `Refuse`, for then `KEY_BUF_SIZE - 1` events are queued; all others
  stutter or answer the empty event.
* `LineAlwaysFits`: `LineInv`, before each event the line has room for one more
  character and holds no newline, because the newline is what ends the read.
* `ModifiersAlwaysFollow`: the property is about the moment when no byte is under
  way, so it is not inductive. `ModInv` says of the bytes under way that the last
  one of a modifier whose keys are up is a release (`Settled`), and that a prefix
  is always followed by a byte that takes it away (`Prefixed`).

`Heap_proofs` holds for every arena, tag size, alignment and set of requests
(`HeapAssumption`: the arena holds one block at least and ends below 2^32).

* `TypeCorrect`, `BlocksAlwaysTile`, `FreeListCorrect`: the invariant is `IInv`,
  that is `Exact(heap)` (tags, list and no two free neighbours), what clients hold,
  and the type of the answer. It needs the clients: `kfree` is right only for a
  block in use. The lemmas are about any heap: the list after an element is
  unlinked or added (`RemoveLists`, `AddLists`); the blocks after tags are rewritten,
  split or absorbed (`Retag`, `SplitBlocks`, `AbsorbBlocks`); the block in front,
  found from its footer (`PrevBlock`); and both together through the middle of
  `kfree`, where the block is free but on no list (`Pending`).
* `ClientsCorrect`, `HeapRefines` assume `NoWrap`: rounding no request up to the
  alignment passes 2^32. Without it the code gives out a block shorter than what
  was asked for. That a refusal is due (`HoleIsInFreeBlock`) uses that no two free
  blocks are neighbours: a hole that starts in a free block cannot reach past it.

`Fat32_proofs` holds for every number of clusters, size of sectors and of directory
sectors (two slots at least), number of descriptors, set of paths without the names
`.` and `..`, strings, counts and seeks, with and without power cuts
(`Fat32Assumption`), and for clients that keep the rules of use.

* `VolumeTyped`, `ChainsStaySound`: neither is inductive, since both speak of what
  can be reached from the root by following names and links. `IInv` says instead
  that there are chains, one for each place where an entry can be, and paths that
  explain the disk (`Vol`): the allocation table holds these chains and no
  cluster is in two places (`Laid`); an entry that is not being written names its
  chain's first cluster and a size that fits (`Told`); directories are chains of
  directory sectors and no entry stands behind an end (`Housed`); each entry stands
  in a directory, and no two have one path (`Tree`). Each descriptor belongs to an
  entry, knows its chain, and a writer has the entry for itself (`Files`).
* From `Vol` follows what the driver's loops compute: `Chain` returns the chain,
  `Walk` its i-th cluster (`ChainIs`, `WalkIs`), `FreeChain` sets it free and no
  other (`FreeChainIs`), `fat32_resolve` finds each entry by its path and nothing
  else (`ResolveFinds`, `ResolveSound`), `SlotsOf` and `Search` see the slots in
  their order. Each is an induction along the chain, the path or the bytes, over the
  function the operator is defined by (`WalkRuns` to `WriteRuns`).
* A call is followed write by write. A cluster that is allocated and not linked
  yet, or unlinked and not freed yet, belongs to a chain of nobody (`SPARE`,
  `MORE`), so that every disk on the way has an explanation too: `CreateLeads`,
  `MkdirLeads`, `DeleteLeads`, `RenameLeads` for the calls on paths, `ReadTurn`,
  `WriteTurn`, `TruncateTurn`, `CloseLeads`, `SeekTurn` for those on descriptors.
  `Keeps` says that entries a call is not about stay and their chains at most
  grow, hence other descriptors stay in order (`FileKept`).
* The rules of use enter in three places: a file opened for writing is on no other
  descriptor (`MayOpenIs`), one that is deleted or renamed is on none (`NotOpen`), and
  a directory that is deleted is empty (`EmptyDirIs`). This is where the proof would
  fail for clients that break them.

`Pages_proofs` holds for every memory size, word width, run length, number of
tables and entries and every directory (`PagesAssumption`, `TablesAssumption`).

* `TypeCorrect`, `BitmapCorrect`, `TablesCorrect`, `RefusalCorrect`: the invariant
  `TypeOK /\ BitmapIsOwnership /\ TablesAreOwned`. A page is one word and one bit
  (`WordOfPage`, `OneWordOneBit`), so setting a bit changes one page; the counter
  is the cardinality of the free pages, so it stays in range whatever is freed
  twice; a search that comes back empty has seen every run.
* `AllocatorRefines`, `TablesRefine`: what the searches find is free, hence the page
  of a new table is no table already and nobody writes to it, hence a call changes
  the translation of its page, to its frame, and no other step changes any. That a
  call without effect met a full memory is `FirstFreePage` having found nothing.

`Desktop_proofs` holds for every set of programs, menu and icons, windows of any size
that the screen takes, and any pointer. Assumed are the types of the constants,
turns of at least 32 ms (`TicksAssumption`), and that the OK button stands clear of
the title bar (`OkAssumption`; the About window is 220 high).

* `WindowsStayOnScreen`, `DragsHoldTheFront`: the invariant adds to both what a turn
  relies on from the one before: while a drag goes on the button was down, so no
  click comes and nothing but the drag itself reorders the windows; the item drawn
  selected in the menu is a program. `Stack` is what the windows alone satisfy; each
  operation on it (open, raise, close, move) is followed by lemmas about sequences.
* `ClicksHitTheTopmost`: a step from the invariant. `TopmostHit`: the loop over the
  windows, front to back, ends at one under the pointer. What raising and closing
  do to the indices says which window the next layer of the turn sees there.

The second part of `Desktop_proofs` is about `Mouse`. It holds for every ring of at least two places, every screen, movement
and set of buttons, any number of packets and losses; the assumptions are types.

* `MouseTypeCorrect`, `MouseRingImplementsFifo`: as for the keyboard, `MouseTypeOK` is inductive and
  the handler's and the reader's steps map to `Accept`, `Refuse` and `Take` of `KeyFifo`.
* `MouseFramingCorrect`: `FramesAligned` speaks of the moment when no byte is on the
  line. `FrameInv` says in between that the decoder stands at the start of a packet,
  or that what is left behind the bytes it still waits for cannot be taken for a
  first byte (`Refused`), and that the packet under way accounts for the buttons
  (`ButtonsDue`).

`Process_proofs` holds for every size of the image and of the pages, any word width
from 64 values up, programs with any values and `Sane` requests.

* `ProgramsKeepTheirData`: `ArenaOK` says that blocks lie apart between base and
  break and that the free list has each of its own once; `LiveOK` that the program's
  blocks are none of these, as long as asked for, and filled with what was stored.
  First fit, the cut of the rest, the growth of the arena and the stores are
  followed one by one for any arena; `realloc` and `calloc` are made of them.
* `StatusIsTheProgramsOwn`: while a program runs, the flag and the code in the globals
  are what this program has said.

`Shell_proofs` holds for any lines, aliases, scripts, packages and disks, any depth
of scripts of at least 1 and any number of descriptors.

* `CommandsCloseTheirFiles`: that the shell's descriptors are those the calls hold
  is not inductive, for a call closes its own and no other's. What programs leave open
  is kept apart (`strays`): it only makes fewer opens succeed. `Sound` says that no
  two calls hold the same one, that those in use are all that are held, that an
  unpacking call stands on the installation whose package it reads and closes, and
  that the depth is the number of scripts on the stack. `Pop` and `Push` keep this;
  every step, failing ones included, is one or two of these.

`Apps_proofs` holds for boards, fields, buffers, words and lists of any size from a
least one that the assumptions give (`ArcadeAssumption`, `ParlorAssumption`,
`TerminalAssumption`, `EditorAssumption`, `LineEditAssumption`, `FrameAssumption`):
below it a snake does not fit its board or a prompt its window. One invariant per
program, which no other program's step touches.

* `GamesStayInOrder`: the first k segments of the snake are a line that does not meet
  itself and its neck lies behind its head, or a turn would bite it; rows of tetris
  keep their order when full ones leave; breakout's score is ten for each missing
  brick; a ball of pong that flies to one side is not yet behind the other side's
  paddle; minesweeper is lost exactly when a mine is open; tic tac toe has as many
  marks of each side, or one more of the user's in a game that is over; credits never
  fall below zero.
* `ToolsStayInOrder`: behind `=` and `C` both numbers of the calculator are the one
  displayed; the terminal's last line is the prompt and what was typed, whatever was
  trimmed at the top, and this is what the command gets.
* `EditorsStayInOrder`: what `ed` and Writer hold when nothing is modified is what the
  file brings back. The lemma under it, `LinesReturn`, is an induction: reading
  the bytes of lines that are shorter than the buffer gives these lines. For the
  history: the ring holds the last entries, each in its slot, and entries less than a
  ring apart have different slots (`SlotsDiffer`).

What the proofs corrected in the models: the sign of `sbrk`'s increment; the height of the
window with the OK button; files longer than `ed`'s buffer.

Only model-checked:

* Liveness (`EnterEndsRead`, `KeysArrive`, `SampleCatchesUp`, the shell's `LinesReturn`):
  out of the prover's reach.
* FAT32's `CallsLeakNothing`, `ImplementsFileStore` and `PowerCutsContained`: the
  invariant of `Fat32_proofs` says which clusters are whose. The first needs
  that no others are in use, the second what is in them, the third both for every
  disk on the way through a call.
* What a recursive definition computes for every input. The prover has no induction
  over data; where a proof needs one (`LinesReturn`, the chains and paths of FAT32) it
  takes the least counterexample, or chooses a function defined by recursion, by hand.
* `PackageSafe`: it needs to be known which files a package names, none of them its own, and
  what the disk is after each part of the copy.
* What holds of FAT32 in the shell: `Volume` only keeps its answers.

## Bounds

Each bound is a constant of the module or marked `Bound` in it.

| Run | Bounds | Distinct states |
|---|---|---|
| `console` | ring 3, `kbuf` 2, 3 strokes of 4 keys, lengths 0 and 3 | 333 thousand |
| `heap` | arena of 30 units, 5 request sizes | 103 thousand |
| `fat32_files` | 3 clusters of 2 bytes, 2 files, 2 descriptors, 2 strings of 3 bytes, power cuts | 149 thousand |
| `fat32_dirs` | 5 clusters, 3 slots, 4 paths, 1 descriptor, power cuts | 20 thousand |
| `fat32_rename` | 4 clusters, 3 slots, 4 paths | stops at the violation |
| `pages` | 6 pages in words of 4 bits, runs of at most 3, 2 tables of 2 entries, 2 frames | 212 thousand |
| `mouse` | ring of 3, screen 3 by 2, 3 packets, 1 lost byte | 1.1 million |
| `desktop` | 3 programs, 2 windows, 10 positions | 2.3 million |
| `apps` | small boards, 5-bit numbers, a terminal of 11 characters, 4 lines of 2 in `ed` | 0.6 million |
| `ed_quit` | as `apps` | stops at the violation |
| `process` | image of 104 bytes, pages of 16, 8-bit sizes, 3 blocks | 0.2 million |
| `shell` | 3 lines of 16, depth 2, 3 descriptors, disks of 13 and 15 clusters | 1.3 million |

They are enough in the sense that each case the code distinguishes happens: rings
and queues fill and wrap; the bitmap's last word is partial and runs cross words;
an arena and a disk run out at every place that asks for room; windows overlap and
the table of windows is full; scripts reach their depth. The checks of the runs
fire every action.

## Plan

1. Done: keyboard and console, heap, FAT32.
2. Done: pages and page tables, mouse, desktop and its programs, processes, shell,
   installer, editors.
3. Done: proofs for the keyboard, the heap, FAT32's volume, the pages, the mouse, the
   desktop, its programs, processes and the shell. Left: FAT32's
   `PowerCutsContained`, `CallsLeakNothing` and refinement; `PackageSafe`.
4. FAT32 without the rules of use; the ATA driver as a device with timeouts; stdio;
   descriptors 0 to 2, which are the console's and the first files' at once.

## Not modelled

Screen, speaker and drawing (output only), the boot loader and the start
sequence (a straight line), `kernel/gui/gui.c` and `apps.c` (not compiled), the
image tools but for the volume they leave, the ATA protocol, `mouse_init`'s
handshake, stdio, Paint and the programs that only show something, formatting and
colours everywhere. The check of user pointers in system calls is left out.

Observed while modelling, where no property of the project decides who is right:

* Paging is never enabled although the heap's address presumes it; the mouse
  handler acknowledges its interrupt twice; only the first copy of the FAT is
  written; results of sector writes are ignored; `fat32_open` with `O_TRUNC`
  leaves the entry on disk pointing at freed clusters until the file is closed; an
  identify that times out is not noticed.
* Most built-ins, `install` and `cd` among them, end with exit code 0 whatever
  happened, since `run_builtin` falls through to `last_exit_code=0`; a script that
  is missing or too deep leaves the exit code as it was. `a|b` without a space
  loses b's first character. A line is expanded before its first half has run.
* A double click takes two clicks within 40 ms while a turn takes at least 32, so
  the second must be the turn after the first release; the comment says 400 ms.
* The click that ends a game of minesweeper or tic tac toe also clears its board
  (gui_desktop.c:1423, 1744), so that nothing it says of a finished game ("BOOM!",
  "WIN!" at 1405-1406, "You win! Click to reset" at 1759-1761) is ever seen, nor is
  the separate click to restart that line 1448 speaks of.
* The machine of tic tac toe never blocks; three sevens cannot come up in slots;
  the calculator traps on the smallest number divided by -1, and its "ERR" for a
  division by 0 (726) is overwritten at 728 before anybody sees it.
* A `mkdir` that finds no room for the entry keeps the new directory's cluster
  (fat32.c:797); removing a directory that is not empty loses what was in it.
* In `ed` joining two long lines overruns a row (the model stops there), `d`, a
  cursor key, `d` still deletes; both editors ignore errors of writing, as do `cp` and
  `write`. Up, pressed more often than the ring of the history is long, shows
  newer lines again. In the terminal a command typed behind output without a
  newline is not the one that runs.
