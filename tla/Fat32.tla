-------------------------------- MODULE Fat32 --------------------------------
(***************************************************************************)
(* The FAT32 driver, kernel/fs/fat32/fat32.c: files and directories on one *)
(* volume, the table of open files with its sector caches, and the power   *)
(* cut that can fall between any two sector writes.                        *)
(*                                                                         *)
(* A cluster is one sector (8 in the images of tools/format_fat32.py: the  *)
(* loops over the sectors of a cluster only make it longer).  A sector     *)
(* holds directory slots or file bytes.  Names are 8.3 names already.      *)
(*                                                                         *)
(* The driver is synchronous and has one caller at a time, so a call is    *)
(* one action.  Within it, every write_sector appends the disk it leaves   *)
(* to a history t: the call ends with Last(t), a power cut with any of t.  *)
(***************************************************************************)
EXTENDS Integers, FiniteSets, FiniteSetsExt, Functions, SequencesExt

CONSTANTS
  total_clusters,      \* data clusters of the volume
  SLOTS,               \* directory entries per sector: 16 in the source
  SECTOR,              \* bytes per sector: 512
  MAX_OPEN_FILES,      \* 32
  Path,                \* the paths clients use: sequences of names, none empty
  Strings,             \* what clients write in one call
  Spelling,            \* byte -> the slot that file bytes make, read as an entry
  Counts,              \* how many bytes they read
  Seeks,               \* where they seek: <<whence, offset>>
  Dirs,                \* the paths they make directories of
  Premade,             \* names of empty files made elsewhere
  PowerCuts            \* whether the power may fail

\* The 8.3 names of a directory's first two entries; name_to_83 turns nothing
\* into them.
Dots == {".", ".."}

ASSUME Fat32Assumption ==
  /\ total_clusters \in Nat \ {0} /\ SLOTS \in Nat \ {0, 1} /\ SECTOR \in Nat \ {0}
  /\ MAX_OPEN_FILES \in Nat \ {0}
  /\ \A p \in Path : p # <<>> /\ p \in Seq(Range(p) \ Dots)
  /\ \A s \in Strings : s \in Seq(Range(s)) /\ Range(s) \subseteq DOMAIN Spelling
  /\ 0 \in DOMAIN Spelling
  /\ Counts \subseteq Nat /\ Seeks \subseteq {"SET", "CUR", "END"} \X Int
  /\ Dirs \subseteq Path
  /\ PowerCuts \in BOOLEAN

VARIABLES
  disk,         \* [fat, sec]: the allocation table and every sector
  file_table,   \* fd -> an open file, or FREE
  result,       \* the latest call, what it was about and what it answered
  view          \* auxiliary: what disk and file_table amount to, see View

vars == <<disk, file_table, result, view>>

Cluster == 2..(total_clusters + 1)
EOC == total_clusters + 2      \* 0x0FFFFFF8 and above
root_cluster == 2
Fd == 0..(MAX_OPEN_FILES - 1)

END == [mark |-> "end"]            \* a slot that starts with 0x00
DELETED == [mark |-> "deleted"]    \* a slot that starts with 0xE5
FREE == [used |-> FALSE]
NOTFOUND == [found |-> FALSE]

\* A sector is what was last written to it; junk is what the volume's
\* previous life left there.  One byte stands for as many as an entry has.
Slots(d) == [kind |-> "dir", slot |-> d]
Bytes(b) == [kind |-> "data", byte |-> b]
Zeroes == Slots([i \in 1..SLOTS |-> END])
Junk == [i \in 0..(SECTOR - 1) |-> 0]
AsBytes(s) == IF s.kind = "data" THEN s.byte ELSE Junk

Dirent(name, dir, first, size) ==
  [mark |-> "used", name |-> name, dir |-> dir, first |-> first, size |-> size]

\* Directory sector s with x in its first slot.
PutFirst(s, x) == Slots([s.slot EXCEPT ![1] = x])

------------------------------------------------------------------------------
\* Sectors and the allocation table, on a history t of disks.

write_sector(t, c, s) == Append(t, [Last(t) EXCEPT !.sec[c] = s])

fat_set_entry(t, c, v) == Append(t, [Last(t) EXCEPT !.fat[c] = v])

\* The cluster that fat_alloc_cluster finds, 0 if there is none ...
FirstFree(d) ==
  LET free == {c \in Cluster : d.fat[c] = 0}
  IN  IF free = {} THEN 0 ELSE Min(free)

\* Mutant: the cluster found is not marked.
fat_alloc_unmarked(t) == t

\* ... and what it does to the disk.
fat_alloc_cluster(t) ==
  IF FirstFree(Last(t)) = 0 THEN t ELSE fat_set_entry(t, FirstFree(Last(t)), EOC)

\* The cluster behind x; 0 or EOC where the chain has ended.
NextOf(d, x) == IF x \in Cluster THEN d.fat[x] ELSE x

\* The i-th cluster after c.
Walk(d, c, i) ==
  LET at[k \in 0..i] == IF k = 0 THEN c ELSE NextOf(d, at[k - 1])
  IN  at[i]

\* The chain s as far as it goes on.
Longer(d, s) == IF d.fat[Last(s)] \in Cluster THEN Append(s, d.fat[Last(s)]) ELSE s

\* The chain that starts at c.
Chain(d, c) ==
  LET s[k \in 0..total_clusters - 1] == IF k = 0 THEN <<c>> ELSE Longer(d, s[k - 1])
  IN  IF c \in Cluster THEN s[total_clusters - 1] ELSE <<>>

\* The loop that marks a chain free, reading each link before clearing it.
FreeLink(s) ==
  IF s.c \in Cluster
  THEN [t |-> fat_set_entry(s.t, s.c, 0), c |-> Last(s.t).fat[s.c]]
  ELSE s

FreeChain(t, first) ==
  LET s[k \in 0..total_clusters + 1] ==
        IF k = 0 THEN [t |-> t, c |-> first] ELSE FreeLink(s[k - 1])
  IN  s[total_clusters + 1].t

------------------------------------------------------------------------------
\* Directories.

\* The slots of a directory in the order they are scanned: <<cluster, slot>>.
SlotsOf(d, dir) ==
  LET chain == Chain(d, dir)
  IN  [k \in 1..(Len(chain) * SLOTS) |->
        <<chain[((k - 1) \div SLOTS) + 1], ((k - 1) % SLOTS) + 1>>]

\* A sector is read as entries whatever was written to it: file bytes make any.
At(d, de) ==
  LET s == d.sec[de[1]]
  IN  IF s.kind = "dir" THEN s.slot[de[2]] ELSE Spelling[s.byte[(de[2] - 1) % SECTOR]]

\* The first of the slots that bears the name, in front of the first END.
Search(d, slots, name) ==
  LET Matches(k) == At(d, slots[k]).mark = "used" /\ At(d, slots[k]).name = name
      hits == {k \in DOMAIN slots : Matches(k) /\ \A j \in 1..k : At(d, slots[j]) # END}
  IN  IF hits = {} THEN NOTFOUND
      ELSE [found |-> TRUE, de |-> slots[Min(hits)], entry |-> At(d, slots[Min(hits)])]

find_in_dir(d, dir, name) == Search(d, SlotsOf(d, dir), name)

FoundRoot == [found |-> TRUE, de |-> <<0, 0>>, entry |-> Dirent("/", TRUE, root_cluster, 0)]

Below(d, at, name) ==
  IF at.found /\ at.entry.dir THEN find_in_dir(d, at.entry.first, name) ELSE NOTFOUND

fat32_resolve(d, path) ==
  LET at[k \in 0..Len(path)] == IF k = 0 THEN FoundRoot ELSE Below(d, at[k - 1], path[k])
  IN  at[Len(path)]

\* 0 when the parent does not exist or is no directory.
path_parent_cluster(d, path) ==
  LET parent == fat32_resolve(d, Front(path))
  IN  IF parent.found /\ parent.entry.dir THEN parent.entry.first ELSE 0

PutSlot(t, de, x) ==
  LET s == Last(t).sec[de[1]]
  IN  write_sector(t, de[1], Slots([s.slot EXCEPT ![de[2]] = x]))

FreeSlots(d, slots) == {k \in DOMAIN slots : At(d, slots[k]) \in {END, DELETED}}

\* A directory whose last cluster is last gets cluster new, linked before it is
\* cleared, and the entry in it.
ExtendDir(t, last, new, entry) ==
  LET linked == fat_set_entry(fat_alloc_cluster(t), last, new)
  IN  IF new = 0 THEN [t |-> t, ok |-> FALSE]
      ELSE [t |-> PutSlot(write_sector(linked, new, Zeroes), <<new, 1>>, entry), ok |-> TRUE]

\* Mutant: a full directory loses its last entry to the new one.
AddOverwrites(t, slots, entry) ==
  LET free == FreeSlots(Last(t), slots)
      k == IF free = {} THEN Len(slots) ELSE Min(free)
  IN  [t |-> PutSlot(t, slots[k], entry), ok |-> TRUE]

\* The entry goes to the first free slot; a full directory is extended.
Add(t, slots, entry) ==
  LET free == FreeSlots(Last(t), slots)
  IN  IF free # {} THEN [t |-> PutSlot(t, slots[Min(free)], entry), ok |-> TRUE]
      ELSE ExtendDir(t, slots[Len(slots)][1], FirstFree(Last(t)), entry)

dir_add_entry(t, dir, entry) == Add(t, SlotsOf(Last(t), dir), entry)

------------------------------------------------------------------------------
\* Open files.

Answer(op, ret, data) == [op |-> op, ret |-> ret, data |-> data]

\* The flags that the callers in src/ pass to fat32_open.
Mode == {"read", "touch", "append", "rewrite"}
Writes(mode) == mode # "read"        \* FAT32_O_RDWR, and FAT32_O_CREAT with it
Truncates(mode) == mode = "rewrite"  \* FAT32_O_TRUNC

NoFiles == [fd \in Fd |-> FREE]
FreeFds(table) == {fd \in Fd : ~table[fd].used}

NewFile(found, mode) ==
  [used |-> TRUE, first |-> found.entry.first, size |-> found.entry.size,
   pos |-> IF mode = "append" THEN found.entry.size ELSE 0,
   writable |-> Writes(mode), de |-> found.de,
   buf |-> Junk, dirty |-> FALSE, lba |-> EOC]     \* EOC: nothing cached

\* Mutant: the cluster of a file that got no entry stays marked.
KeepCluster(added, c) == added

\* The cluster goes back when there was no room for the entry.
OrGiveBack(added, c) ==
  IF added.ok THEN added ELSE [added EXCEPT !.t = fat_set_entry(@, c, 0)]

\* The missing file of an open with FAT32_O_CREAT: its cluster, then its entry.
CreateIn(t, dir, name, c) ==
  IF dir = 0 \/ c = 0 THEN [t |-> t, ok |-> FALSE]
  ELSE OrGiveBack(dir_add_entry(fat_alloc_cluster(t), dir, Dirent(name, FALSE, c, 0)), c)

Create(d, path) ==
  CreateIn(<<d>>, path_parent_cluster(d, path), Last(path), FirstFree(d))

\* Mutant: the old chain is forgotten.
TruncateLeaks(t, f) ==
  LET c == FirstFree(Last(t))
  IN  [t |-> fat_alloc_cluster(t),
       f |-> [f EXCEPT !.first = IF c = 0 THEN @ ELSE c, !.size = 0, !.pos = 0]]

\* The old chain goes, a fresh cluster comes; the entry on disk keeps pointing
\* at the old one until the file is closed.
Truncate(t, f) ==
  LET t1 == FreeChain(t, f.first)
      c == FirstFree(Last(t1))
  IN  [t |-> fat_alloc_cluster(t1),
       f |-> [f EXCEPT !.first = IF c = 0 THEN @ ELSE c, !.size = 0, !.pos = 0]]

\* The history and whether the file is there now.
Ensure(d, path, mode) ==
  IF ~fat32_resolve(d, path).found /\ Writes(mode) THEN Create(d, path)
  ELSE [t |-> <<d>>, ok |-> fat32_resolve(d, path).found]

\* made is what Ensure left; the file gets the lowest free descriptor.
Install(made, table, path, mode) ==
  LET fd == Min(FreeFds(table))
      file == NewFile(fat32_resolve(Last(made.t), path), mode)
      Opened(x) == [t |-> x.t, table |-> [table EXCEPT ![fd] = x.f],
                    answer |-> Answer("open", fd, <<>>)]
  IN  IF ~made.ok \/ FreeFds(table) = {}
      THEN [t |-> made.t, table |-> table, answer |-> Answer("open", -1, <<>>)]
      ELSE Opened(IF Truncates(mode) THEN Truncate(made.t, file) ELSE [t |-> made.t, f |-> file])

\* Everything fat32_open does after its mounted check; fd = -1 on failure.
OpenOutcome(d, table, path, mode) == Install(Ensure(d, path, mode), table, path, mode)

\* Mutant: the flag is cleared, the sector not written.
FlushForgets(s) == [s EXCEPT !.f.dirty = FALSE]

\* Write the cached sector back if it changed.
Flush(s) ==
  IF s.f.dirty
  THEN [s EXCEPT !.t = write_sector(@, s.f.lba, Bytes(s.f.buf)), !.f.dirty = FALSE]
  ELSE s

\* Make c the cached sector.
Cache(s, c) ==
  IF s.f.lba = c THEN s
  ELSE LET s1 == Flush(s)
       IN  [s1 EXCEPT !.f.buf = AsBytes(Last(s1.t).sec[c]), !.f.lba = c]

\* The next byte out of and into the cached sector.
GetByte(s) ==
  [s EXCEPT !.f.pos = @ + 1, !.out = Append(@, s.f.buf[s.f.pos % SECTOR])]

PutByte(s, b) ==
  [s EXCEPT !.f.buf[s.f.pos % SECTOR] = b, !.f.dirty = TRUE, !.f.pos = @ + 1, !.n = @ + 1,
            !.f.size = IF s.f.pos + 1 > @ THEN s.f.pos + 1 ELSE @]

\* One byte of fat32_read and of fat32_write; the loops of the source go on a
\* stretch of bytes within one sector at a time.
ReadAt(s, c) ==
  IF c = EOC \/ s.short THEN [s EXCEPT !.short = TRUE] ELSE GetByte(Cache(s, c))

ReadByte(s) == ReadAt(s, Walk(Last(s.t), s.f.first, s.f.pos \div SECTOR))

\* A free cluster is taken, and linked behind cluster c.
Taken(t) == [t |-> fat_alloc_cluster(t), c |-> FirstFree(Last(t)), full |-> FirstFree(Last(t)) = 0]
Link(c, new) == IF new.full THEN new ELSE [new EXCEPT !.t = fat_set_entry(@, c, new.c)]

Grow(r) ==
  IF r.full THEN r
  ELSE IF Last(r.t).fat[r.c] # EOC THEN [r EXCEPT !.c = Last(r.t).fat[r.c]]
  ELSE Link(r.c, Taken(r.t))

\* The cluster that byte pos of the file belongs in, allocated if the chain
\* is too short, unless the disk is full.
Reach(t, f) ==
  LET start == IF f.first # 0 THEN [t |-> t, c |-> f.first, full |-> FALSE] ELSE Taken(t)
      r[k \in 0..(f.pos \div SECTOR)] == IF k = 0 THEN start ELSE Grow(r[k - 1])
      Reached(x) == [t |-> x.t, c |-> x.c, full |-> x.full, first |-> start.c]
  IN  Reached(r[f.pos \div SECTOR])

\* r is where the byte goes.
WriteAt(s, r, b) ==
  LET here == [s EXCEPT !.t = r.t, !.f.first = r.first]
  IN  IF s.short \/ r.full THEN [here EXCEPT !.short = TRUE]
      ELSE PutByte(Cache(here, r.c), b)

WriteByte(s, b) == WriteAt(s, Reach(s.t, s.f), b)

ReadOutcome(d, f, count) ==
  LET left == IF f.pos + count > f.size THEN f.size - f.pos ELSE count
      start == [t |-> <<d>>, f |-> f, out |-> <<>>, short |-> FALSE]
      s[k \in 0..left] == IF k = 0 THEN start ELSE ReadByte(s[k - 1])
  IN  IF f.pos >= f.size THEN start ELSE s[left]

WriteOutcome(d, f, bytes) ==
  LET s[k \in 0..Len(bytes)] ==
        IF k = 0 THEN [t |-> <<d>>, f |-> f, n |-> 0, short |-> FALSE]
        ELSE WriteByte(s[k - 1], bytes[k])
  IN  s[Len(bytes)]

\* The size and the first cluster go back into the entry of a writable file.
CloseOutcome(d, f) ==
  LET t == Flush([t |-> <<d>>, f |-> f]).t
      e == At(Last(t), f.de)
  IN  IF f.writable
      THEN PutSlot(t, f.de, [e EXCEPT !.size = f.size, !.first = f.first])
      ELSE t

\* Mutant: no lower bound.
ClampAbove(n, f) == IF n > f.size THEN f.size ELSE n

Clamp(n, f) == IF n < 0 THEN 0 ELSE IF n > f.size THEN f.size ELSE n

------------------------------------------------------------------------------
\* Calls on paths.

\* ".", ".." and the cleared sector before the entry of the new directory.
MkdirOutcome(d, path) ==
  LET dir == path_parent_cluster(d, path)
      c == FirstFree(d)
      dots == Slots([i \in 1..SLOTS |->
                CASE i = 1 -> Dirent(".", TRUE, c, 0)
                  [] i = 2 -> Dirent("..", TRUE, dir, 0)
                  [] OTHER -> END])
      t == write_sector(write_sector(fat_alloc_cluster(<<d>>), c, Zeroes), c, dots)
  IN  IF fat32_resolve(d, path).found \/ dir = 0 \/ c = 0 THEN [t |-> <<d>>, ok |-> FALSE]
      ELSE dir_add_entry(t, dir, Dirent(Last(path), TRUE, c, 0))

\* Mutant: the chain is freed while the entry still points at it.
DeleteChainFirst(d, path) ==
  LET x == fat32_resolve(d, path)
  IN  IF ~x.found THEN [t |-> <<d>>, ok |-> FALSE]
      ELSE [t |-> PutSlot(FreeChain(<<d>>, x.entry.first), x.de, DELETED), ok |-> TRUE]

DeleteOutcome(d, path) ==
  LET x == fat32_resolve(d, path)
  IN  IF ~x.found THEN [t |-> <<d>>, ok |-> FALSE]
      ELSE [t |-> FreeChain(PutSlot(<<d>>, x.de, DELETED), x.entry.first), ok |-> TRUE]

\* The old entry goes before the new one is known to find room.
RenameOutcome(d, old, new) ==
  LET x == fat32_resolve(d, old)
      dir == path_parent_cluster(d, new)
  IN  IF ~x.found \/ dir = 0 THEN [t |-> <<d>>, ok |-> FALSE]
      ELSE dir_add_entry(PutSlot(<<d>>, x.de, DELETED), dir,
                         [x.entry EXCEPT !.name = Last(new)])

------------------------------------------------------------------------------
\* What a disk d and a table amount to: the tree of files, the descriptors, and
\* the clusters in use and lost.  x is what fat32_resolve answers for a path;
\* the descriptor that is writing the file knows better than its entry.

Effective(table, x) ==
  LET writer == {fd \in Fd : /\ table[fd].used /\ table[fd].writable
                             /\ table[fd].de = x.de}
  IN  IF writer = {} THEN [first |-> x.entry.first, size |-> x.entry.size, lba |-> EOC]
      ELSE table[CHOOSE fd \in writer : TRUE]

\* -1 stands for a byte that no cluster holds.
ContentOf(d, f) ==
  LET chain == Chain(d, f.first)
      Sector(k) == IF k > Len(chain) THEN [i \in 0..(SECTOR - 1) |-> -1]
                   ELSE IF f.lba = chain[k] THEN f.buf ELSE AsBytes(d.sec[chain[k]])
  IN  [i \in 1..f.size |-> Sector(((i - 1) \div SECTOR) + 1)[(i - 1) % SECTOR]]

\* The paths that lead to something, and what is there.
Found(d) ==
  {x \in {[path |-> p, at |-> fat32_resolve(d, p)] : p \in Path} : x.at.found}

Entries(d, table) ==
  {LET f == Effective(table, x.at)
   IN  [path |-> x.path, de |-> x.at.de, dir |-> x.at.entry.dir,
        uses |-> Range(Chain(d, f.first)),
        bytes |-> IF x.at.entry.dir THEN <<>> ELSE ContentOf(d, f)] : x \in Found(d)}

View(d, table) ==
  LET entries == Entries(d, table)
      present == {x.path : x \in entries}
      The(p) == CHOOSE x \in entries : x.path = p
      Name(f) == (CHOOSE x \in entries : x.de = f.de).path
      root == Range(Chain(d, root_cluster))
  IN  [tree |-> [p \in present |-> [dir |-> The(p).dir, bytes |-> The(p).bytes]],
       fds |-> [fd \in Fd |->
                 IF ~table[fd].used THEN [open |-> FALSE]
                 ELSE [open |-> TRUE, path |-> Name(table[fd]), pos |-> table[fd].pos,
                       writable |-> table[fd].writable]],
       uses |-> [p \in present |-> The(p).uses],
       root |-> root,
       lost |-> {c \in Cluster : d.fat[c] # 0} \ (UNION {x.uses : x \in entries} \cup root)]

------------------------------------------------------------------------------
\* What clients do.  The driver takes any call and checks none of this.  A client
\* that keeps these rules has a file for itself alone while it writes it, and
\* neither deletes nor renames what is open, what is not empty or onto what is
\* there.  (A user can make the shell break them: cp a a, mv a b, rm of a full
\* directory.)

OpenOn(path) == {fd \in Fd : view.fds[fd].open /\ view.fds[fd].path = path}

IsDir(path) == path \in DOMAIN view.tree /\ view.tree[path].dir

IsEmptyDir(path) ==
  \A x \in DOMAIN view.tree : ~(Len(x) > Len(path) /\ IsPrefix(path, x))

MayOpen(path, mode) ==
  IF Writes(mode) THEN OpenOn(path) = {} /\ ~IsDir(path)
  ELSE \A fd \in OpenOn(path) : ~file_table[fd].writable

MayDelete(path) == OpenOn(path) = {} /\ (IsDir(path) => IsEmptyDir(path))

MayRename(old, new) ==
  OpenOn(old) = {} /\ ~IsDir(old) /\ new \notin DOMAIN view.tree

------------------------------------------------------------------------------
\* Calls.

\* A call about the paths in on has outcome o = [t, table, answer]: it runs to
\* its end, or the power fails on the way and the next mount finds one of the
\* disks of t and an empty table.
Finish(o, on, truncates) ==
  \/ /\ disk' = Last(o.t)
     /\ file_table' = o.table
     /\ result' = o.answer
     /\ view' = View(Last(o.t), o.table)
  \/ /\ PowerCuts
     /\ \E i \in DOMAIN o.t : disk' = o.t[i] /\ view' = View(o.t[i], NoFiles)
     /\ file_table' = NoFiles
     /\ result' = [op |-> "cut", on |-> on,
                   during |-> IF truncates THEN "truncation" ELSE o.answer.op]

\* The outcome of a call on a path, and of one on descriptor fd.
OnPath(op, x) ==
  [t |-> x.t, table |-> file_table, answer |-> Answer(op, IF x.ok THEN 0 ELSE -1, <<>>)]

OnFile(fd, t, f, answer) ==
  [t |-> t, table |-> [file_table EXCEPT ![fd] = f], answer |-> answer]

Up == result.op # "cut"
InUse(fd) == Up /\ file_table[fd].used

fat32_open(path, mode) ==
  /\ Up
  /\ MayOpen(path, mode)
  /\ Finish(OpenOutcome(disk, file_table, path, mode), {path}, Truncates(mode))

fat32_close(fd) ==
  /\ InUse(fd)
  /\ Finish(OnFile(fd, CloseOutcome(disk, file_table[fd]), FREE, Answer("close", 0, <<>>)),
            {}, FALSE)

fat32_read(fd, count) ==
  LET Outcome(x) == OnFile(fd, x.t, x.f, Answer("read", Len(x.out), x.out))
  IN  /\ InUse(fd)
      /\ Finish(Outcome(ReadOutcome(disk, file_table[fd], count)), {}, FALSE)

fat32_write(fd, bytes) ==
  LET Outcome(x) == OnFile(fd, x.t, x.f, Answer("write", x.n, <<>>))
      refused == OnFile(fd, <<disk>>, file_table[fd], Answer("write", -1, <<>>))
  IN  /\ InUse(fd)
      /\ Finish(IF file_table[fd].writable
                THEN Outcome(WriteOutcome(disk, file_table[fd], bytes)) ELSE refused,
                {}, FALSE)

fat32_seek(fd, whence, offset) ==
  LET f == file_table[fd]
      base == CASE whence = "SET" -> 0 [] whence = "CUR" -> f.pos [] OTHER -> f.size
      pos == Clamp(base + offset, f)
  IN  /\ InUse(fd)
      /\ Finish(OnFile(fd, <<disk>>, [f EXCEPT !.pos = pos], Answer("seek", pos, <<>>)), {}, FALSE)

fat32_mkdir(path) ==
  /\ Up
  /\ Finish(OnPath("mkdir", MkdirOutcome(disk, path)), {path}, FALSE)

fat32_delete(path) ==
  /\ Up
  /\ MayDelete(path)
  /\ Finish(OnPath("delete", DeleteOutcome(disk, path)), {path}, FALSE)

fat32_rename(old, new) ==
  /\ Up
  /\ MayRename(old, new)
  /\ Finish(OnPath("rename", RenameOutcome(disk, old, new)), {old, new}, FALSE)

------------------------------------------------------------------------------
\* A volume as the image tools leave it: an empty root directory, or one that
\* holds an empty file made elsewhere, which has no cluster.
Init ==
  /\ \E root \in {Zeroes} \cup {PutFirst(Zeroes, Dirent(n, FALSE, 0, 0)) : n \in Premade} :
       disk = [fat |-> [c \in Cluster |-> IF c = root_cluster THEN EOC ELSE 0],
               sec |-> [c \in Cluster |-> IF c = root_cluster THEN root ELSE Bytes(Junk)]]
  /\ file_table = NoFiles
  /\ result = Answer("mount", 0, <<>>)
  /\ view = View(disk, file_table)

Next ==
  \/ \E path \in Path :
       \/ \E mode \in Mode : fat32_open(path, mode)
       \/ fat32_delete(path)
       \/ \E new \in Path : fat32_rename(path, new)
  \/ \E path \in Dirs : fat32_mkdir(path)
  \/ \E fd \in Fd :
       \/ fat32_close(fd)
       \/ \E count \in Counts : fat32_read(fd, count)
       \/ \E seek \in Seeks : fat32_seek(fd, seek[1], seek[2])
       \/ \E bytes \in Strings : fat32_write(fd, bytes)

Spec == Init /\ [][Next]_vars

------------------------------------------------------------------------------
\* Properties.

\* A volume that chains have not outgrown, positions within files, entries and
\* cached sectors that exist.
TypeOK ==
  /\ disk.fat \in [Cluster -> {0, EOC} \cup Cluster]
  /\ DOMAIN disk.sec = Cluster
  /\ \A fd \in Fd : file_table[fd].used =>
       LET f == file_table[fd]
       IN  /\ f.first \in {0} \cup Cluster
           /\ f.pos \in 0..f.size /\ f.size <= total_clusters * SECTOR
           /\ f.lba \in Cluster \cup {EOC}
           /\ f.dirty => f.writable /\ f.lba # EOC

\* fat32.c:157-166, 496-512, 598-654, 800-819.  While files grow, shrink, come
\* and go under several descriptors, no cluster serves two files, no file
\* reaches a free cluster, and each has clusters for all its bytes.
ChainsSound ==
  Up => LET files == DOMAIN view.tree
            uses == view.uses
        IN  /\ \A p \in files : \A q \in files \ {p} : uses[p] \cap uses[q] = {}
            /\ \A p \in files : uses[p] \cap view.root = {}
            /\ \A p \in files : \A c \in uses[p] : disk.fat[c] # 0
            /\ \A p \in files : Cardinality(uses[p]) * SECTOR >= Len(view.tree[p].bytes)

\* fat32.c:466-467, 496-512.  "so we don't leak FAT entries": no call leaves a
\* cluster allocated that no name leads to, whether it succeeds or finds the disk
\* or the table full on its way.  Two do when they fail: mkdir keeps the cluster
\* of the directory that found no room, and rename drops the entry.
CallsLeakNothing ==
  [][Up' /\ ~(result'.op \in {"mkdir", "rename"} /\ result'.ret = -1) =>
       view'.lost \subseteq view.lost]_vars

\* fat32.c:396-442, 444-473, 496-512, 752-819.  The two together: every cluster
\* belongs to one file or directory, or is free, through directories that grow,
\* move and go, on a disk that fills up.
ClustersAccounted == []ChainsSound /\ CallsLeakNothing

BeingWritten(p) == \E fd \in OpenOn(p) : file_table[fd].writable

\* fat32.c:396-442, 598-654.  Whatever call the power cut falls into, a file
\* that call was not about and that nobody was writing reads as before.
BystandersSurvive ==
  [][result'.op = "cut" =>
       \A p \in DOMAIN view.tree \ result'.on :
         \/ BeingWritten(p)
         \/ p \in DOMAIN view'.tree /\ view'.tree[p] = view.tree[p]]_vars

\* An entry on the way to path p is read out of a sector that was never cleared.
Stray(d, p) ==
  \E k \in 1..Len(p) :
    LET x == fat32_resolve(d, SubSeq(p, 1, k))
    IN  x.found /\ d.sec[x.de[1]].kind = "data"

\* fat32.c:431-435, 444-473, 752-819.  Creating marks clusters before entries
\* point at them, deleting clears entries before their clusters: after a power
\* cut no entry leads to a free cluster, but those of files that were being
\* written or truncated, and what a directory shows in a cluster that the cut
\* left linked and not yet cleared.
CutEntriesBacked ==
  [][result'.op = "cut" =>
       \A p \in DOMAIN view'.tree :
         \/ BeingWritten(p) \/ Stray(disk', p)
         \/ result'.during = "truncation" /\ p \in result'.on
         \/ \A c \in view'.uses[p] : disk'.fat[c] # 0]_vars

\* Survivors and entries, for power cuts into calls of every kind.
PowerCutsContained == BystandersSurvive /\ CutEntriesBacked

\* fat32.c:821, "Rename (copy entry, delete old)": a rename that fails leaves
\* the file where it was.
FailedRenameKeepsFile ==
  [][result'.op = "rename" /\ result'.ret = -1 => view'.tree = view.tree]_vars

Store == INSTANCE FileStore WITH tree <- view.tree, fds <- view.fds

\* fat32.c:445-845.  Through every interleaving of descriptors, with sectors
\* cached in one place and sizes in another, a read returns what was written
\* last, and nothing but the call's own file changes.  A power cut ends the calls.
ImplementsFileStore == Store!StoreInit /\ [][Up' => Store!StoreNext]_vars

==============================================================================
