-------------------------------- MODULE Volume ---------------------------------
(***************************************************************************)
(* What the shell sees of the FAT32 driver (kernel/fs/fat32/fat32.c): the  *)
(* tree of files and directories, the descriptors in use, and a number of  *)
(* clusters that can run out.  Fat32 has the driver itself.                *)
(*                                                                         *)
(* d is a function from the paths that exist to their nodes; a file's text *)
(* is a sequence of blocks, each of which fits a cluster.  That directories *)
(* grow, too, is left out; nobody writes to a directory.                   *)
(***************************************************************************)
EXTENDS Integers, FiniteSets, FiniteSetsExt, SequencesExt, Functions, TLC

CONSTANT MAX_OPEN_FILES   \* 32 in the code

ASSUME VolumeAssumption == MAX_OPEN_FILES \in Nat

NoFd == -1
Dir == [dir |-> TRUE, text |-> <<>>]
File(text) == [dir |-> FALSE, text |-> text]

Clusters(node) == IF Len(node.text) = 0 THEN 1 ELSE Len(node.text)
Room(d, cap) == cap - MapThenSumSet(LAMBDA p : Clusters(d[p]), DOMAIN d)

IsDir(d, path) == path = <<>> \/ (path \in DOMAIN d /\ d[path].dir)
IsFile(d, path) == path \in DOMAIN d /\ ~d[path].dir
Exists(d, path) == IsDir(d, path) \/ IsFile(d, path)
With(d, path, node) == (path :> node) @@ d
CanAdd(d, cap, path) == path # <<>> /\ IsDir(d, Front(path)) /\ Room(d, cap) > 0

LowestFree(fds) ==
  LET free == (0..MAX_OPEN_FILES - 1) \ fds
  IN  IF free = {} THEN NoFd ELSE Min(free)

\* mode is "read", "trunc" or "append"; the last two create.  A file is created,
\* but not truncated, even where no descriptor is left.
fat32_open(d, cap, fds, path, mode) ==
  LET made == IF Exists(d, path) THEN d ELSE With(d, path, File(<<>>))
      fd == LowestFree(fds)
  IN  IF ~Exists(d, path) /\ (mode = "read" \/ ~CanAdd(d, cap, path))
      THEN [fd |-> NoFd, d |-> d]
      ELSE IF mode = "trunc" /\ fd # NoFd
      THEN [fd |-> fd, d |-> With(made, path, File(<<>>))]
      ELSE [fd |-> fd, d |-> made]

\* The first block of a file has its cluster already.
Takes(d, cap, path) == d[path].text = <<>> \/ Room(d, cap) > 0
fat32_write(d, cap, path, block) ==
  IF Takes(d, cap, path) THEN With(d, path, File(Append(d[path].text, block))) ELSE d

fat32_mkdir(d, path) == With(d, path, Dir)

\* A directory goes with all that is in it, but leaves the clusters of what is
\* in it taken.
fat32_delete(d, path) == Restrict(d, {p \in DOMAIN d : ~IsPrefix(path, p)})

\* A directory takes along what is in it.
fat32_rename(d, old, new) ==
  LET moved(p) == new \o SubSeq(p, Len(old) + 1, Len(p))
      kept == {p \in DOMAIN d : ~IsPrefix(old, p)}
  IN  [q \in kept \cup {moved(p) : p \in DOMAIN d \ kept} |->
         IF q \in kept THEN d[q]
         ELSE d[CHOOSE p \in DOMAIN d \ kept : moved(p) = q]]

==============================================================================
