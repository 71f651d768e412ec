-------------------------------- MODULE Files --------------------------------
(***************************************************************************)
(* File descriptors and the read-only file system: sys_open, sys_close and *)
(* sys_read (student-distrib/syscall.c) over read_dentry_by_name,          *)
(* read_data, file_read and dir_read (filesys.c).                          *)
(*                                                                         *)
(* A call works on the table in the caller's own PCB and on the constant   *)
(* image of the disk, so every call is one step.  A call that returns -1   *)
(* changes nothing and is no step; sys_write is never one, since it fails  *)
(* on files and directories.                                               *)
(*                                                                         *)
(* A byte is the pair of its data block and its place in the block.        *)
(***************************************************************************)
EXTENDS Integers, Sequences, FiniteSets

CONSTANTS
  Proc,        \* pids
  FDSIZE,      \* size of file_array
  BLOCKSIZE,
  MAXCHAR,     \* size of a name in a directory entry
  dir_entry,   \* dir_entry[i] for i in 0 .. num_dentry - 1
  inodes,      \* inodes[i] for i in 0 .. num_inode - 1
  num_dblock,
  chr,         \* chr[b]: the character that the byte b # 0 is
  Name,        \* names that programs open
  Nbytes       \* sizes that programs read

RTC_FILETYPE  == 0
DIR_FILETYPE  == 1
FILE_FILETYPE == 2

Fd     == 0 .. FDSIZE - 1
UserFd == 2 .. FDSIZE - 1

num_dentry == Cardinality(DOMAIN dir_entry)
num_inode  == Cardinality(DOMAIN inodes)

ASSUME FilesAssumption ==
  /\ FDSIZE \in Nat /\ FDSIZE >= 2
  /\ BLOCKSIZE \in Nat \ {0} /\ MAXCHAR \in Nat \ {0} /\ num_dblock \in Nat
  /\ num_dentry \in Nat /\ num_inode \in Nat
  /\ dir_entry \in [0 .. num_dentry - 1 ->
       [file_name : Seq(STRING), file_type : Nat, inode_idx : Nat]]
  /\ DOMAIN inodes = 0 .. num_inode - 1
  /\ \A i \in DOMAIN inodes : inodes[i].length \in Nat
  /\ Name \subseteq Seq(STRING) /\ Nbytes \subseteq Nat

\* sizeof(dentry_t): a name takes half of it.
DentrySize == 2 * MAXCHAR

\* A name has at most the size of its field, and a type is one byte.  A name
\* that is asked for is copied to a dentry_t, and has to fit into it.
ASSUME EntryAssumption ==
  /\ chr \in [1 .. 255 -> STRING]
  /\ \A i \in DOMAIN dir_entry : /\ Len(dir_entry[i].file_name) <= MAXCHAR
                                 /\ dir_entry[i].file_type \in 0 .. 255
  /\ \A filename \in Name : Len(filename) < DentrySize

VARIABLES
  file_array,  \* file_array[p][fd], in the PCB of process p
  live,        \* the processes that exist
  got,         \* history: what reads of the descriptor have returned
  named        \* history: the name the descriptor was opened with

vars == <<file_array, live, got, named>>

NoFile == [ops |-> "none", inode |-> 0, file_pos |-> 0, flag |-> 0]
stdin  == [NoFile EXCEPT !.ops = "stdin", !.flag = 1]
stdout == [NoFile EXCEPT !.ops = "stdout", !.flag = 1]

Fresh == [fd \in Fd |-> CASE fd = 0 -> stdin [] fd = 1 -> stdout
                          [] OTHER -> NoFile]

Init ==
  /\ file_array = [p \in Proc |-> [fd \in Fd |-> NoFile]]
  /\ live = {}
  /\ got = [p \in Proc |-> [fd \in Fd |-> <<>>]]
  /\ named = [p \in Proc |-> [fd \in Fd |-> <<>>]]

-----------------------------------------------------------------------------
(* The file system. *)

Cut(s, n) == IF Len(s) <= n THEN s ELSE SubSeq(s, 1, n)

\* strncmp(s1, s2, n) == 0, for names without their terminating '\0'.
SameName(s1, s2, n) == Cut(s1, n) = Cut(s2, n)

\* Mutant: an entry that fname begins with is taken.
Matches_prefix(fname) ==
  {i \in DOMAIN dir_entry :
     LET s == dir_entry[i].file_name IN SameName(fname, s, Len(s))}

\* read_dentry_by_name returns the first of the entries that match.
Matches(fname) ==
  {i \in DOMAIN dir_entry :
     SameName(fname, dir_entry[i].file_name, MAXCHAR - 1)}

read_dentry_by_name(fname) ==
  dir_entry[CHOOSE i \in Matches(fname) : \A j \in Matches(fname) : i <= j]

Failed(data) == [ret |-> -1, data |-> data]

\* The bytes to read within the current block.
Chunk(offset, length) ==
  IF (offset % BLOCKSIZE) + length < BLOCKSIZE
  THEN length ELSE BLOCKSIZE - (offset % BLOCKSIZE)

\* Mutant: every block is read from its beginning.
Copied_aligned(block, offset, n) == [k \in 1 .. n |-> <<block, k - 1>>]

\* memcpy of n bytes from the place of offset in the block.
Copied(block, offset, n) ==
  [k \in 1 .. n |-> <<block, (offset % BLOCKSIZE) + k - 1>>]

\* The loop of read_data for length bytes from offset on: by the number of
\* bytes that are left, what the rest of it returns and copies.
ReadLoop(node, offset, length) ==
  LET loop[left \in 0 .. length] ==
        LET at    == offset + (length - left)
            block == node.dblock_idx[at \div BLOCKSIZE]
            n     == Chunk(at, left)
            bytes == Copied(block, at, n)
            rest  == loop[left - n]
        IN  IF left = 0 THEN [ret |-> 0, data |-> <<>>]
            ELSE IF block >= num_dblock THEN Failed(<<>>)
            ELSE IF rest.ret = -1 THEN Failed(bytes \o rest.data)
            ELSE [ret |-> n + rest.ret, data |-> bytes \o rest.data]
  IN  loop[length]

\* length + offset stays below 2^32: sys_read rejects a negative count and a
\* file has at most 1023 blocks.
read_data(inode, offset, length) ==
  IF inode >= num_inode THEN Failed(<<>>)
  ELSE LET node == inodes[inode]
           most == IF length + offset >= node.length
                   THEN node.length - offset ELSE length
       IN  IF offset >= node.length THEN [ret |-> 0, data |-> <<>>]
           ELSE ReadLoop(node, offset, most)

-----------------------------------------------------------------------------
(* System calls of process p. *)

\* The set-up of file_array in sys_execute.
sys_execute(p) ==
  /\ p \notin live
  /\ live' = live \cup {p}
  /\ file_array' = [file_array EXCEPT ![p] = Fresh]
  /\ UNCHANGED <<got, named>>

FreeFds(p) == {fd \in Fd : file_array[p][fd].flag # 1}

\* file_open refuses an empty name and one that begins with a blank.
Refused(filename) == filename = <<>> \/ filename[1] = " "

\* What sys_open returns: the first free descriptor or -1.
Opened(p, filename) ==
  IF \/ FreeFds(p) = {} \/ Matches(filename) = {}
     \/ /\ read_dentry_by_name(filename).file_type = FILE_FILETYPE
        /\ Refused(filename)
  THEN -1
  ELSE CHOOSE fd \in FreeFds(p) : \A other \in FreeFds(p) : fd <= other

\* The table entry for a directory entry of each type.
Element(dentry) ==
  CASE dentry.file_type = RTC_FILETYPE  -> [NoFile EXCEPT !.ops = "rtc"]
    [] dentry.file_type = DIR_FILETYPE  -> [NoFile EXCEPT !.ops = "dir"]
    [] dentry.file_type = FILE_FILETYPE ->
         [NoFile EXCEPT !.ops = "file", !.inode = dentry.inode_idx]

\* An entry of any other type changes nothing.
sys_open(p, filename) ==
  /\ p \in live
  /\ LET fd == Opened(p, filename)
     IN  /\ fd # -1
         /\ read_dentry_by_name(filename).file_type \in
              {RTC_FILETYPE, DIR_FILETYPE, FILE_FILETYPE}
         /\ file_array' = [file_array EXCEPT ![p][fd] =
              [Element(read_dentry_by_name(filename)) EXCEPT !.flag = 1]]
         /\ got' = [got EXCEPT ![p][fd] = <<>>]
         /\ named' = [named EXCEPT ![p][fd] = filename]
  /\ UNCHANGED live

\* sys_close leaves the operations where they are.
Closed(element) ==
  [element EXCEPT !.flag = 0, !.inode = 0, !.file_pos = 0]

\* Mutant: any descriptor may be closed.
Closable_any(p, fd) == fd \in Fd /\ file_array[p][fd].flag = 1

\* The sanity checks of sys_close.
Closable(p, fd) == fd \in UserFd /\ file_array[p][fd].flag = 1

sys_close(p, fd) ==
  /\ p \in live /\ Closable(p, fd)
  /\ file_array' = [file_array EXCEPT ![p][fd] = Closed(@)]
  /\ got' = [got EXCEPT ![p][fd] = <<>>]
  /\ named' = [named EXCEPT ![p][fd] = <<>>]
  /\ UNCHANGED live

\* sys_halt closes every descriptor but the first two.
sys_halt(p) ==
  /\ p \in live
  /\ live' = live \ {p}
  /\ file_array' = [file_array EXCEPT ![p] =
       [fd \in Fd |-> IF fd \in UserFd THEN Closed(@[fd]) ELSE @[fd]]]
  /\ got' = [got EXCEPT ![p] = [fd \in Fd |-> <<>>]]
  /\ named' = [named EXCEPT ![p] = [fd \in Fd |-> <<>>]]

\* sys_read finds the read operation of the descriptor.
Readable(p, fd, ops) ==
  /\ p \in live /\ fd \in UserFd
  /\ file_array[p][fd].flag = 1 /\ file_array[p][fd].ops = ops

\* read_data from the position on; a failure leaves it where it is.
file_read(p, fd, nbytes) ==
  /\ Readable(p, fd, "file")
  /\ LET element == file_array[p][fd]
         read    == read_data(element.inode, element.file_pos, nbytes)
     IN  /\ read.ret # -1
         /\ file_array' = [file_array EXCEPT ![p][fd].file_pos = @ + read.ret]
         /\ got' = [got EXCEPT ![p][fd] = @ \o read.data]
  /\ UNCHANGED <<live, named>>

\* The string at the name of a directory entry: a name that fills its field
\* has no terminator, and the string goes on with the first byte of file_type.
NameString(dentry) ==
  IF Len(dentry.file_name) = MAXCHAR /\ dentry.file_type # 0
  THEN Append(dentry.file_name, chr[dentry.file_type])
  ELSE dentry.file_name

\* Mutant: reading past the last entry does not start again.
dir_read_no_rewind(p, fd, nbytes) ==
  /\ Readable(p, fd, "dir")
  /\ LET dentry_idx == file_array[p][fd].file_pos
     IN  IF dentry_idx >= num_dentry
         THEN /\ got' = [got EXCEPT ![p][fd] = <<>>]
              /\ UNCHANGED file_array
         ELSE /\ file_array' = [file_array EXCEPT ![p][fd].file_pos = @ + 1]
              /\ got' = [got EXCEPT ![p][fd] =
                   Append(@, Cut(NameString(dir_entry[dentry_idx]), nbytes))]
  /\ UNCHANGED <<live, named>>

\* Mutant: the size of the field is returned.
NameLength_field(dentry) == MAXCHAR

\* strlen of the name of a directory entry.
NameLength(dentry) == Len(NameString(dentry))

\* What dir_read returns: the length of the name, whatever nbytes is.
Listed(p, fd, nbytes) ==
  LET dentry_idx == file_array[p][fd].file_pos
  IN  IF dentry_idx >= num_dentry THEN [ret |-> 0, data |-> <<>>]
      ELSE [ret  |-> NameLength(dir_entry[dentry_idx]),
            data |-> Cut(NameString(dir_entry[dentry_idx]), nbytes)]

\* One name for each read, then 0 once, which starts the listing again.
dir_read(p, fd, nbytes) ==
  /\ Readable(p, fd, "dir")
  /\ LET dentry_idx == file_array[p][fd].file_pos
     IN  IF dentry_idx >= num_dentry
         THEN /\ file_array' = [file_array EXCEPT ![p][fd].file_pos = 0]
              /\ got' = [got EXCEPT ![p][fd] = <<>>]
         ELSE /\ file_array' = [file_array EXCEPT ![p][fd].file_pos = @ + 1]
              /\ got' = [got EXCEPT ![p][fd] =
                   Append(@, Cut(NameString(dir_entry[dentry_idx]), nbytes))]
  /\ UNCHANGED <<live, named>>

Next ==
  \E p \in Proc :
    \/ sys_execute(p) \/ sys_halt(p)
    \/ \E filename \in Name : sys_open(p, filename)
    \/ \E fd \in Fd :
         \/ sys_close(p, fd)
         \/ \E nbytes \in Nbytes : file_read(p, fd, nbytes)
                                   \/ dir_read(p, fd, nbytes)

Spec == Init /\ [][Next]_vars

-----------------------------------------------------------------------------
\* Every variable has its type; 0 and 1 are never given away.
TypeOK ==
  /\ live \subseteq Proc
  /\ file_array \in [Proc -> [Fd ->
       [ops : {"none", "stdin", "stdout", "rtc", "dir", "file"},
        inode : Nat, file_pos : Nat, flag : {0, 1}]]]
  /\ \A p \in live : file_array[p][0] = stdin /\ file_array[p][1] = stdout

Open(p, fd) == p \in live /\ fd \in UserFd /\ file_array[p][fd].flag = 1

\* The bytes of a file, by its inode.
Content(inode) ==
  LET node == inodes[inode]
  IN  [k \in 1 .. node.length |->
         <<node.dblock_idx[(k - 1) \div BLOCKSIZE], (k - 1) % BLOCKSIZE>>]

\* file_read: through one descriptor, whatever sizes are asked for and whatever
\* other descriptors and processes do, a program gets the bytes of the file it
\* opened, in order and each once.
FileReadInOrder ==
  \A p \in Proc, fd \in Fd :
    Open(p, fd) /\ file_array[p][fd].ops = "file" =>
      LET e == file_array[p][fd]
      IN  got[p][fd] = SubSeq(Content(e.inode), 1, e.file_pos)

\* dir_read: a listing names every entry of the directory once, in order.  What
\* a read has copied, up to the size of the field, is the name or as much of it
\* as was asked for; behind a name that fills its field a larger read copies
\* the byte of the type too.
DirectoryListed ==
  \A p \in Proc, fd \in Fd :
    Open(p, fd) /\ file_array[p][fd].ops = "dir" =>
      LET e == file_array[p][fd]
      IN  /\ Len(got[p][fd]) = e.file_pos
          /\ \A i \in 1 .. e.file_pos : \E n \in Nbytes :
               Cut(got[p][fd][i], MAXCHAR)
                 = Cut(dir_entry[i - 1].file_name, n)

\* sys_open: a descriptor stands for the directory entry that has the name it
\* was opened with.
OpensNamed ==
  \A p \in Proc, fd \in Fd : Open(p, fd) =>
    \E i \in DOMAIN dir_entry :
      /\ dir_entry[i].file_name = named[p][fd]
      /\ LET e == file_array[p][fd]
         IN  Element(dir_entry[i]) = [e EXCEPT !.file_pos = 0, !.flag = 0]
=============================================================================
