----------------------------- MODULE FilesProofs -----------------------------
(***************************************************************************)
(* Proofs about Files.                                                     *)
(***************************************************************************)
EXTENDS Files, SequenceTheorems, WellFoundedInduction, TLAPS

-----------------------------------------------------------------------------
(* Induction, for a set of numbers. *)

\* A set of numbers that is not empty has a least one.
LEMMA LeastNumber ==
  ASSUME NEW S \in SUBSET Nat, S # {}
  PROVE  \E least \in S : \A n \in S : least <= n
<1> DEFINE R == OpToRel(<, Nat)
<1>1. \A x, y \in Nat : <<x, y>> \in R <=> x < y
  BY DEF OpToRel
<1>2. IsWellFoundedOn(R, Nat)
  BY NatLessThanWellFounded
<1>3. S \subseteq Nat
  OBVIOUS
<1> HIDE DEF R
<1>4. PICK least \in S : \A n \in S : ~(<<n, least>> \in R)
  BY <1>2, <1>3, WFMin
<1>5. ASSUME NEW n \in S PROVE least <= n
  <2>1. n \in Nat /\ least \in Nat /\ ~(<<n, least>> \in R)
    BY <1>4
  <2>2. ~(n < least)
    BY <1>1, <2>1
  <2> QED BY <2>1, <2>2
<1> QED BY <1>5

\* A set that contains a number whenever it contains all smaller ones.
LEMMA StrongInduction ==
  ASSUME NEW S \in SUBSET Nat,
         \A n \in Nat : (\A m \in 0 .. n - 1 : m \in S) => n \in S
  PROVE  S = Nat
<1> SUFFICES ASSUME S # Nat PROVE FALSE
  OBVIOUS
<1>1. PICK least \in Nat \ S : \A n \in Nat \ S : least <= n
  BY LeastNumber, Nat \ S # {}, Nat \ S \in SUBSET Nat
<1>2. \A m \in 0 .. least - 1 : m \in S
  BY <1>1
<1> QED BY <1>1, <1>2

-----------------------------------------------------------------------------
(* Numbers and sequences. *)

\* Offsets from k on, up to the end of the block of k, are in the same block.
LEMMA SameBlock ==
  ASSUME NEW B \in Nat \ {0}, NEW k \in Nat, NEW j \in Nat,
         (k % B) + j < B
  PROVE  /\ (k + j) \div B = k \div B
         /\ (k + j) % B = (k % B) + j
<1> DEFINE q1 == k \div B
           r1 == k % B
           q2 == (k + j) \div B
           r2 == (k + j) % B
<1>0. r1 + j < B
  OBVIOUS
<1>1. q1 \in Int /\ r1 \in 0 .. B - 1 /\ k = B * q1 + r1
  OBVIOUS
<1>2. q2 \in Int /\ r2 \in 0 .. B - 1 /\ k + j = B * q2 + r2
  OBVIOUS
<1> HIDE DEF q1, r1, q2, r2
<1>3. B * (q2 - q1) = r1 + j - r2
  BY <1>0, <1>1, <1>2
<1>4. ASSUME NEW d \in Int
      PROVE  (d >= 1 => B * d >= B) /\ (d <= -1 => B * d <= -B)
  BY <1>0
<1>5. q2 - q1 <= 0
  <2> SUFFICES ASSUME q2 - q1 >= 1 PROVE FALSE
    BY <1>1, <1>2
  <2>1. B * (q2 - q1) >= B
    BY <1>1, <1>2, <1>4
  <2> QED BY <1>0, <1>1, <1>2, <1>3, <2>1
<1>6. q2 - q1 >= 0
  <2> SUFFICES ASSUME q2 - q1 <= -1 PROVE FALSE
    BY <1>1, <1>2
  <2>1. B * (q2 - q1) <= -B
    BY <1>1, <1>2, <1>4
  <2> QED BY <1>0, <1>1, <1>2, <1>3, <2>1
<1>7. q2 = q1
  BY <1>1, <1>2, <1>5, <1>6
<1>8. B * (q2 - q1) = 0
  BY <1>0, <1>1, <1>7
<1>9. r2 = r1 + j
  BY <1>0, <1>1, <1>2, <1>3, <1>8
<1> QED BY <1>7, <1>9 DEF q1, r1, q2, r2

\* The window of n elements of F from place k on.
Window(F, k, n) == [i \in 1 .. n |-> F[k + i - 1]]

LEMMA WindowSeq ==
  ASSUME NEW S, NEW F \in [Nat -> S], NEW k \in Nat, NEW n \in Nat
  PROVE  /\ Window(F, k, n) \in Seq(S)
         /\ Len(Window(F, k, n)) = n
  BY DEF Window

\* Two windows, the second of which begins where the first ends.
LEMMA WindowConcat ==
  ASSUME NEW S, NEW F \in [Nat -> S], NEW k \in Nat, NEW n \in Nat,
         NEW m \in Nat
  PROVE  Window(F, k, n) \o Window(F, k + n, m) = Window(F, k, n + m)
<1> DEFINE s == Window(F, k, n)
           t == Window(F, k + n, m)
           u == Window(F, k, n + m)
<1>0. k + n \in Nat /\ n + m \in Nat
  OBVIOUS
<1>1. /\ s \in Seq(S) /\ Len(s) = n
      /\ t \in Seq(S) /\ Len(t) = m
      /\ u \in Seq(S) /\ Len(u) = n + m
  <2>1. s \in Seq(S) /\ Len(s) = n
    BY WindowSeq
  <2>2. t \in Seq(S) /\ Len(t) = m
    <3>1. PICK j \in Nat : j = k + n
      BY <1>0
    <3>2. Window(F, j, m) \in Seq(S) /\ Len(Window(F, j, m)) = m
      BY WindowSeq
    <3> QED BY <3>1, <3>2
  <2>3. u \in Seq(S) /\ Len(u) = n + m
    <3>1. PICK j \in Nat : j = n + m
      BY <1>0
    <3>2. Window(F, k, j) \in Seq(S) /\ Len(Window(F, k, j)) = j
      BY WindowSeq
    <3> QED BY <3>1, <3>2
  <2> QED BY <2>1, <2>2, <2>3
<1>2. /\ \A i \in 1 .. n : s[i] = F[k + i - 1]
      /\ \A i \in 1 .. m : t[i] = F[k + n + i - 1]
      /\ \A i \in 1 .. n + m : u[i] = F[k + i - 1]
  BY DEF Window
<1> HIDE DEF s, t, u
<1>3. /\ s \o t \in Seq(S) /\ Len(s \o t) = n + m
      /\ \A i \in 1 .. n + m :
           (s \o t)[i] = IF i <= n THEN s[i] ELSE t[i - n]
  BY <1>1, ConcatProperties
<1>4. ASSUME NEW i \in 1 .. n + m PROVE (s \o t)[i] = u[i]
  <2>1. CASE i <= n
    BY <1>2, <1>3, <2>1
  <2>2. CASE ~(i <= n)
    <3>1. i - n \in 1 .. m /\ k + n + (i - n) - 1 = k + i - 1
      BY <2>2
    <3> QED BY <1>2, <1>3, <2>2, <3>1
  <2> QED BY <2>1, <2>2
<1>5. s \o t = u
  BY <1>1, <1>3, <1>4, SeqEqual
<1> QED BY <1>5 DEF s, t, u

-----------------------------------------------------------------------------
(* The loop of read_data. *)

LEMMA BlockSizeType == BLOCKSIZE \in Nat \ {0}
  BY FilesAssumption

USE BlockSizeType

\* One iteration, over what the iterations after it give.
Iteration(node, offset, length, rests, left) ==
  LET at    == offset + (length - left)
      block == node.dblock_idx[at \div BLOCKSIZE]
      n     == Chunk(at, left)
      bytes == Copied(block, at, n)
      rest  == rests[left - n]
  IN  IF left = 0 THEN [ret |-> 0, data |-> <<>>]
      ELSE IF block >= num_dblock THEN Failed(<<>>)
      ELSE IF rest.ret = -1 THEN Failed(bytes \o rest.data)
      ELSE [ret |-> n + rest.ret, data |-> bytes \o rest.data]

Loop(node, offset, length) ==
  CHOOSE loop :
    loop = [left \in 0 .. length |->
              Iteration(node, offset, length, loop, left)]

LEMMA ReadLoopUnfolds ==
  ASSUME NEW node, NEW offset, NEW length
  PROVE  ReadLoop(node, offset, length) = Loop(node, offset, length)[length]
  BY Zenon DEF ReadLoop, Loop, Iteration

\* A step of the loop stays in its block and makes progress.
LEMMA ChunkBounds ==
  ASSUME NEW offset \in Nat, NEW left \in Nat \ {0}
  PROVE  /\ Chunk(offset, left) \in 1 .. left
         /\ (offset % BLOCKSIZE) + Chunk(offset, left) <= BLOCKSIZE
<1>1. offset % BLOCKSIZE \in 0 .. BLOCKSIZE - 1
  OBVIOUS
<1> QED BY <1>1 DEF Chunk

\* An iteration looks only at iterations with fewer bytes left.
LEMMA IterationLocal ==
  ASSUME NEW node, NEW offset \in Nat, NEW length \in Nat,
         NEW left \in 0 .. length, NEW f, NEW g,
         \A m \in 0 .. left - 1 : f[m] = g[m]
  PROVE  Iteration(node, offset, length, f, left)
           = Iteration(node, offset, length, g, left)
<1>1. CASE left = 0
  BY <1>1 DEF Iteration
<1>2. CASE left # 0
  <2> DEFINE n == Chunk(offset + (length - left), left)
  <2>0. left \in Nat \ {0} /\ offset + (length - left) \in Nat
    BY <1>2
  <2>1. left - n \in 0 .. left - 1
    <3>1. n \in 1 .. left
      BY <2>0, ChunkBounds
    <3> HIDE DEF n
    <3> QED BY <2>0, <3>1
  <2>2. f[left - n] = g[left - n]
    BY <2>1
  <2> QED BY <1>2, <2>2, Zenon DEF Iteration
<1> QED BY <1>1, <1>2

\* The loop is defined, for any number of bytes.
LEMMA LoopExists ==
  ASSUME NEW node, NEW offset \in Nat, NEW length \in Nat
  PROVE  Loop(node, offset, length) =
           [left \in 0 .. length |->
              Iteration(node, offset, length,
                        Loop(node, offset, length), left)]
<1> DEFINE It(f, left) == Iteration(node, offset, length, f, left)
           Upto(f, m) == f = [left \in 0 .. m |-> It(f, left)]
           S == {m \in Nat : m <= length => \E f : Upto(f, m)}
<1>1. ASSUME NEW left \in 0 .. length, NEW f, NEW g,
             \A m \in 0 .. left - 1 : f[m] = g[m]
      PROVE  It(f, left) = It(g, left)
  BY <1>1, IterationLocal
<1> HIDE DEF It
<1>2. ASSUME NEW m \in Nat, \A k \in 0 .. m - 1 : k \in S
      PROVE  m \in S
  <2> SUFFICES ASSUME m <= length PROVE \E f : Upto(f, m)
    OBVIOUS
  <2>1. CASE m = 0
    <3> DEFINE f == [left \in 0 .. 0 |-> It(<<>>, left)]
    <3>1. It(f, 0) = It(<<>>, 0)
      BY <1>1, 0 \in 0 .. length
    <3>2. f = [left \in 0 .. 0 |-> It(f, left)]
      BY <3>1, \A left \in 0 .. 0 : left = 0
    <3> QED BY <2>1, <3>2
  <2>2. CASE m > 0
    <3>1. m - 1 \in 0 .. m - 1
      BY <2>2
    <3>2. PICK f : Upto(f, m - 1)
      BY <1>2, <3>1
    <3> DEFINE g == [left \in 0 .. m |->
                       IF left <= m - 1 THEN f[left] ELSE It(f, m)]
    <3>3. \A left \in 0 .. m - 1 : g[left] = f[left]
      BY <3>1
    <3>4. ASSUME NEW left \in 0 .. m PROVE It(g, left) = It(f, left)
      <4> HIDE DEF g
      <4>1. left \in 0 .. length /\ \A k \in 0 .. left - 1 : g[k] = f[k]
        BY <3>3
      <4> QED BY <1>1, <4>1
    <3>5. ASSUME NEW left \in 0 .. m PROVE g[left] = It(g, left)
      <4>1. CASE left \in 0 .. m - 1
        <5>1. f[left] = It(f, left)
          BY <3>2, <4>1
        <5> QED BY <3>3, <3>4, <4>1, <5>1
      <4>2. CASE left = m
        BY <3>1, <3>4, <4>2
      <4> QED BY <4>1, <4>2
    <3>6. g = [left \in 0 .. m |-> It(g, left)]
      BY <3>5
    <3> QED BY <3>6
  <2> QED BY <2>1, <2>2
<1>3. S = Nat
  <2> HIDE DEF S
  <2> QED BY <1>2, StrongInduction, S \in SUBSET Nat DEF S
<1>4. \E f : f = [left \in 0 .. length |-> It(f, left)]
  BY <1>3
<1> QED
  BY <1>4, Zenon DEF Loop, It

\* The byte of a file at place k, as a function of k.
ByteAt(node) ==
  [k \in Nat |-> <<node.dblock_idx[k \div BLOCKSIZE], k % BLOCKSIZE>>]

Bytes(node) == {ByteAt(node)[k] : k \in Nat}

LEMMA ByteAtType == ASSUME NEW node PROVE ByteAt(node) \in [Nat -> Bytes(node)]
  BY DEF Bytes, ByteAt

\* Named, so that the lemma is applied without the theory of sequences.
Joined(s, t, u) == s \o t = u

LEMMA BytesConcat ==
  ASSUME NEW node, NEW k \in Nat, NEW n \in Nat, NEW m \in Nat
  PROVE  Joined(Window(ByteAt(node), k, n), Window(ByteAt(node), k + n, m),
                Window(ByteAt(node), k, n + m))
<1> DEFINE F == ByteAt(node)
           S == Bytes(node)
<1>1. F \in [Nat -> S]
  BY ByteAtType
<1> HIDE DEF F, S
<1>2. Window(F, k, n) \o Window(F, k + n, m) = Window(F, k, n + m)
  BY ONLY <1>1, k \in Nat, n \in Nat, m \in Nat, WindowConcat
<1> QED BY <1>2 DEF F, Joined

\* What one iteration copies.
LEMMA CopiedIsWindow ==
  ASSUME NEW node, NEW at \in Nat, NEW left \in Nat \ {0}
  PROVE  Copied(node.dblock_idx[at \div BLOCKSIZE], at, Chunk(at, left))
           = Window(ByteAt(node), at, Chunk(at, left))
<1> DEFINE n == Chunk(at, left)
<1>0. n \in 1 .. left /\ (at % BLOCKSIZE) + n <= BLOCKSIZE
  BY ChunkBounds, Zenon
<1>2. at % BLOCKSIZE \in Nat
  OBVIOUS
<1> HIDE DEF n
<1>1. n \in Nat /\ (at % BLOCKSIZE) + n <= BLOCKSIZE
  BY <1>0
<1>3. ASSUME NEW i \in 1 .. n
      PROVE  ByteAt(node)[at + i - 1] =
               <<node.dblock_idx[at \div BLOCKSIZE],
                 (at % BLOCKSIZE) + i - 1>>
  <2>1. i - 1 \in Nat /\ (at % BLOCKSIZE) + (i - 1) < BLOCKSIZE
    BY <1>1, <1>2
  <2>2. /\ (at + (i - 1)) \div BLOCKSIZE = at \div BLOCKSIZE
        /\ (at + (i - 1)) % BLOCKSIZE = (at % BLOCKSIZE) + (i - 1)
    BY <2>1, SameBlock
  <2>3. /\ at + i - 1 = at + (i - 1) /\ at + i - 1 \in Nat
        /\ (at % BLOCKSIZE) + (i - 1) = (at % BLOCKSIZE) + i - 1
    BY <1>2, <2>1
  <2> QED BY <2>2, <2>3 DEF ByteAt
<1> QED
  BY <1>3 DEF Copied, Window, n

\* What the loop has copied when it has not failed: the bytes that were left.
LEMMA LoopValue ==
  ASSUME NEW node, NEW offset \in Nat, NEW length \in Nat
  PROVE  \A left \in 0 .. length :
           LET got_ == Loop(node, offset, length)[left]
           IN  got_.ret # -1 =>
                 got_ = [ret  |-> left,
                         data |-> Window(ByteAt(node),
                                         offset + (length - left), left)]
<1> DEFINE loop == Loop(node, offset, length)
           at(left) == offset + (length - left)
           Right(left) ==
             loop[left].ret # -1 =>
               loop[left] = [ret  |-> left,
                             data |-> Window(ByteAt(node), at(left), left)]
           S == {left \in Nat : left <= length => Right(left)}
<1>1. \A left \in 0 .. length :
        loop[left] = Iteration(node, offset, length, loop, left)
  BY LoopExists
<1> HIDE DEF loop
<1>2. ASSUME NEW left \in Nat, \A m \in 0 .. left - 1 : m \in S
      PROVE  left \in S
  <2> SUFFICES ASSUME left <= length, loop[left].ret # -1
               PROVE  loop[left] =
                        [ret  |-> left,
                         data |-> Window(ByteAt(node), at(left), left)]
    OBVIOUS
  <2>1. CASE left = 0
    <3>1. Window(ByteAt(node), at(left), 0) = <<>>
      BY DEF Window
    <3>2. loop[left] = [ret |-> 0, data |-> <<>>]
      BY <1>1, <2>1, 0 \in 0 .. length, Zenon DEF Iteration
    <3> QED BY <2>1, <3>1, <3>2, Zenon
  <2>2. CASE left # 0
    <3> DEFINE n     == Chunk(at(left), left)
               block == node.dblock_idx[at(left) \div BLOCKSIZE]
               bytes == Copied(block, at(left), n)
               rest  == loop[left - n]
    <3>1. at(left) \in Nat /\ left \in Nat \ {0} /\ left \in 0 .. length
      BY <2>2
    <3>2. n \in 1 .. left
      BY <3>1, ChunkBounds
    <3>3. bytes = Window(ByteAt(node), at(left), n)
      BY <3>1, CopiedIsWindow
    <3>4. loop[left] =
            IF block >= num_dblock THEN Failed(<<>>)
            ELSE IF rest.ret = -1 THEN Failed(bytes \o rest.data)
            ELSE [ret |-> n + rest.ret, data |-> bytes \o rest.data]
      BY <1>1, <2>2, <3>1, Zenon DEF Iteration
    <3> HIDE DEF n, block, bytes, rest
    <3>5. /\ rest.ret # -1
          /\ loop[left] = [ret |-> n + rest.ret, data |-> bytes \o rest.data]
      BY <3>4 DEF Failed
    <3>6. left - n \in 0 .. left - 1 /\ left - n <= length
      BY <3>1, <3>2
    <3>7. rest = [ret  |-> left - n,
                  data |-> Window(ByteAt(node), at(left - n), left - n)]
      BY <1>2, <3>5, <3>6 DEF rest
    <3>8. at(left - n) = at(left) + n /\ n + (left - n) = left
          /\ n \in Nat /\ left - n \in Nat
      BY <3>1, <3>2
    <3>9. bytes \o rest.data = Window(ByteAt(node), at(left), left)
      <4> HIDE DEF at
      <4>1. rest.data = Window(ByteAt(node), at(left) + n, left - n)
        BY <3>7, <3>8
      <4>2. Window(ByteAt(node), at(left), n)
              \o Window(ByteAt(node), at(left) + n, left - n)
              = Window(ByteAt(node), at(left), n + (left - n))
        <5>1. at(left) \in Nat /\ n \in Nat /\ left - n \in Nat
          BY <3>1, <3>8
        <5>2. Joined(Window(ByteAt(node), at(left), n),
                     Window(ByteAt(node), at(left) + n, left - n),
                     Window(ByteAt(node), at(left), n + (left - n)))
          BY ONLY <5>1, BytesConcat
        <5> QED BY ONLY <5>2 DEF Joined
      <4> QED BY <3>3, <3>8, <4>1, <4>2
    <3>10. n + rest.ret = left
      BY <3>7, <3>8
    <3> QED BY <3>5, <3>9, <3>10
  <2> QED BY <2>1, <2>2
<1>3. S = Nat
  <2> HIDE DEF S
  <2> QED BY <1>2, StrongInduction, S \in SUBSET Nat DEF S
<1>4. \A left \in 0 .. length : Right(left)
  BY <1>3
<1> QED
  BY <1>4, Zenon DEF loop

LEMMA ReadLoopValue ==
  ASSUME NEW node, NEW offset \in Nat, NEW length \in Nat,
         ReadLoop(node, offset, length).ret # -1
  PROVE  ReadLoop(node, offset, length) =
           [ret |-> length, data |-> Window(ByteAt(node), offset, length)]
<1>1. length \in 0 .. length /\ offset + (length - length) = offset
  OBVIOUS
<1> DEFINE all == Loop(node, offset, length)[length]
<1>2. ReadLoop(node, offset, length) = all
  BY ReadLoopUnfolds
<1>3. all.ret # -1 =>
        all = [ret  |-> length,
               data |-> Window(ByteAt(node), offset + (length - length),
                               length)]
  BY <1>1, LoopValue, Zenon
<1> HIDE DEF all
<1> QED
  BY <1>1, <1>2, <1>3

\* read_data within a file: the bytes from offset on, as many as are asked for
\* and there are, or a failure.
LEMMA read_data_value ==
  ASSUME NEW inode \in DOMAIN inodes, NEW length \in Nat,
         NEW offset \in 0 .. inodes[inode].length,
         read_data(inode, offset, length).ret # -1
  PROVE  \E n \in 0 .. inodes[inode].length - offset :
           read_data(inode, offset, length) =
             [ret |-> n, data |-> Window(ByteAt(inodes[inode]), offset, n)]
<1> DEFINE node == inodes[inode]
           most == IF length + offset >= node.length
                   THEN node.length - offset ELSE length
<1>1. node.length \in Nat /\ inode < num_inode /\ inode \in Int
      /\ num_inode \in Nat /\ offset \in Nat
  BY FilesAssumption
<1>2. most \in 0 .. node.length - offset
  BY <1>1
<1>3. read_data(inode, offset, length) =
        IF offset >= node.length THEN [ret |-> 0, data |-> <<>>]
        ELSE ReadLoop(node, offset, most)
  BY <1>1 DEF read_data
<1>4. CASE offset >= node.length
  <2>1. Window(ByteAt(node), offset, 0) = <<>>
    BY DEF Window
  <2>2. 0 \in 0 .. node.length - offset
    BY <1>1
  <2> QED BY <1>3, <1>4, <2>1, <2>2
<1>5. CASE ~(offset >= node.length)
  <2> HIDE DEF node, most
  <2>1. most \in Nat
    BY <1>1, <1>2
  <2>2. read_data(inode, offset, length) = ReadLoop(node, offset, most)
    BY <1>3, <1>5
  <2>3. ReadLoop(node, offset, most) =
          [ret |-> most, data |-> Window(ByteAt(node), offset, most)]
    BY <1>1, <2>1, <2>2, ReadLoopValue
  <2> QED BY <1>2, <2>2, <2>3 DEF node
<1> QED BY <1>4, <1>5

-----------------------------------------------------------------------------
(* The tables. *)

Elements ==
  [ops : {"none", "stdin", "stdout", "rtc", "dir", "file"},
   inode : Nat, file_pos : Nat, flag : {0, 1}]

\* The histories are tables of the same shape.
Shape ==
  /\ DOMAIN got = Proc /\ \A p \in Proc : DOMAIN got[p] = Fd
  /\ DOMAIN named = Proc /\ \A p \in Proc : DOMAIN named[p] = Fd

LEMMA Constants ==
  /\ Fd \subseteq Nat /\ UserFd \subseteq Fd /\ 0 \in Fd /\ 1 \in Fd
  /\ \A fd \in Fd : fd \in UserFd <=> fd # 0 /\ fd # 1
  /\ DOMAIN dir_entry \subseteq Nat
  BY FilesAssumption DEF Fd, UserFd

\* read_dentry_by_name returns an entry of the directory that matches.
LEMMA read_dentry_by_name_value ==
  ASSUME NEW fname, Matches(fname) # {}
  PROVE  \E i \in Matches(fname) : read_dentry_by_name(fname) = dir_entry[i]
<1>1. Matches(fname) \in SUBSET Nat
  BY Constants DEF Matches
<1>2. \E i \in Matches(fname) : \A j \in Matches(fname) : i <= j
  BY <1>1, LeastNumber
<1> QED BY <1>2 DEF read_dentry_by_name

\* sys_open takes a descriptor that is free, and never 0 or 1.
LEMMA Opened_value ==
  ASSUME TypeOK, NEW p \in live, NEW filename, Opened(p, filename) # -1
  PROVE  /\ Opened(p, filename) \in FreeFds(p)
         /\ Opened(p, filename) \in UserFd
         /\ Matches(filename) # {}
<1>1. FreeFds(p) # {} /\ Matches(filename) # {}
  BY DEF Opened
<1>2. FreeFds(p) \in SUBSET Nat
  BY Constants DEF FreeFds
<1>3. \E fd \in FreeFds(p) : \A other \in FreeFds(p) : fd <= other
  BY <1>1, <1>2, LeastNumber
<1>4. Opened(p, filename) \in FreeFds(p)
  BY <1>3 DEF Opened
<1>5. 0 \notin FreeFds(p) /\ 1 \notin FreeFds(p)
  <2>1. file_array[p][0] = stdin /\ file_array[p][1] = stdout
    BY DEF TypeOK
  <2>2. stdin.flag = 1 /\ stdout.flag = 1
    BY DEF stdin, stdout, NoFile
  <2> QED BY <2>1, <2>2 DEF FreeFds
<1>6. FreeFds(p) \subseteq Fd
  BY DEF FreeFds
<1> QED BY <1>1, <1>4, <1>5, <1>6, Constants

LEMMA ElementType ==
  ASSUME NEW i \in DOMAIN dir_entry,
         dir_entry[i].file_type \in
           {RTC_FILETYPE, DIR_FILETYPE, FILE_FILETYPE}
  PROVE  /\ Element(dir_entry[i]) \in Elements
         /\ Element(dir_entry[i]).file_pos = 0
         /\ Element(dir_entry[i]).flag = 0
<1>1. dir_entry[i].inode_idx \in Nat
  BY FilesAssumption
<1> QED
  BY <1>1 DEF Element, Elements, NoFile, RTC_FILETYPE, DIR_FILETYPE,
              FILE_FILETYPE

\* A step gives one descriptor the value x, and its histories y and z.
Changes(p, fd, x) ==
  live' = live /\ file_array' = [file_array EXCEPT ![p][fd] = x]

Records(p, fd, y, z) ==
  /\ got' = [got EXCEPT ![p][fd] = y]
  /\ \/ named' = [named EXCEPT ![p][fd] = z]
     \/ named' = named /\ z = named[p][fd]

\* What that means for the whole table.
LEMMA OneChanged ==
  ASSUME TypeOK, NEW p \in Proc, NEW fd \in UserFd, NEW x \in Elements,
         Changes(p, fd, x)
  PROVE  /\ TypeOK' /\ file_array'[p][fd] = x
         /\ \A q \in Proc, g \in Fd : q # p \/ g # fd =>
              file_array'[q][g] = file_array[q][g]
<1>1. fd \in Fd /\ fd # 0 /\ fd # 1
  BY Constants
<1>2. file_array' \in [Proc -> [Fd -> Elements]]
  BY <1>1 DEF TypeOK, Elements, Changes
<1>3. /\ file_array'[p][fd] = x
      /\ \A q \in Proc, g \in Fd : q # p \/ g # fd =>
           file_array'[q][g] = file_array[q][g]
  BY <1>1 DEF TypeOK, Changes
<1>4. \A q \in live : file_array'[q][0] = stdin /\ file_array'[q][1] = stdout
  BY <1>1, <1>3, Constants DEF TypeOK
<1> QED
  BY <1>2, <1>3, <1>4 DEF TypeOK, Elements, Changes

\* The same for the histories.
LEMMA OneRecorded ==
  ASSUME Shape, NEW p \in Proc, NEW fd \in Fd, NEW y, NEW z,
         Records(p, fd, y, z)
  PROVE  /\ Shape' /\ got'[p][fd] = y /\ named'[p][fd] = z
         /\ \A q \in Proc, g \in Fd : q # p \/ g # fd =>
              got'[q][g] = got[q][g] /\ named'[q][g] = named[q][g]
  BY DEF Shape, Records

-----------------------------------------------------------------------------
(* The inductive invariant. *)

\* A descriptor of a file has returned the bytes before its position; that of
\* an inode that does not exist has returned none.
FilePlace(p, fd) ==
  LET e == file_array[p][fd]
  IN  e.ops = "file" =>
        \/ e.file_pos = 0 /\ got[p][fd] = <<>>
        \/ /\ e.inode \in DOMAIN inodes
           /\ e.file_pos \in 0 .. inodes[e.inode].length
           /\ got[p][fd] = Window(ByteAt(inodes[e.inode]), 0, e.file_pos)

\* What a read of a directory may return.
Listing(i) == {Cut(NameString(dir_entry[i]), n) : n \in Nbytes}
Listings == UNION {Listing(i) : i \in DOMAIN dir_entry}

DirPlace(p, fd) ==
  LET e == file_array[p][fd]
  IN  e.ops = "dir" =>
        /\ got[p][fd] \in Seq(Listings) /\ Len(got[p][fd]) = e.file_pos
        /\ e.file_pos <= num_dentry
        /\ \A i \in 1 .. e.file_pos : got[p][fd][i] \in Listing(i - 1)

Places ==
  \A p \in Proc, fd \in Fd :
    Open(p, fd) => FilePlace(p, fd) /\ DirPlace(p, fd)

LEMMA FilesInit == Init => TypeOK /\ Shape /\ Places
<1> SUFFICES ASSUME Init PROVE TypeOK /\ Shape /\ Places
  OBVIOUS
<1>1. NoFile \in Elements
  BY DEF NoFile, Elements
<1>2. TypeOK
  BY <1>1 DEF Init, TypeOK, Elements
<1> QED BY <1>2 DEF Init, Shape, Places, Open

\* A step that changes one descriptor, and leaves that one in its place.
LEMMA PlacesKept ==
  ASSUME TypeOK, Shape, Places,
         NEW p \in Proc, NEW fd \in UserFd, NEW x \in Elements, NEW y, NEW z,
         Changes(p, fd, x), Records(p, fd, y, z),
         x.flag = 1 => FilePlace(p, fd)' /\ DirPlace(p, fd)'
  PROVE  TypeOK' /\ Shape' /\ Places'
<1>0. fd \in Fd
  BY Constants
<1>1. /\ TypeOK' /\ file_array'[p][fd] = x
      /\ \A q \in Proc, g \in Fd : q # p \/ g # fd =>
           file_array'[q][g] = file_array[q][g]
  BY OneChanged
<1>2. /\ Shape'
      /\ \A q \in Proc, g \in Fd : q # p \/ g # fd =>
           got'[q][g] = got[q][g]
  BY <1>0, OneRecorded
<1>3. ASSUME NEW q \in Proc, NEW g \in Fd, Open(q, g)'
      PROVE  FilePlace(q, g)' /\ DirPlace(q, g)'
  <2>1. CASE q = p /\ g = fd
    BY <1>1, <1>3, <2>1 DEF Open
  <2>2. CASE q # p \/ g # fd
    <3>1. file_array'[q][g] = file_array[q][g] /\ got'[q][g] = got[q][g]
      BY <1>1, <1>2, <2>2
    <3>2. Open(q, g)
      BY <1>3, <3>1 DEF Open, Changes
    <3> QED BY <3>1, <3>2 DEF Places, FilePlace, DirPlace
  <2> QED BY <2>1, <2>2
<1> QED BY <1>1, <1>2, <1>3 DEF Places

\* The change that sys_open makes.
LEMMA sys_open_change ==
  ASSUME TypeOK, NEW p \in Proc, NEW filename, sys_open(p, filename)
  PROVE  \E fd \in UserFd, x \in Elements, i \in Matches(filename) :
           /\ Changes(p, fd, x) /\ Records(p, fd, <<>>, filename)
           /\ x = [Element(dir_entry[i]) EXCEPT !.flag = 1]
           /\ x.file_pos = 0 /\ Element(dir_entry[i]) = [x EXCEPT !.flag = 0]
<1> DEFINE fd == Opened(p, filename)
<1>1. p \in live /\ fd # -1 /\ live' = live
  BY DEF sys_open
<1>2. fd \in UserFd /\ Matches(filename) # {}
  BY <1>1, Opened_value
<1>3. PICK i \in Matches(filename) :
        read_dentry_by_name(filename) = dir_entry[i]
  BY <1>2, read_dentry_by_name_value
<1>4. i \in DOMAIN dir_entry
  BY DEF Matches
<1> DEFINE e == Element(dir_entry[i])
           x == [e EXCEPT !.flag = 1]
<1>5. e \in Elements /\ e.file_pos = 0 /\ e.flag = 0
  BY <1>3, <1>4, ElementType DEF sys_open
<1>6. /\ file_array' = [file_array EXCEPT ![p][fd] = x]
      /\ got' = [got EXCEPT ![p][fd] = <<>>]
      /\ named' = [named EXCEPT ![p][fd] = filename]
  BY <1>3 DEF sys_open
<1> HIDE DEF fd, e
<1>7. x \in Elements /\ x.file_pos = 0 /\ e = [x EXCEPT !.flag = 0]
  BY <1>5 DEF Elements
<1>8. Changes(p, fd, x) /\ Records(p, fd, <<>>, filename)
  BY <1>1, <1>6 DEF Changes, Records
<1> QED BY <1>2, <1>7, <1>8 DEF e

LEMMA sys_open_step ==
  ASSUME TypeOK, Shape, Places, NEW p \in Proc, NEW filename,
         sys_open(p, filename)
  PROVE  TypeOK' /\ Shape' /\ Places'
<1>1. PICK fd \in UserFd, x \in Elements :
        /\ Changes(p, fd, x) /\ Records(p, fd, <<>>, filename)
        /\ x.file_pos = 0
  BY sys_open_change
<1>2. file_array'[p][fd] = x /\ got'[p][fd] = <<>>
  BY <1>1, Constants, OneChanged, OneRecorded
<1>3. FilePlace(p, fd)'
  BY <1>1, <1>2 DEF FilePlace
<1>4. DirPlace(p, fd)'
  <2>1. <<>> \in Seq(Listings) /\ Len(<<>>) = 0 /\ 0 <= num_dentry
    BY FilesAssumption
  <2>2. \A i \in 1 .. 0 : FALSE
    OBVIOUS
  <2> QED BY <1>1, <1>2, <2>1, <2>2 DEF DirPlace
<1> QED
  BY <1>1, <1>3, <1>4, PlacesKept

LEMMA ClosedType ==
  ASSUME NEW e \in Elements
  PROVE  Closed(e) \in Elements /\ Closed(e).flag # 1
<1>1. Closed(e) \in Elements
  BY DEF Elements, Closed
<1>2. Closed(e).flag = 0
  BY DEF Elements, Closed
<1> QED BY <1>1, <1>2

LEMMA sys_close_step ==
  ASSUME TypeOK, Shape, Places, NEW p \in Proc, NEW fd \in Fd,
         sys_close(p, fd)
  PROVE  TypeOK' /\ Shape' /\ Places'
<1>1. fd \in UserFd /\ live' = live
  BY DEF sys_close, Closable
<1>2. PICK x : x = Closed(file_array[p][fd])
  OBVIOUS
<1>3. file_array[p][fd] \in Elements
  BY DEF TypeOK, Elements
<1>4. x \in Elements /\ x.flag # 1
  BY <1>2, <1>3, ClosedType
<1>5. Changes(p, fd, x) /\ Records(p, fd, <<>>, <<>>)
  BY <1>1, <1>2 DEF sys_close, Changes, Records, TypeOK
<1> QED BY <1>1, <1>4, <1>5, PlacesKept

LEMMA sys_execute_step ==
  ASSUME TypeOK, Shape, Places, NEW p \in Proc, sys_execute(p)
  PROVE  TypeOK' /\ Shape' /\ Places'
<1>1. Fresh \in [Fd -> Elements]
  BY DEF Fresh, Elements, stdin, stdout, NoFile
<1>2. /\ Fresh[0] = stdin /\ Fresh[1] = stdout
      /\ \A fd \in UserFd : Fresh[fd].flag = 0
  BY Constants DEF Fresh, NoFile
<1>3. /\ file_array' \in [Proc -> [Fd -> Elements]]
      /\ file_array'[p] = Fresh
      /\ \A q \in Proc : q # p => file_array'[q] = file_array[q]
  BY <1>1 DEF TypeOK, Elements, sys_execute
<1>4. live' \subseteq Proc /\ \A q \in live' : q \in live \/ q = p
  BY DEF TypeOK, sys_execute
<1>5. TypeOK'
  BY <1>2, <1>3, <1>4 DEF TypeOK, Elements
<1>6. Shape'
  BY DEF Shape, sys_execute
<1>7. ASSUME NEW q \in Proc, NEW fd \in Fd, Open(q, fd)'
      PROVE  FilePlace(q, fd)' /\ DirPlace(q, fd)'
  <2>1. q # p
    BY <1>2, <1>3, <1>7 DEF Open
  <2>2. Open(q, fd) /\ file_array'[q] = file_array[q] /\ got' = got
    BY <1>3, <1>4, <1>7, <2>1 DEF Open, sys_execute
  <2> QED BY <2>2 DEF Places, FilePlace, DirPlace
<1> QED BY <1>5, <1>6, <1>7 DEF Places

LEMMA sys_halt_step ==
  ASSUME TypeOK, Shape, Places, NEW p \in Proc, sys_halt(p)
  PROVE  TypeOK' /\ Shape' /\ Places'
<1>1. \A e \in Elements : Closed(e) \in Elements
  BY ClosedType
<1>2. /\ file_array' \in [Proc -> [Fd -> Elements]]
      /\ \A q \in Proc : q # p => file_array'[q] = file_array[q]
  BY <1>1 DEF TypeOK, Elements, sys_halt
<1>3. live' \subseteq Proc /\ \A q \in live' : q \in live /\ q # p
  BY DEF TypeOK, sys_halt
<1>4. TypeOK'
  BY <1>2, <1>3 DEF TypeOK, Elements
<1>5. Shape'
  BY DEF Shape, sys_halt
<1>6. ASSUME NEW q \in Proc, NEW fd \in Fd, Open(q, fd)'
      PROVE  FilePlace(q, fd)' /\ DirPlace(q, fd)'
  <2>1. q # p /\ q \in live
    BY <1>3, <1>6 DEF Open
  <2>2. Open(q, fd) /\ file_array'[q] = file_array[q]
    BY <1>2, <1>6, <2>1 DEF Open
  <2>3. got'[q] = got[q]
    BY <2>1 DEF sys_halt, Shape
  <2> QED BY <2>2, <2>3 DEF Places, FilePlace, DirPlace
<1> QED BY <1>4, <1>5, <1>6 DEF Places

LEMMA file_read_step ==
  ASSUME TypeOK, Shape, Places, NEW p \in Proc, NEW fd \in Fd,
         NEW nbytes \in Nbytes, file_read(p, fd, nbytes)
  PROVE  TypeOK' /\ Shape' /\ Places'
<1>1. PICK e : e = file_array[p][fd]
  OBVIOUS
<1>2. PICK read : read = read_data(e.inode, e.file_pos, nbytes)
  OBVIOUS
<1>3. /\ Open(p, fd) /\ fd \in UserFd /\ e \in Elements
      /\ e.ops = "file" /\ e.flag = 1
  BY <1>1 DEF file_read, Readable, Open, TypeOK, Elements
<1>4. read.ret # -1 /\ live' = live
  BY <1>1, <1>2 DEF file_read
<1>5. PICK node : node = inodes[e.inode]
  OBVIOUS
<1>6. e.inode \in DOMAIN inodes
  <2>1. ~(e.inode >= num_inode)
    BY <1>2, <1>4 DEF read_data, Failed
  <2> QED BY <1>3, <2>1, FilesAssumption DEF Elements
<1>7. /\ node.length \in Nat /\ e.file_pos \in 0 .. node.length
      /\ got[p][fd] = Window(ByteAt(node), 0, e.file_pos)
  <2>1. node.length \in Nat
    BY <1>5, <1>6, FilesAssumption
  <2>2. FilePlace(p, fd)
    BY <1>3 DEF Places
  <2>3. Window(ByteAt(node), 0, 0) = <<>>
    BY DEF Window
  <2> QED BY <1>1, <1>3, <1>5, <2>1, <2>2, <2>3 DEF FilePlace
<1>8. PICK n \in 0 .. node.length - e.file_pos :
        read = [ret |-> n, data |-> Window(ByteAt(node), e.file_pos, n)]
  <2>1. nbytes \in Nat
    BY FilesAssumption
  <2> QED BY <1>2, <1>4, <1>5, <1>6, <1>7, <2>1, read_data_value
<1>9. n \in Nat /\ e.file_pos \in Nat /\ 0 + e.file_pos = e.file_pos
      /\ e.file_pos + n \in 0 .. node.length
  BY <1>7, <1>8
<1>10. PICK x : x = [e EXCEPT !.file_pos = e.file_pos + n]
  OBVIOUS
<1>11. PICK y : y = Window(ByteAt(node), 0, e.file_pos + n)
  OBVIOUS
<1>12. got[p][fd] \o read.data = y
  <2>1. Joined(Window(ByteAt(node), 0, e.file_pos),
               Window(ByteAt(node), 0 + e.file_pos, n),
               Window(ByteAt(node), 0, e.file_pos + n))
    BY ONLY <1>9, 0 \in Nat, BytesConcat
  <2> QED BY <1>7, <1>8, <1>9, <1>11, <2>1 DEF Joined
<1>13. /\ x \in Elements /\ x.ops = "file" /\ x.inode = e.inode
       /\ x.file_pos = e.file_pos + n
  BY <1>3, <1>9, <1>10 DEF Elements
<1>14. Changes(p, fd, x)
  BY <1>1, <1>2, <1>4, <1>8, <1>10 DEF file_read, Changes, TypeOK
<1>15. Records(p, fd, y, named[p][fd])
  BY <1>1, <1>2, <1>12 DEF file_read, Records, Shape
<1>16. PICK z : z = named[p][fd]
  OBVIOUS
<1>17. file_array'[p][fd] = x /\ got'[p][fd] = y
  BY <1>3, <1>13, <1>14, <1>15, <1>16, OneChanged, OneRecorded
<1>18. FilePlace(p, fd)' /\ DirPlace(p, fd)'
  BY <1>5, <1>6, <1>9, <1>11, <1>13, <1>17 DEF FilePlace, DirPlace
<1> QED
  BY <1>3, <1>13, <1>14, <1>15, <1>16, <1>18, PlacesKept

LEMMA dir_read_step ==
  ASSUME TypeOK, Shape, Places, NEW p \in Proc, NEW fd \in Fd,
         NEW nbytes \in Nbytes, dir_read(p, fd, nbytes)
  PROVE  TypeOK' /\ Shape' /\ Places'
<1>1. PICK e : e = file_array[p][fd]
  OBVIOUS
<1>2. /\ Open(p, fd) /\ fd \in UserFd /\ e \in Elements
      /\ e.ops = "dir" /\ e.flag = 1 /\ live' = live
  BY <1>1 DEF dir_read, Readable, Open, TypeOK, Elements
<1>3. PICK s : s = got[p][fd]
  OBVIOUS
<1>4. /\ s \in Seq(Listings) /\ Len(s) = e.file_pos
      /\ e.file_pos <= num_dentry
      /\ \A i \in 1 .. e.file_pos : s[i] \in Listing(i - 1)
  BY <1>1, <1>2, <1>3 DEF Places, DirPlace
<1>5. PICK z : z = named[p][fd]
  OBVIOUS
<1>6. e.file_pos \in Nat /\ num_dentry \in Nat
  BY <1>2, FilesAssumption DEF Elements
<1>7. ASSUME NEW x \in Elements, NEW y, x.ops = "dir",
             Changes(p, fd, x), Records(p, fd, y, z),
             y \in Seq(Listings), Len(y) = x.file_pos,
             x.file_pos <= num_dentry,
             \A i \in 1 .. x.file_pos : y[i] \in Listing(i - 1)
      PROVE  TypeOK' /\ Shape' /\ Places'
  <2>1. file_array'[p][fd] = x /\ got'[p][fd] = y
    BY <1>2, <1>7, OneChanged, OneRecorded
  <2>2. FilePlace(p, fd)' /\ DirPlace(p, fd)'
    BY <1>7, <2>1 DEF FilePlace, DirPlace
  <2> QED BY <1>2, <1>7, <2>2, PlacesKept
<1>8. CASE e.file_pos >= num_dentry
  <2>1. PICK x : x = [e EXCEPT !.file_pos = 0]
    OBVIOUS
  <2>2. x \in Elements /\ x.ops = "dir" /\ x.file_pos = 0
    BY <1>2, <2>1 DEF Elements
  <2>3. PICK y : y = <<>>
    OBVIOUS
  <2>4. Changes(p, fd, x) /\ Records(p, fd, y, z)
    BY <1>1, <1>2, <1>5, <1>8, <2>1, <2>3
    DEF dir_read, Changes, Records, TypeOK
  <2>5. y \in Seq(Listings) /\ Len(y) = x.file_pos
    BY <2>2, <2>3
  <2>6. x.file_pos <= num_dentry
    BY <1>6, <2>2
  <2>7. \A i \in 1 .. x.file_pos : y[i] \in Listing(i - 1)
    BY <2>2
  <2> QED BY <1>7, <2>2, <2>4, <2>5, <2>6, <2>7
<1>9. CASE ~(e.file_pos >= num_dentry)
  <2>1. PICK x : x = [e EXCEPT !.file_pos = e.file_pos + 1]
    OBVIOUS
  <2>2. PICK name : name = Cut(NameString(dir_entry[e.file_pos]), nbytes)
    OBVIOUS
  <2>3. name \in Listing(e.file_pos) /\ name \in Listings
    BY <1>6, <1>9, <2>2, FilesAssumption DEF Listing, Listings
  <2>4. /\ x \in Elements /\ x.ops = "dir"
        /\ x.file_pos = e.file_pos + 1 /\ x.file_pos <= num_dentry
    BY <1>2, <1>6, <1>9, <2>1 DEF Elements
  <2>5. Changes(p, fd, x) /\ Records(p, fd, Append(s, name), z)
    BY <1>1, <1>2, <1>3, <1>5, <1>9, <2>1, <2>2
    DEF dir_read, Changes, Records, TypeOK, Shape
  <2>6. PICK y : y = Append(s, name)
    OBVIOUS
  <2>7. /\ y \in Seq(Listings) /\ Len(y) = x.file_pos
        /\ \A i \in 1 .. Len(s) : y[i] = s[i]
        /\ y[Len(s) + 1] = name
    BY <1>4, <2>3, <2>4, <2>6
  <2>8. \A i \in 1 .. x.file_pos : y[i] \in Listing(i - 1)
    BY <1>4, <1>6, <2>3, <2>4, <2>7
  <2> QED BY <1>7, <2>4, <2>5, <2>6, <2>7, <2>8
<1> QED BY <1>8, <1>9

LEMMA FilesNext ==
  TypeOK /\ Shape /\ Places /\ [Next]_vars => TypeOK' /\ Shape' /\ Places'
<1> SUFFICES ASSUME TypeOK, Shape, Places, [Next]_vars
             PROVE  TypeOK' /\ Shape' /\ Places'
  OBVIOUS
<1>1. CASE UNCHANGED vars
  BY <1>1
  DEF vars, TypeOK, Shape, Places, Open, FilePlace, DirPlace
<1> QED
  BY <1>1, sys_execute_step, sys_halt_step, sys_open_step, sys_close_step,
     file_read_step, dir_read_step
  DEF Next

\* The descriptor tables keep their type, for any disk, any number of
\* processes and any sizes: 0 and 1 stay the terminal of every live process.
THEOREM FilesTypeCorrect == Spec => []TypeOK
<1> QED BY FilesInit, FilesNext, PTL DEF Spec

LEMMA FilePlaceInOrder ==
  ASSUME TypeOK, NEW p \in Proc, NEW fd \in Fd, FilePlace(p, fd),
         file_array[p][fd].ops = "file"
  PROVE  got[p][fd] = SubSeq(Content(file_array[p][fd].inode), 1,
                             file_array[p][fd].file_pos)
<1>1. PICK e : e = file_array[p][fd]
  OBVIOUS
<1>2. CASE e.file_pos = 0 /\ got[p][fd] = <<>>
  BY <1>1, <1>2, SubSeqEmpty
<1>3. CASE ~(e.file_pos = 0 /\ got[p][fd] = <<>>)
  <2>1. PICK node : node = inodes[e.inode]
    OBVIOUS
  <2>2. PICK n \in 0 .. node.length : n = e.file_pos
    BY <1>1, <1>3, <2>1 DEF FilePlace
  <2>3. /\ got[p][fd] = Window(ByteAt(node), 0, n)
        /\ node.length \in Nat
    BY <1>1, <1>3, <2>1, <2>2, FilesAssumption DEF FilePlace
  <2>4. PICK c : c = Content(e.inode)
    OBVIOUS
  <2>5. \A i \in 1 .. n : c[i] = ByteAt(node)[i - 1] /\ c[i] \in Bytes(node)
    <3> SUFFICES ASSUME NEW i \in 1 .. n
                 PROVE  c[i] = ByteAt(node)[i - 1] /\ c[i] \in Bytes(node)
      OBVIOUS
    <3>1. i - 1 \in Nat /\ i \in 1 .. node.length
      BY <2>2, <2>3
    <3>2. c[i] = <<node.dblock_idx[(i - 1) \div BLOCKSIZE],
                   (i - 1) % BLOCKSIZE>>
      BY <2>1, <2>4, <3>1 DEF Content
    <3>3. c[i] = ByteAt(node)[i - 1]
      BY <3>1, <3>2 DEF ByteAt
    <3> QED BY <3>1, <3>3 DEF Bytes
  <2>6. /\ SubSeq(c, 1, n) \in Seq(Bytes(node))
        /\ Len(SubSeq(c, 1, n)) = n
        /\ \A i \in 1 .. n : SubSeq(c, 1, n)[i] = c[i]
    <3>1. n \in Int /\ 1 \in Int
      BY <2>3
    <3> QED BY <2>5, <3>1, SubSeqProperties
  <2>7. /\ Window(ByteAt(node), 0, n) \in Seq(Bytes(node))
        /\ Len(Window(ByteAt(node), 0, n)) = n
        /\ \A i \in 1 .. n :
             Window(ByteAt(node), 0, n)[i] = ByteAt(node)[i - 1]
    BY <2>3, ByteAtType, WindowSeq, n \in Nat, 0 \in Nat DEF Window
  <2> QED BY <1>1, <2>2, <2>3, <2>4, <2>5, <2>6, <2>7, SeqEqual
<1> QED BY <1>2, <1>3

\* Through one descriptor a program gets the bytes of its file in order and
\* each once: for any disk and block size, whatever sizes are asked for and
\* whatever other descriptors and processes do in between.
THEOREM FilesReadInOrder == Spec => []FileReadInOrder
<1>1. TypeOK /\ Places => FileReadInOrder
  BY FilePlaceInOrder DEF FileReadInOrder, Places
<1> QED BY FilesInit, FilesNext, <1>1, PTL DEF Spec

\* What is read of a name and the byte after it is the name, in the first
\* characters that the name takes.
LEMMA CutAppend ==
  ASSUME NEW E, NEW s \in Seq(E), NEW c \in E, NEW n \in Nat
  PROVE  Cut(Cut(Append(s, c), n), Len(s)) = Cut(s, n)
<1>1. PICK full, len : full = Append(s, c) /\ len = Len(s)
  OBVIOUS
<1>2. /\ full \in Seq(E) /\ len \in Nat /\ Len(full) = len + 1
      /\ \A k \in 1 .. len : full[k] = s[k]
  BY <1>1, AppendProperties
<1>3. ASSUME NEW j \in 0 .. len
      PROVE  /\ SubSeq(full, 1, j) = SubSeq(s, 1, j)
             /\ Len(SubSeq(full, 1, j)) = j
  <2>1. /\ SubSeq(full, 1, j) \in Seq(E)
        /\ Len(SubSeq(full, 1, j)) = j
        /\ \A k \in 1 .. j : SubSeq(full, 1, j)[k] = full[k]
    BY <1>2
  <2>2. /\ SubSeq(s, 1, j) \in Seq(E)
        /\ Len(SubSeq(s, 1, j)) = j
        /\ \A k \in 1 .. j : SubSeq(s, 1, j)[k] = s[k]
    BY <1>1, <1>2
  <2>3. \A k \in 1 .. j : SubSeq(full, 1, j)[k] = SubSeq(s, 1, j)[k]
    BY <1>2, <2>1, <2>2
  <2> QED BY <2>1, <2>2, <2>3, SeqEqual
<1>4. SubSeq(s, 1, len) = s
  BY <1>1, <1>2
<1>5. CASE n > len
  <2>1. Cut(full, n) = full /\ Cut(s, n) = s
    BY <1>1, <1>2, <1>5 DEF Cut
  <2>2. Cut(full, len) = SubSeq(full, 1, len)
    BY <1>2 DEF Cut
  <2> QED BY <1>1, <1>2, <1>3, <1>4, <2>1, <2>2
<1>6. CASE ~(n > len)
  <2>1. n \in 0 .. len /\ Cut(full, n) = SubSeq(full, 1, n)
    BY <1>2, <1>6 DEF Cut
  <2>2. Cut(SubSeq(full, 1, n), len) = SubSeq(s, 1, n)
    BY <1>2, <1>3, <2>1 DEF Cut
  <2>3. Cut(s, n) = SubSeq(s, 1, n)
    BY <1>1, <1>2, <1>4, <2>1 DEF Cut
  <2> QED BY <1>1, <2>1, <2>2, <2>3
<1> QED BY <1>5, <1>6

\* Up to the size of its field, what is read of a name is the name.
LEMMA FieldRead ==
  ASSUME NEW i \in DOMAIN dir_entry, NEW n \in Nat
  PROVE  Cut(Cut(NameString(dir_entry[i]), n), MAXCHAR)
           = Cut(dir_entry[i].file_name, n)
<1>1. PICK s, t : s = dir_entry[i].file_name /\ t = dir_entry[i].file_type
  OBVIOUS
<1>2. s \in Seq(STRING) /\ Len(s) <= MAXCHAR /\ MAXCHAR \in Nat
  BY <1>1, FilesAssumption, EntryAssumption
<1>3. CASE Len(s) = MAXCHAR /\ t # 0
  <2>1. NameString(dir_entry[i]) = Append(s, chr[t])
    BY <1>1, <1>3 DEF NameString
  <2>2. t \in 1 .. 255
    <3>1. t \in 0 .. 255
      BY <1>1, EntryAssumption, Zenon
    <3> QED BY <1>3, <3>1
  <2>3. chr[t] \in STRING
    <3>1. chr \in [1 .. 255 -> STRING]
      BY EntryAssumption
    <3> QED BY <2>2, <3>1, Zenon
  <2> QED BY <1>1, <1>2, <1>3, <2>1, <2>3, CutAppend
<1>4. CASE ~(Len(s) = MAXCHAR /\ t # 0)
  <2>1. NameString(dir_entry[i]) = s
    BY <1>1, <1>4 DEF NameString
  <2>2. Len(Cut(s, n)) <= MAXCHAR
    BY <1>2 DEF Cut
  <2> QED BY <1>1, <2>1, <2>2 DEF Cut
<1> QED BY <1>3, <1>4

\* A listing names the entries of the directory from the first on, each once,
\* for any directory, names that fill their field included, and any sizes of
\* the buffers: in the first MAXCHAR characters that a read has copied.
THEOREM DirectoriesListed == Spec => []DirectoryListed
<1>1. Places => DirectoryListed
  <2> SUFFICES ASSUME Places, NEW p \in Proc, NEW fd \in Fd, Open(p, fd),
                      file_array[p][fd].ops = "dir"
               PROVE  LET e == file_array[p][fd]
                      IN  /\ Len(got[p][fd]) = e.file_pos
                          /\ \A i \in 1 .. e.file_pos : \E n \in Nbytes :
                               Cut(got[p][fd][i], MAXCHAR)
                                 = Cut(dir_entry[i - 1].file_name, n)
    BY DEF DirectoryListed
  <2>1. PICK pos, s : pos = file_array[p][fd].file_pos /\ s = got[p][fd]
    OBVIOUS
  <2>2. /\ Len(s) = pos /\ s \in Seq(Listings) /\ pos <= num_dentry
        /\ \A i \in 1 .. pos : s[i] \in Listing(i - 1)
    BY <2>1 DEF Places, DirPlace
  <2>3. ASSUME NEW i \in 1 .. pos
        PROVE  \E n \in Nbytes :
                 Cut(s[i], MAXCHAR) = Cut(dir_entry[i - 1].file_name, n)
    <3>1. PICK n \in Nbytes : s[i] = Cut(NameString(dir_entry[i - 1]), n)
      BY <2>2 DEF Listing
    <3>2. i - 1 \in DOMAIN dir_entry /\ n \in Nat
      BY <2>2, FilesAssumption
    <3> QED BY <3>1, <3>2, FieldRead
  <2> QED BY <2>1, <2>2, <2>3
<1> QED BY FilesInit, FilesNext, <1>1, PTL DEF Spec

-----------------------------------------------------------------------------
(* The names. *)

\* strncmp compares MAXCHAR - 1 characters: that tells a shorter name from any
\* entry's, even one that fills its field.
LEMMA ShortNamesDiffer ==
  ASSUME NEW fname \in Seq(STRING), Len(fname) < MAXCHAR - 1,
         NEW name \in Seq(STRING), SameName(fname, name, MAXCHAR - 1)
  PROVE  fname = name
<1>1. Len(fname) \in Nat /\ Len(name) \in Nat /\ MAXCHAR - 1 \in Nat
  BY FilesAssumption
<1>2. Cut(fname, MAXCHAR - 1) = fname
  BY <1>1 DEF Cut
<1>3. CASE Len(name) <= MAXCHAR - 1
  BY <1>2, <1>3 DEF SameName, Cut
<1>4. CASE ~(Len(name) <= MAXCHAR - 1)
  <2>1. Len(SubSeq(name, 1, MAXCHAR - 1)) = MAXCHAR - 1
    BY <1>1, <1>4
  <2> QED BY <1>1, <1>2, <1>4, <2>1 DEF SameName, Cut
<1> QED BY <1>3, <1>4

\* The element stands for the entry i.
StandsFor(e, i) ==
  Element(dir_entry[i]) = [e EXCEPT !.file_pos = 0, !.flag = 0]

NamedRight(p, fd) ==
  \E i \in DOMAIN dir_entry : /\ dir_entry[i].file_name = named[p][fd]
                             /\ StandsFor(file_array[p][fd], i)

LEMMA OpensNamedParts ==
  /\ OpensNamed <=>
       \A p \in Proc, fd \in Fd : Open(p, fd) => NamedRight(p, fd)
  /\ OpensNamed' <=>
       \A p \in Proc, fd \in Fd : Open(p, fd)' => NamedRight(p, fd)'
  BY Zenon DEF OpensNamed, NamedRight, StandsFor

\* A descriptor that a step leaves alone keeps its name.
LEMMA NameLeft ==
  ASSUME NEW p \in Proc, NEW fd \in Fd, NamedRight(p, fd),
         file_array'[p][fd] = file_array[p][fd],
         named'[p][fd] = named[p][fd]
  PROVE  NamedRight(p, fd)'
  BY DEF NamedRight, StandsFor

\* A step that changes one descriptor, and leaves that one with its name.
LEMMA NamesKept ==
  ASSUME TypeOK, Shape, OpensNamed,
         NEW p \in Proc, NEW fd \in UserFd, NEW x \in Elements, NEW y, NEW z,
         Changes(p, fd, x), Records(p, fd, y, z),
         x.flag = 1 => \E i \in DOMAIN dir_entry :
                         dir_entry[i].file_name = z /\ StandsFor(x, i)
  PROVE  OpensNamed'
<1>0. fd \in Fd
  BY Constants
<1>1. /\ file_array'[p][fd] = x
      /\ \A q \in Proc, g \in Fd : q # p \/ g # fd =>
           file_array'[q][g] = file_array[q][g]
  BY OneChanged
<1>2. /\ named'[p][fd] = z
      /\ \A q \in Proc, g \in Fd : q # p \/ g # fd =>
           named'[q][g] = named[q][g]
  BY <1>0, OneRecorded
<1>3. ASSUME NEW q \in Proc, NEW g \in Fd, Open(q, g)'
      PROVE  NamedRight(q, g)'
  <2>1. CASE q = p /\ g = fd
    BY <1>1, <1>2, <1>3, <2>1 DEF Open, NamedRight, StandsFor
  <2>2. CASE q # p \/ g # fd
    <3>1. /\ file_array'[q][g] = file_array[q][g]
          /\ named'[q][g] = named[q][g]
      BY <1>1, <1>2, <2>2
    <3>2. Open(q, g)
      BY <1>3, <3>1 DEF Open, Changes
    <3> QED BY <3>1, <3>2, OpensNamedParts, NameLeft
  <2> QED BY <2>1, <2>2
<1> QED BY <1>3, OpensNamedParts

LEMMA sys_open_names ==
  ASSUME TypeOK, Shape, OpensNamed, NEW p \in Proc, NEW filename \in Name,
         Len(filename) < MAXCHAR - 1, sys_open(p, filename)
  PROVE  OpensNamed'
<1>1. PICK fd \in UserFd, x \in Elements, i \in Matches(filename) :
        /\ Changes(p, fd, x) /\ Records(p, fd, <<>>, filename)
        /\ x.file_pos = 0 /\ Element(dir_entry[i]) = [x EXCEPT !.flag = 0]
  BY sys_open_change
<1>2. i \in DOMAIN dir_entry /\ dir_entry[i].file_name \in Seq(STRING)
      /\ filename \in Seq(STRING)
  BY FilesAssumption DEF Matches
<1>3. filename = dir_entry[i].file_name
  BY <1>2, ShortNamesDiffer DEF Matches
<1>4. [x EXCEPT !.flag = 0] = [x EXCEPT !.file_pos = 0, !.flag = 0]
  BY <1>1 DEF Elements
<1>5. StandsFor(x, i)
  BY <1>1, <1>4 DEF StandsFor
<1> QED BY <1>1, <1>2, <1>3, <1>5, NamesKept

\* Reading moves the position only.
LEMMA read_names ==
  ASSUME TypeOK, Shape, OpensNamed, NEW p \in Proc, NEW fd \in Fd,
         NEW nbytes \in Nbytes, Places,
         file_read(p, fd, nbytes) \/ dir_read(p, fd, nbytes)
  PROVE  OpensNamed'
<1>1. PICK e : e = file_array[p][fd]
  OBVIOUS
<1>2. PICK x : x = file_array'[p][fd]
  OBVIOUS
<1>3. PICK y : y = got'[p][fd]
  OBVIOUS
<1>4. PICK z : z = named[p][fd]
  OBVIOUS
<1>5. TypeOK' /\ Shape'
  BY file_read_step, dir_read_step
<1>6. x \in Elements /\ e \in Elements
  BY <1>1, <1>2, <1>5 DEF TypeOK, Elements
<1>7. Open(p, fd) /\ fd \in UserFd /\ live' = live /\ named' = named
  BY DEF file_read, dir_read, Readable, Open
<1>8. \E pos : file_array' = [file_array EXCEPT ![p][fd].file_pos = pos]
  BY DEF TypeOK, file_read, dir_read
<1>9. \E data : got' = [got EXCEPT ![p][fd] = data]
  BY DEF Shape, file_read, dir_read
<1>10. Changes(p, fd, x) /\ x.ops = e.ops /\ x.inode = e.inode
  <2>1. PICK pos : file_array' = [file_array EXCEPT ![p][fd].file_pos = pos]
    BY <1>8
  <2>2. x = [e EXCEPT !.file_pos = pos]
    BY <1>1, <1>2, <2>1 DEF TypeOK
  <2>3. x.ops = e.ops /\ x.inode = e.inode
    BY <1>6, <2>2 DEF Elements
  <2>4. file_array' = [file_array EXCEPT ![p][fd] = x]
    BY <1>1, <2>1, <2>2 DEF TypeOK
  <2> QED BY <1>7, <2>3, <2>4 DEF Changes
<1>11. Records(p, fd, y, z)
  BY <1>3, <1>4, <1>7, <1>9 DEF Records, Shape
<1>12. [x EXCEPT !.file_pos = 0, !.flag = 0]
         = [e EXCEPT !.file_pos = 0, !.flag = 0]
  BY <1>6, <1>10 DEF Elements
<1>13. PICK i \in DOMAIN dir_entry :
         dir_entry[i].file_name = z /\ StandsFor(e, i)
  BY <1>1, <1>4, <1>7, OpensNamedParts DEF NamedRight
<1>14. StandsFor(x, i)
  BY <1>12, <1>13 DEF StandsFor
<1> QED BY <1>6, <1>7, <1>10, <1>11, <1>13, <1>14, NamesKept

LEMMA NamesNext ==
  ASSUME TypeOK, Shape, Places, OpensNamed, [Next]_vars,
         \A filename \in Name : Len(filename) < MAXCHAR - 1
  PROVE  OpensNamed'
<1>1. ASSUME NEW p \in Proc, sys_execute(p) PROVE OpensNamed'
  <2>1. /\ \A q \in Proc : q # p => file_array'[q] = file_array[q]
        /\ \A fd \in UserFd : file_array'[p][fd].flag = 0
        /\ named' = named /\ \A q \in live' : q \in live \/ q = p
    BY <1>1, Constants DEF TypeOK, sys_execute, Fresh, NoFile
  <2>2. ASSUME NEW q \in Proc, NEW fd \in Fd, Open(q, fd)'
        PROVE  NamedRight(q, fd)'
    <3>1. Open(q, fd) /\ q # p
      BY <2>1, <2>2 DEF Open
    <3> QED BY <2>1, <3>1, OpensNamedParts, NameLeft
  <2> QED BY <2>2, OpensNamedParts
<1>2. ASSUME NEW p \in Proc, sys_halt(p) PROVE OpensNamed'
  <2>1. /\ \A q \in Proc : q # p => /\ file_array'[q] = file_array[q]
                                    /\ named'[q] = named[q]
        /\ \A q \in live' : q \in live /\ q # p
    BY <1>2 DEF TypeOK, Shape, sys_halt
  <2>2. ASSUME NEW q \in Proc, NEW fd \in Fd, Open(q, fd)'
        PROVE  NamedRight(q, fd)'
    <3>1. Open(q, fd) /\ q # p
      BY <2>1, <2>2 DEF Open
    <3> QED BY <2>1, <3>1, OpensNamedParts, NameLeft
  <2> QED BY <2>2, OpensNamedParts
<1>3. ASSUME NEW p \in Proc, NEW fd \in Fd, sys_close(p, fd)
      PROVE  OpensNamed'
  <2>1. PICK x : x = Closed(file_array[p][fd])
    OBVIOUS
  <2>2. x \in Elements /\ x.flag # 1 /\ fd \in UserFd
    BY <1>3, <2>1, ClosedType
    DEF TypeOK, Elements, sys_close, Closable
  <2>3. Changes(p, fd, x) /\ Records(p, fd, <<>>, <<>>)
    BY <1>3, <2>1 DEF sys_close, Changes, Records, TypeOK
  <2> QED BY <2>2, <2>3, NamesKept
<1>4. CASE UNCHANGED vars
  <2>1. file_array' = file_array /\ named' = named /\ live' = live
    BY <1>4 DEF vars
  <2>2. ASSUME NEW q \in Proc, NEW fd \in Fd, Open(q, fd)'
        PROVE  NamedRight(q, fd)'
    <3>1. Open(q, fd)
      BY <2>1, <2>2 DEF Open
    <3> QED BY <2>1, <3>1, OpensNamedParts, NameLeft
  <2> QED BY <2>2, OpensNamedParts
<1>5. ASSUME NEW p \in Proc, NEW filename \in Name, sys_open(p, filename)
      PROVE  OpensNamed'
  BY <1>5, sys_open_names
<1>6. ASSUME NEW p \in Proc, NEW fd \in Fd, NEW nbytes \in Nbytes,
             file_read(p, fd, nbytes) \/ dir_read(p, fd, nbytes)
      PROVE  OpensNamed'
  BY <1>6, read_names
<1>7. CASE Next
  <2>1. PICK p \in Proc :
          \/ sys_execute(p) \/ sys_halt(p)
          \/ \E filename \in Name : sys_open(p, filename)
          \/ \E fd \in Fd :
               \/ sys_close(p, fd)
               \/ \E nbytes \in Nbytes : file_read(p, fd, nbytes)
                                         \/ dir_read(p, fd, nbytes)
    BY <1>7 DEF Next
  <2> QED BY <2>1, <1>1, <1>2, <1>3, <1>5, <1>6
<1> QED
  BY <1>4, <1>7

\* A descriptor stands for the directory entry that has the name it was opened
\* with, for any directory, when no program opens a name of MAXCHAR - 1
\* characters or more; strncmp takes longer ones for their beginning.
THEOREM OpensTheNamed ==
  ASSUME \A filename \in Name : Len(filename) < MAXCHAR - 1
  PROVE  Spec => []OpensNamed
<1>1. Init => OpensNamed
  BY DEF Init, OpensNamed, Open
<1>2. TypeOK /\ Shape /\ Places /\ OpensNamed /\ [Next]_vars => OpensNamed'
  BY NamesNext
<1> QED BY FilesInit, FilesNext, <1>1, <1>2, PTL DEF Spec
=============================================================================
