----------------------------- MODULE MCPrograms -----------------------------
(* A small disk for Programs.  One process reads every text of the two       *)
(* frames; two processes run every program side by side with one text.       *)
(* Block 9 of ".b" does not exist.                                           *)
EXTENDS Programs

Hello  == <<"h", "i">>
Shell  == <<"s", "h">>
Frame0 == <<"f", "0", "0">>
Frame1 == <<"f", "1">>

Ascii == [b \in 1 .. 255 |-> ToString(b)]

Entry(name, type, inode) ==
  [file_name |-> name, file_type |-> type, inode_idx |-> inode]

Directory == LET e == << Entry(<<".">>, DIR_FILETYPE, 0),
                         Entry(Hello, FILE_FILETYPE, 0),
                         Entry(<<"r", "t", "c">>, RTC_FILETYPE, 0),
                         Entry(Frame0, FILE_FILETYPE, 1),
                         Entry(<<".", "b">>, FILE_FILETYPE, 3),
                         Entry(Shell, FILE_FILETYPE, 0),
                         Entry(Frame1, FILE_FILETYPE, 2) >>
             IN  [i \in 0 .. 6 |-> e[i + 1]]

Inode(size, blocks) == [length |-> size, dblock_idx |-> blocks]

Inodes == LET n == << Inode(0, [i \in {0} |-> 0]),
                      Inode(6, [i \in 0 .. 2 |-> 2 - i]),
                      Inode(3, [i \in 0 .. 1 |-> 3 + i]),
                      Inode(3, [i \in 0 .. 1 |-> 9 * i]) >>
          IN  [i \in 0 .. 3 |-> n[i + 1]]

\* The data blocks with the text t0 in frame0 and t1 in frame1.
Disk(t0, t1) ==
  [b \in 0 .. 4 |-> [i \in 0 .. 1 |->
     CASE b <= 2 -> t0[(2 - b) * 2 + i + 1]
       [] b = 3  -> t1[i + 1]
       [] b = 4  -> IF i = 0 THEN t1[3] ELSE " "]]

\* The lines are shorter than grep's buffer.
ShortLines(t) == \A i \in 1 .. Len(t) - 3 : \E k \in i .. i + 3 : t[k] = LF

Texts(chars, n) == {t \in [1 .. n -> chars] : ShortLines(t)}

Alone(progs) == [p \in Proc |-> IF p = "p" THEN progs ELSE {}]

Setups ==
  LET x == <<"b", "a", "b">>
      y == <<"a", LF, "b", "a", LF, "b">>
  IN  {[dblock |-> Disk(t, x), may |-> Alone({"cat", "grep"})] :
         t \in Texts({"a", "b", LF}, 6)}
      \cup {[dblock |-> Disk(t, u), may |-> Alone({"fish"})] :
              t \in {<<c[1], "a", LF, c[2], "a", c[3]>> :
                       c \in [1 .. 3 -> {"a", " ", LF}]},
              u \in [1 .. 3 -> {"b", " ", LF}]}
      \cup {[dblock |-> Disk(y, x), may |-> [p \in Proc |->
              IF p = "p" THEN {"cat", "ls", "grep", "syserr", "fish"}
              ELSE {"cat", "ls", "fish"}]]}

Arguments ==
  [cat    |-> {<<>>, <<".">>, <<"r", "t", "c">>, Frame0, <<".", "b">>,
               <<"f">>, Frame0 \o <<"x", "y">>},
   grep   |-> {<<>>, <<"a">>, <<"a", "b">>},
   ls     |-> {<<>>},
   syserr |-> {<<>>},
   fish   |-> {<<>>}]
=============================================================================
