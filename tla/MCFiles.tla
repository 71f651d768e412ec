------------------------------- MODULE MCFiles -------------------------------
(* A small disk for Files: a directory of the directory itself, the clock,  *)
(* a file of two and a half blocks, one that ends with its block and whose   *)
(* name fills its field, and one whose second block number is out of range.  *)
EXTENDS Files, TLC

Symmetry == Permutations(Proc)

Entry(name, type, inode) ==
  [file_name |-> name, file_type |-> type, inode_idx |-> inode]

Directory == LET e == << Entry(<<".">>, DIR_FILETYPE, 0),
                         Entry(<<"r">>, RTC_FILETYPE, 0),
                         Entry(<<"a">>, FILE_FILETYPE, 1),
                         Entry(<<"a", "b">>, FILE_FILETYPE, 3),
                         Entry(<<"b", "c", "d">>, FILE_FILETYPE, 2) >>
             IN  [i \in 0 .. 4 |-> e[i + 1]]

Inode(size, blocks) == [length |-> size, dblock_idx |-> blocks]

Inodes == LET n == << Inode(0, [i \in {0} |-> 0]),
                      Inode(5, [i \in 0 .. 2 |-> 2 - i]),
                      Inode(2, [i \in {0} |-> 3]),
                      Inode(3, [i \in 0 .. 1 |-> 4 * i]) >>
          IN  [i \in 0 .. 3 |-> n[i + 1]]

Names == {<<".">>, <<"r">>, <<"a">>, <<"a", "b">>, <<"b", "c", "d">>, <<"c">>,
          <<>>}

Ascii == [b \in 1 .. 255 |-> ToString(b)]
=============================================================================
