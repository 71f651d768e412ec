SPECIFICATION Spec
CONSTANTS
  Proc = {p, q}
  FDSIZE = 4
  BLOCKSIZE = 2
  MAXCHAR = 3
  dir_entry <- Directory
  inodes <- Inodes
  num_dblock = 4
  chr <- Ascii
  Name <- Names
  Nbytes = {1, 4}
SYMMETRY Symmetry
INVARIANTS TypeOK FileReadInOrder DirectoryListed OpensNamed
