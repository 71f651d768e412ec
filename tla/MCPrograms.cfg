SPECIFICATION PSpec
CONSTANTS
  Proc = {"p", "q"}
  FDSIZE = 8
  BLOCKSIZE = 2
  MAXCHAR = 4
  dir_entry <- Directory
  chr <- Ascii
  inodes <- Inodes
  num_dblock = 5
  Name = {}
  Nbytes = {}
  BUFSIZE = 4
  SBUFSIZE = 5
  LF = "LF"
  NUL = "NUL"
  Uninit = {"NUL", "a"}
  Args <- Arguments
  hello <- Hello
  shell <- Shell
  file0 <- Frame0
  file1 <- Frame1
  Setup <- Setups
INVARIANTS CatPrintsFile ListsEveryName GrepFindsLines SyserrPasses
INVARIANTS FramesPaired
PROPERTIES ProgramsFinish
