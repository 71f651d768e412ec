SPECIFICATION FairSpec
CONSTANTS
  TERMINAL_NUM = 2
  Freq <- FreqValid
  OpenMasked = TRUE
PROPERTIES ReadBlocks
