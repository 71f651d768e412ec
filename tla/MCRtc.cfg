SPECIFICATION FairSpec
CONSTANTS
  TERMINAL_NUM = 2
  Freq <- FreqValid
  OpenMasked = TRUE
INVARIANTS TypeOK FrequencySet LinesBack
PROPERTIES ReadWaits ReadReturns
