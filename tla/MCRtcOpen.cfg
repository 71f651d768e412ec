SPECIFICATION Spec
CONSTANTS
  TERMINAL_NUM = 2
  Freq <- FreqValid
  OpenMasked = FALSE
INVARIANTS FrequencySet
