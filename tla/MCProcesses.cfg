SPECIFICATION FairSpec
CONSTANTS
  TERMINAL_NUM = 2
  MAXPROC = 4
  Masked <- MaskAll
  PatientUser = TRUE
INVARIANTS TypeOK ContextAgree JobChains Inductive
PROPERTIES LivePcbStable ImplementsJobControl
PROPERTIES EveryTerminalRuns LineIsRead CallsComplete
