SPECIFICATION Spec
CONSTANTS
  TERMINAL_NUM = 2
  MAXPROC = 4
  Masked <- MaskBoot
  PatientUser = TRUE
INVARIANTS PcbOfNewProcess
