SPECIFICATION Spec
CONSTANTS
  TERMINAL_NUM = 2
  MAXPROC = 4
  Masked <- MaskAll
  PatientUser = FALSE
INVARIANTS ParentIsCaller
