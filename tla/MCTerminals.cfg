SPECIFICATION Spec
CONSTANTS
  TERMINAL_NUM = 2
  INPUT_SIZE = 2
  Char = {a, b}
  NUL = NUL
  LF = LF
  Nbytes = {1}
  PatientUser = TRUE
SYMMETRY Symmetry
INVARIANTS TypeOK
PROPERTIES ImplementsLineEditor
