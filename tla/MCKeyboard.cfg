SPECIFICATION Spec
CONSTANTS
  Key = {"shift_left", "shift_right", "ctrl_right", "caps", "a", "l", "alt", "f2", "one"}
  Capacity = 2
  MaxHeld = 2
INVARIANTS HandledAsMeant
