SPECIFICATION Spec
CONSTANTS
  MEMSIZE = 9
  Memory <- Memories
  HEXDIGITS = 2
  Radix = {10, 16}
  Format <- Formats
  MaxCalls = 2
INVARIANTS MemoryRight StringsRight ItoaRight PrintsDirectives
CHECK_DEADLOCK FALSE
