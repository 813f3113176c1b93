CONSTANTS
  FrameBytes = 2
  MaxBytes = 7
  StartBytes = 2
  PipeBytes = 3
SPECIFICATION DecodeSpec
INVARIANTS MusicIsWhole NoChildIsLeft
PROPERTIES DecodeReturns
CHECK_DEADLOCK FALSE
