SPECIFICATION Spec
CONSTANTS
  Pattern <- MCPattern
  Buffers <- MCBuffers
INVARIANTS SearchRight BeyondWhen
PROPERTY SearchEnds
CHECK_DEADLOCK FALSE
