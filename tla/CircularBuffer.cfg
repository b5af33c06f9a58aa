SPECIFICATION BufferSpec
CONSTANTS
  Cap = 5
  MaxBytes = 12
INVARIANTS HalfUsable
PROPERTIES IsByteStream
CHECK_DEADLOCK FALSE
