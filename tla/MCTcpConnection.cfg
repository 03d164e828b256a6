SPECIFICATION Spec
CONSTANTS
  MaxBytes = 2
  XmitSize = 2
  RecvSize = 1
  MSS = 1
  MaxRetransmits = 2
  Windows = {1, 4}
  MaxFrames = 1
INVARIANTS TypeOK StreamsIntact EventsMatchState
CHECK_DEADLOCK FALSE
