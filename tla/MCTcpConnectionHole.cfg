SPECIFICATION Spec
CONSTANTS
  MaxBytes = 2
  XmitSize = 2
  RecvSize = 1
  MSS = 1
  MaxRetransmits = 2
  Windows = {0, 4}
  MaxFrames = 1
INVARIANT RetransmitsFromHighestAck
CHECK_DEADLOCK FALSE
