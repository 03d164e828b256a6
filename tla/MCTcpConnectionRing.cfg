SPECIFICATION Spec
CONSTANTS
  MaxBytes = 2
  XmitSize = 3
  RecvSize = 1
  MSS = 1
  MaxRetransmits = 2
  Windows = {4}
  MaxFrames = 1
INVARIANT ReadsStayInRing
CHECK_DEADLOCK FALSE
