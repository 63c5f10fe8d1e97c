\* Two chunks each way through buffers of one, one resize, any way to stop.
SPECIFICATION Spec
CONSTANTS
  MaxOut = 2
  MaxKeys = 2
  MaxResize = 1
  PtyCap = 1
  WireCap = 1
  Watermark = 0
  Widths = {15, 40}
  CellWidth = 10
INVARIANTS TypeOK InputInOrder SizeFollows NothingLeft NeverStuck
PROPERTIES ImplementsStream ExitEnds LeaveEnds
\* A session that is over stays over.
CHECK_DEADLOCK FALSE
