SPECIFICATION Spec
CONSTANTS
  Queue = {"x", "z"}
  EnQueEvt <- MCEnQueEvt
  FreeBufEvt <- MCFreeBufEvt
  BufHardType <- MCBufHardType
  Depth <- MCDepth
  Num = {1, 2, 3}
  BufLen <- MCBufLen
  HardwareSize <- MCHardwareSize
  QBUF_MAX_LEN = 2
  Pipe <- MCPipe
  Event <- MCEvent
  EventSrcPipe <- MCEventSrcPipe
  EventDstPipe <- MCEventDstPipe
  EVENT_ID_NUM = 1
  Granule = {}
  NoPipe = NoPipe
  MaxErrors = 2
INVARIANTS
  TypeOK
  BuffersDisjoint
  RingSurvivesMisuse
  RaisedFlagsAreOccupied
VIEW LiveState
CHECK_DEADLOCK FALSE
