SPECIFICATION Spec
CONSTANTS
  Queue = {"x"}
  EnQueEvt <- MCEnQueEvt
  FreeBufEvt <- MCFreeBufEvt
  BufHardType <- MCBufHardType
  Depth <- MCDepth
  Num = {0, 1, 2, 3}
  BufLen <- MCBufLen
  HardwareSize <- MCHardwareSize
  QBUF_MAX_LEN = 2
  Pipe <- MCPipe
  Event <- MCEvent
  EventSrcPipe <- MCEventSrcPipe
  EventDstPipe <- MCEventDstPipe
  EVENT_ID_NUM = 2
  Granule = {}
  NoPipe = NoPipe
  MaxErrors = 4
PROPERTY EveryTransitionChecked
CHECK_DEADLOCK FALSE
