SPECIFICATION Spec
CONSTANTS
  Queue = {"x", "z"}
  EnQueEvt <- MCEnQueEvt
  FreeBufEvt <- MCFreeBufEvt
  BufHardType <- MCBufHardType
  Depth <- One
  Num <- One
  BufLen <- OneBlock
  HardwareSize <- MCHardwareSize
  QBUF_MAX_LEN = 2
  Pipe <- MCPipe
  Event <- MCEvent
  EventSrcPipe <- MCEventSrcPipe
  EventDstPipe <- MCEventDstPipe
  EVENT_ID_NUM = 1
  Granule <- MCGranule
  NoPipe = NoPipe
  MaxIssued = 3
  Phases = 0
INVARIANTS
  TypeOK
  NoReports
  NoEventLeaks
