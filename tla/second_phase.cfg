SPECIFICATION Spec
CONSTANTS
  Queue = {"x"}
  EnQueEvt <- MCEnQueEvt
  FreeBufEvt <- MCFreeBufEvt
  BufHardType <- MCBufHardType
  Depth <- One
  Num <- One
  BufLen <- OneBlock
  HardwareSize <- MCHardwareSize
  QBUF_MAX_LEN = 1
  Pipe <- MCPipe
  Event <- MCEvent
  EventSrcPipe <- MCEventSrcPipe
  EventDstPipe <- MCEventDstPipe
  EVENT_ID_NUM = 2
  Granule <- MCGranule
  NoPipe = NoPipe
  MaxIssued = 2
  Phases = 1
INVARIANT SecondPhaseWorks
