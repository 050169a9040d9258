SPECIFICATION Spec
CONSTANTS
  Queue = {"x"}
  EnQueEvt <- MCEnQueEvt
  FreeBufEvt <- MCFreeBufEvt
  BufHardType <- MCBufHardType
  Depth <- Three
  Num <- Two
  BufLen <- OneBlock
  HardwareSize <- MCHardwareSize
  QBUF_MAX_LEN = 2
  Pipe <- MCPipe
  Event <- MCEvent
  EventSrcPipe <- MCEventSrcPipe
  EventDstPipe <- MCEventDstPipe
  EVENT_ID_NUM = 2
  Granule <- MCGranule
  NoPipe = NoPipe
  MaxIssued = 2
  Phases = 0
INVARIANTS
  NoReports
  RingHoldsPublished
  EventIdsExclusive
PROPERTY QueuesKeepTheirPromise
VIEW LiveState
