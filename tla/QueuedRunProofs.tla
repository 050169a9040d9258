-------------------------- MODULE QueuedRunProofs ---------------------------
(***************************************************************************)
(* Programs that play by the rules of their queues are queue kernels, for  *)
(* any main program: so what is proved of those holds of them, and what    *)
(* the checker accepts is all they do.                                     *)
(***************************************************************************)
EXTENDS PipesProofs, QueuedRun

-----------------------------------------------------------------------------
(* A program on its queues: QueueKernel's calls are the program's.         *)

\* What is proved of QueueKernel, of the queues of the program.
Q == INSTANCE QueueKernelProofs WITH
  Num       <- [q \in Queue |-> BUFFER_NUM],
  BufLen    <- [q \in Queue |-> TileSizes],
  MaxIssued <- -1,
  Phases    <- 0,
  ready     <- Ready,
  phase     <- 0

LEMMA QueueAssumptions ==
  /\ Q!SyncCoreAssumption
  /\ Q!TPipeAssumption
  /\ Q!QueueKernelAssumption
<1>1. Q!SyncCoreAssumption
  BY SyncCoreAssumption DEF Q!SyncCoreAssumption
<1>2. Q!TPipeAssumption
  BY TPipeAssumption DEF Q!TPipeAssumption, Q!Mem, Mem
<1>3. TileSizes \subseteq Nat
  <2> SUFFICES ASSUME NEW l \in DOMAIN Main
               PROVE  ((Main[l].length \div Main[l].blocks) \div Main[l].tiles) * ONE_BLK_SIZE \in Nat
    BY DEF TileSizes
  <2>1. Main[l] \in KernelLaunches
    BY KernelRunAssumption
  <2>2. Main[l].length \in Nat /\ Main[l].blocks \in Nat \ {0} /\ Main[l].tiles \in Nat \ {0}
    BY <2>1 DEF KernelLaunches
  <2>3. Main[l].length \div Main[l].blocks \in Nat
    BY <2>2, QuotientTyped
  <2>4. (Main[l].length \div Main[l].blocks) \div Main[l].tiles \in Nat
    BY <2>2, <2>3, QuotientTyped
  <2> QED
    BY <2>4 DEF ONE_BLK_SIZE
<1>4. Q!QueueKernelAssumption
  BY <1>3, KernelRunAssumption DEF Q!QueueKernelAssumption
<1> QED
  BY <1>1, <1>2, <1>4

LEMMA SameState ==
  /\ \A q : Q!BuffersOf(q) = BuffersOf(q) /\ Queues!BuffersOf(q) = BuffersOf(q)
  /\ \A q : Q!Producer(q) = Producer(q) /\ Queues!Producer(q) = Producer(q)
  /\ \A q : Q!Consumer(q) = Consumer(q) /\ Queues!Consumer(q) = Consumer(q)
  /\ \A h : Q!BufferGranules(h) = BufferGranules(h) /\ Queues!BufferGranules(h) = BufferGranules(h)
  /\ Q!Leaked = Leaked /\ Queues!Leaked = Leaked
  /\ Q!Handle = Handle /\ Queues!Handle = Handle
BY DEF Q!BuffersOf, Queues!BuffersOf, BuffersOf, Q!Producer, Queues!Producer, Producer,
       Q!Consumer, Queues!Consumer, Consumer, Q!BufferGranules, Queues!BufferGranules,
       BufferGranules, Q!BlocksOf, Queues!BlocksOf, BlocksOf, Q!ONE_BLK_SIZE,
       Queues!ONE_BLK_SIZE, ONE_BLK_SIZE, Q!Leaked, Queues!Leaked, Leaked,
       Q!Handle, Queues!Handle, Handle

LEMMA SameInstruction ==
  ASSUME NEW p, NEW src0, NEW src1, NEW dst, NEW n
  PROVE  /\ Q!Instruction(p, src0, src1, dst, n) = Instruction(p, src0, src1, dst, n)
         /\ Queues!Instruction(p, src0, src1, dst, n) = Instruction(p, src0, src1, dst, n)
BY DEF Q!Instruction, Queues!Instruction, Instruction, Q!TouchErrors, Queues!TouchErrors,
       TouchErrors, Q!CheckAccess, Queues!CheckAccess, CheckAccess, Q!NotYetObserved,
       Queues!NotYetObserved, NotYetObserved, Q!RecordWrite, Queues!RecordWrite, RecordWrite,
       Q!RecordRead, Queues!RecordRead, RecordRead, Q!AfterSrc0, Queues!AfterSrc0, AfterSrc0,
       Q!AfterSrc1, Queues!AfterSrc1, AfterSrc1, Q!ReportSyncErrors, Queues!ReportSyncErrors,
       ReportSyncErrors, Q!OneIf, Queues!OneIf, OneIf

LEMMA SameInitBuffer ==
  ASSUME NEW q, NEW n, NEW len
  PROVE  /\ Q!InitBuffer(q, n, len) = InitBuffer(q, n, len)
         /\ Queues!InitBuffer(q, n, len) = InitBuffer(q, n, len)
BY DEF Q!InitBuffer, Queues!InitBuffer, InitBuffer, Q!InitBufferFits, Queues!InitBufferFits,
       InitBufferFits, Q!CarveBuffers, Queues!CarveBuffers, CarveBuffers, Q!NewBuffer,
       Queues!NewBuffer, NewBuffer, Q!Handle, Queues!Handle, Handle, Q!ONE_BLK_SIZE,
       Queues!ONE_BLK_SIZE, ONE_BLK_SIZE, Q!Mem, Queues!Mem, Mem, Q!INVALID_TEVENTID,
       Queues!INVALID_TEVENTID, INVALID_TEVENTID, Q!coreVars, Queues!coreVars, coreVars

LEMMA SameAllocTensor ==
  ASSUME NEW q
  PROVE  /\ Q!AllocTensor(q) = AllocTensor(q)
         /\ Queues!AllocTensor(q) = AllocTensor(q)
BY DEF Q!AllocTensor, Queues!AllocTensor, AllocTensor, Q!IdleSlot, Queues!IdleSlot, IdleSlot,
       Q!HasIdleBuffer, Queues!HasIdleBuffer, HasIdleBuffer, Q!IdleOffsets, Queues!IdleOffsets,
       IdleOffsets, Q!SlotAfter, Queues!SlotAfter, SlotAfter, Q!Min, Queues!Min, Min,
       Q!ViewAfterWait, Queues!ViewAfterWait, ViewAfterWait, Q!FlagsAfterWait,
       Queues!FlagsAfterWait, FlagsAfterWait, Q!WaitFlagErrors, Queues!WaitFlagErrors,
       WaitFlagErrors, Q!Raised, Queues!Raised, Raised, Q!Larger, Queues!Larger, Larger,
       Q!OccupyAfterRelease, Queues!OccupyAfterRelease, OccupyAfterRelease, Q!EventId,
       Queues!EventId, EventId, Q!INVALID_TEVENTID, Queues!INVALID_TEVENTID, INVALID_TEVENTID,
       Q!OneIf, Queues!OneIf, OneIf, Q!ReportSyncErrors, Queues!ReportSyncErrors,
       ReportSyncErrors

LEMMA SameEnQue ==
  ASSUME NEW q, NEW h
  PROVE  /\ Q!EnQue(q, h) = EnQue(q, h)
         /\ Queues!EnQue(q, h) = EnQue(q, h)
BY DEF Q!EnQue, Queues!EnQue, EnQue, Q!VacantInQue, Queues!VacantInQue, VacantInQue,
       Q!NextEventID, Queues!NextEventID, NextEventID, Q!IdleEventIDs, Queues!IdleEventIDs,
       IdleEventIDs, Q!Min, Queues!Min, Min, Q!AllocEventIDErrors, Queues!AllocEventIDErrors,
       AllocEventIDErrors, Q!OccupyAfterAlloc, Queues!OccupyAfterAlloc, OccupyAfterAlloc,
       Q!FlagsAfterSet, Queues!FlagsAfterSet, FlagsAfterSet, Q!SetFlagErrors,
       Queues!SetFlagErrors, SetFlagErrors, Q!Snapshot, Queues!Snapshot, Snapshot, Q!EventId,
       Queues!EventId, EventId, Q!INVALID_TEVENTID, Queues!INVALID_TEVENTID, INVALID_TEVENTID,
       Q!OneIf, Queues!OneIf, OneIf, Q!ReportSyncErrors, Queues!ReportSyncErrors,
       ReportSyncErrors

LEMMA SameDeQue ==
  ASSUME NEW q
  PROVE  /\ Q!DeQue(q) = DeQue(q)
         /\ Queues!DeQue(q) = DeQue(q)
BY DEF Q!DeQue, Queues!DeQue, DeQue, Q!OldestSlot, Queues!OldestSlot, OldestSlot,
       Q!HasTensorInQue, Queues!HasTensorInQue, HasTensorInQue, Q!RingAfterDeQue,
       Queues!RingAfterDeQue, RingAfterDeQue, Q!ViewAfterWait, Queues!ViewAfterWait,
       ViewAfterWait, Q!FlagsAfterWait, Queues!FlagsAfterWait, FlagsAfterWait,
       Q!WaitFlagErrors, Queues!WaitFlagErrors, WaitFlagErrors, Q!Raised, Queues!Raised,
       Raised, Q!Larger, Queues!Larger, Larger, Q!OccupyAfterRelease,
       Queues!OccupyAfterRelease, OccupyAfterRelease, Q!EventId, Queues!EventId, EventId,
       Q!INVALID_TEVENTID, Queues!INVALID_TEVENTID, INVALID_TEVENTID, Q!OneIf, Queues!OneIf,
       OneIf, Q!ReportSyncErrors, Queues!ReportSyncErrors, ReportSyncErrors

LEMMA SameFreeTensor ==
  ASSUME NEW q, NEW h
  PROVE  /\ Q!FreeTensor(q, h) = FreeTensor(q, h)
         /\ Queues!FreeTensor(q, h) = FreeTensor(q, h)
BY DEF Q!FreeTensor, Queues!FreeTensor, FreeTensor, Q!NextEventID, Queues!NextEventID,
       NextEventID, Q!IdleEventIDs, Queues!IdleEventIDs, IdleEventIDs, Q!Min, Queues!Min, Min,
       Q!AllocEventIDErrors, Queues!AllocEventIDErrors, AllocEventIDErrors, Q!OccupyAfterAlloc,
       Queues!OccupyAfterAlloc, OccupyAfterAlloc, Q!FlagsAfterSet, Queues!FlagsAfterSet,
       FlagsAfterSet, Q!SetFlagErrors, Queues!SetFlagErrors, SetFlagErrors, Q!Snapshot,
       Queues!Snapshot, Snapshot, Q!EventId, Queues!EventId, EventId, Q!INVALID_TEVENTID,
       Queues!INVALID_TEVENTID, INVALID_TEVENTID, Q!OneIf, Queues!OneIf, OneIf,
       Q!ReportSyncErrors, Queues!ReportSyncErrors, ReportSyncErrors

LEMMA SameDestroy ==
  /\ Q!Destroy = Destroy
  /\ Queues!Destroy = Destroy
BY DEF Q!Destroy, Queues!Destroy, Destroy, Q!Leaked, Queues!Leaked, Leaked, Q!Handle,
       Queues!Handle, Handle, Q!Cardinality, Queues!Cardinality, Cardinality, Q!IsFiniteSet,
       Queues!IsFiniteSet, IsFiniteSet, Q!EventId, Queues!EventId, EventId, Q!INVALID_TEVENTID,
       Queues!INVALID_TEVENTID, INVALID_TEVENTID, Q!OneIf, Queues!OneIf, OneIf,
       Q!ReportSyncErrors, Queues!ReportSyncErrors, ReportSyncErrors

LEMMA SameNextKernel ==
  /\ Q!NextKernel = NextKernel
  /\ Queues!NextKernel = NextKernel
BY DEF Q!NextKernel, Queues!NextKernel, NextKernel, Q!KernelLaunch, Queues!KernelLaunch,
       KernelLaunch, Q!NewPipe, Queues!NewPipe, NewPipe, Q!NewBuffer, Queues!NewBuffer,
       NewBuffer, Q!NewQueue, Queues!NewQueue, NewQueue, Q!Handle, Queues!Handle, Handle,
       Q!Mem, Queues!Mem, Mem, Q!INVALID_TEVENTID, Queues!INVALID_TEVENTID, INVALID_TEVENTID,
       Q!Fresh, Queues!Fresh, Fresh, Q!Untouched, Queues!Untouched, Untouched, Q!Lowered,
       Queues!Lowered, Lowered, Q!EventId, Queues!EventId, EventId

LEMMA SameInit ==
  /\ Q!CoreInit = CoreInit
  /\ Queues!CoreInit = CoreInit
  /\ Q!PipeInit = PipeInit
  /\ Queues!PipeInit = PipeInit
BY DEF Q!CoreInit, Queues!CoreInit, CoreInit, Q!PipeInit, Queues!PipeInit, PipeInit, Q!NewPipe,
       Queues!NewPipe, NewPipe, Q!NewBuffer, Queues!NewBuffer, NewBuffer, Q!NewQueue,
       Queues!NewQueue, NewQueue, Q!Handle, Queues!Handle, Handle, Q!Mem, Queues!Mem, Mem,
       Q!INVALID_TEVENTID, Queues!INVALID_TEVENTID, INVALID_TEVENTID, Q!Fresh, Queues!Fresh,
       Fresh, Q!Untouched, Queues!Untouched, Untouched, Q!Lowered, Queues!Lowered, Lowered,
       Q!EventId, Queues!EventId, EventId

LEMMA SameVars ==
  /\ Q!coreVars = coreVars
  /\ Queues!coreVars = coreVars
  /\ Q!pipeVars = pipeVars
  /\ Queues!pipeVars = pipeVars
BY DEF Q!coreVars, Queues!coreVars, coreVars, Q!pipeVars, Queues!pipeVars, pipeVars

-----------------------------------------------------------------------------
(* The queues that are ready.                                              *)

LEMMA ReadyAfterCall ==
  ASSUME ProgressOK, NextCall
  PROVE  Ready' = IF Kernel[pc].op = "InitBuffer" THEN Ready \cup {Kernel[pc].on} ELSE Ready
<1>1. /\ ~ destroyed /\ pc <= Len(Kernel) /\ pc' = pc + 1 /\ block' = block
      /\ Launch' = Launch /\ Kernel' = Kernel
  BY DEF NextCall, InProgress, Launch, Kernel
<1>2. block # -1 /\ pc \in Nat \ {0} /\ Kernel \in Seq(KernelCall) /\ Len(Kernel) \in Nat
      /\ Kernel[pc] \in KernelCall
  BY <1>1, LaunchTyped DEF ProgressOK
<1> DEFINE Calls == SubSeq(Kernel, 1, pc - 1)
           More  == SubSeq(Kernel, 1, pc)
<1>3. Ready = Initialised(Calls)
  BY <1>2 DEF Ready
<1>4. Ready' = Initialised(More)
  BY <1>1, <1>2 DEF Ready, Initialised
<1>5. /\ DOMAIN Calls = 1 .. (pc - 1) /\ \A i \in 1 .. (pc - 1) : Calls[i] = Kernel[i]
      /\ DOMAIN More = 1 .. pc /\ \A i \in 1 .. pc : More[i] = Kernel[i]
  BY <1>1, <1>2
<1>6. Kernel[pc].op = "InitBuffer" => Kernel[pc].on \in Queue
  BY <1>2, CallTyped DEF OnQueue
<1> HIDE DEF Calls, More
<1>7. \A i \in 1 .. pc : i = pc \/ i \in 1 .. (pc - 1)
  BY <1>2
<1>8. pc \in 1 .. pc /\ 1 .. (pc - 1) \subseteq 1 .. pc
  BY <1>2
<1>9. \A q \in Queue :
        q \in Ready' <=> q \in Ready \/ (Kernel[pc].op = "InitBuffer" /\ Kernel[pc].on = q)
  BY <1>3, <1>4, <1>5, <1>7, <1>8 DEF Initialised
<1>10. Ready \subseteq Queue /\ Ready' \subseteq Queue
  BY <1>3, <1>4 DEF Initialised
<1> QED
  BY <1>6, <1>9, <1>10

\* Where a program is in order: it runs its queues as QueueKernel does, which
\* is quiet, with buffers of the size of a tile, to the end of the kernel.
BuffersHoldTiles == block # -1 => \A h \in 0 .. (curBufSize - 1) : buf[h].dataLen = TileBytes

EndsAtEnd == destroyed /\ block # -1 => pc = Len(Kernel) + 1

InOrder == RunOK /\ Q!Quiet /\ BuffersHoldTiles /\ EndsAtEnd

LEMMA ReadyAtStart ==
  ASSUME ProgressOK, pc = 1, block # -1
  PROVE  Ready = {}
<1>1. Kernel \in Seq(KernelCall)
  BY LaunchTyped
<1>2. DOMAIN SubSeq(Kernel, 1, 0) = {}
  BY <1>1
<1> QED
  BY <1>2 DEF Ready, Initialised

LEMMA ReadyBetweenLaunches ==
  ASSUME RunOK, EndsAtEnd, NextLaunch
  PROVE  Ready' = Ready
<1>1. /\ destroyed /\ block = Launch.blocks - 1 /\ launch' = launch + 1 /\ block' = -1
  BY DEF NextLaunch, LaunchOver
<1>2. /\ launch \in Nat /\ launch \in DOMAIN Main
      /\ Kernel \in Seq(KernelCall) /\ Len(Kernel) \in Nat /\ Launch.blocks \in Nat \ {0}
  <2>1. launch \in DOMAIN Main /\ DOMAIN Main \subseteq Nat
    BY KernelRunAssumption DEF RunOK, ProgressOK
  <2>2. Launch \in KernelLaunches /\ Kernel \in Seq(KernelCall)
    BY LaunchTyped DEF RunOK
  <2> QED
    BY <2>1, <2>2 DEF KernelLaunches
<1>3. block # -1 /\ pc = Len(Kernel) + 1
  BY <1>1, <1>2 DEF EndsAtEnd
<1>4. SubSeq(Kernel, 1, pc - 1) = Kernel
  BY <1>2, <1>3
<1>5. Ready = Initialised(Kernel)
  BY <1>3, <1>4 DEF Ready
<1>6. Ready' = Initialised(Launches[launch' - 1].calls)
  BY <1>1 DEF Ready, Initialised
<1>7. Launches[launch' - 1].calls = Kernel
  BY <1>1, <1>2 DEF Kernel, Launch
<1> QED
  BY <1>5, <1>6, <1>7

-----------------------------------------------------------------------------
(* A call in its turn is a step of QueueKernel.                            *)

LEMMA OwnBuffer ==
  ASSUME RunOK, NEW t \in Queue, NEW s, Has(t, s)
  PROVE  LET h == local[t].handle
         IN  /\ h \in BuffersOf(t) /\ h \in 0 .. (curBufSize - 1) /\ h \in Handle /\ h # NoHandle
             /\ buf[h].state = s /\ local[t] = Tensor(h)
<1> DEFINE h == local[t].handle
<1>1. h \in BuffersOf(t) /\ buf[h].state = s
  BY DEF Has
<1>2. local[t] = Tensor(h)
  BY DEF RunOK, VariablesOK, TensorsOfBuffers
<1>3. queue[t] \in TQueType(t) /\ QBUF_MAX_LEN \in Nat /\ Depth[t] \in Nat
      /\ curBufSize \in 0 .. QBUF_MAX_LEN
  BY TPipeAssumption DEF RunOK, BaseOK, PipeTypeOK
<1>4. queue[t].start \in Nat /\ queue[t].num \in Nat
  BY <1>3 DEF TQueType
<1>5. queue[t].start + queue[t].num <= curBufSize
  BY DEF RunOK, QueuesInTable
<1> HIDE DEF h
<1>6. h \in 0 .. (curBufSize - 1) /\ h \in Handle /\ h # NoHandle
  BY <1>1, <1>3, <1>4, <1>5 DEF BuffersOf, Handle, NoHandle
<1> QED
  BY <1>1, <1>2, <1>6 DEF h

LEMMA SomeBlock ==
  ASSUME NEW a \in Nat, NEW l \in Nat, l > 0
  PROVE  a \div ONE_BLK_SIZE \in BlocksOf(a, l)
  BY DEF BlocksOf, ONE_BLK_SIZE

\* The tensor of a buffer that is held is the whole buffer.
LEMMA HeldBuffer ==
  ASSUME InOrder, Q!MemoryWatched, block # -1, NEW p, NEW t \in Ready, Holds(p, t)
  PROVE  /\ Window(local[t]) \in Q!Operands(p)
         /\ Window(local[t]) # {}
         /\ Overflow(local[t]) = 0
<1> DEFINE h == local[t].handle
<1>1. t \in Queue /\ RunOK /\ Q!KInv /\ TileBytes > 0 /\ TileBytes \in Nat
  BY SharesTyped DEF Ready, Initialised, InOrder, RunOK, Q!Quiet, Holds
<1>2. PICK s : /\ Has(t, s)
               /\ \/ s = "OCCUPIED" /\ Producer(t) = p
                  \/ s = "DEQUE" /\ Consumer(t) = p
  BY DEF Holds
<1>3. /\ h \in BuffersOf(t) /\ h \in 0 .. (curBufSize - 1) /\ h \in Handle /\ h # NoHandle
      /\ buf[h].state = s /\ local[t] = Tensor(h)
  BY <1>1, <1>2, OwnBuffer
<1>4. buf[h].dataLen = TileBytes
  BY <1>3 DEF InOrder, BuffersHoldTiles
<1>5. buf[h] \in TBufType
  BY <1>1, <1>3 DEF RunOK, BaseOK, PipeTypeOK
<1>6. buf[h].address \in Nat /\ buf[h].hard \in Mem
  BY <1>5 DEF TBufType
<1> HIDE DEF h
<1>7. /\ local[t].hard = buf[h].hard /\ local[t].address = buf[h].address
      /\ local[t].dataLen = TileBytes
  BY <1>3, <1>4 DEF Tensor
<1>8. Reach(local[t], TileBytes) = BufferGranules(h)
  BY <1>1, <1>7, TileReach, <1>4 DEF BufferGranules
<1>9. BufferGranules(h) \subseteq Granule
  <2>1. h \in Q!BuffersOf(t)
    BY <1>3, SameState
  <2>2. Q!BufferGranules(h) \subseteq Granule
    BY <1>1, <2>1, Q!BufferWatched, QueueAssumptions
  <2> QED
    BY <2>2, SameState
<1>10. Window(local[t]) = BufferGranules(h)
  BY <1>8, <1>9 DEF Window
<1>11. BufferGranules(h) # {}
  <2>1. buf[h].address \div ONE_BLK_SIZE \in BlocksOf(buf[h].address, TileBytes)
    BY <1>1, <1>6, SomeBlock
  <2>2. <<buf[h].hard, buf[h].address \div ONE_BLK_SIZE>> \in BufferGranules(h)
    BY <1>4, <2>1 DEF BufferGranules
  <2> QED
    BY <2>2
<1>12. Overflow(local[t]) = 0
  BY <1>1, <1>7 DEF Overflow, OneIf, Fits
<1>13. h \in Q!Held(p)
  BY <1>2, <1>3, SameState DEF Q!Held
<1>14. BufferGranules(h) \in Q!Operands(p)
  BY <1>13, SameState DEF Q!Operands
<1> QED
  BY <1>10, <1>11, <1>12, <1>14

LEMMA InstructionWorks ==
  ASSUME NEW p, NEW src0 \in Q!Operands(p), NEW src1 \in Q!Operands(p), NEW dst \in Q!Operands(p),
         src0 \cup src1 \cup dst # {}, Instruction(p, src0, src1, dst, 0),
         UNCHANGED pipeVars, Ready' = Ready
  PROVE  Q!Work(p)
<1>1. Q!Instruction(p, src0, src1, dst, 0)
  BY SameInstruction
<1>2. UNCHANGED Q!pipeVars
  BY DEF pipeVars, Q!pipeVars
<1>3. -1 \notin Nat
  OBVIOUS
<1>4. UNCHANGED Q!kernelVars
  BY DEF Q!kernelVars
<1> QED
  BY <1>1, <1>2, <1>3, <1>4 DEF Q!Work

LEMMA NoOperand == \A p : {} \in Q!Operands(p)
  BY DEF Q!Operands

LEMMA DataIsWork ==
  ASSUME InOrder, Q!MemoryWatched, NextCall, CallInTurn(Kernel[pc]),
         Kernel[pc].op \in {"CopyIn", "Add", "CopyOut"}
  PROVE  \E p \in Pipe : Q!Work(p)
<1> DEFINE c == Kernel[pc]
<1>1. ~ destroyed /\ Do(c) /\ block # -1
  BY DEF NextCall, InProgress, InOrder, RunOK, ProgressOK
<1>2. Ready' = Ready
  BY ReadyAfterCall DEF InOrder, RunOK
<1>3. "MTE2" \in Pipe /\ "V" \in Pipe /\ "MTE3" \in Pipe
  BY KernelRunAssumption
<1>4. CASE c.op = "CopyIn"
  <2>1. c.on \in Ready /\ Holds("MTE2", c.on) /\ DoCopyIn(c.on)
    BY <1>1, <1>4 DEF CallInTurn, Do
  <2>2. /\ Window(local[c.on]) \in Q!Operands("MTE2")
        /\ Window(local[c.on]) # {}
        /\ Overflow(local[c.on]) = 0
    BY <1>1, <2>1, HeldBuffer
  <2>3. Instruction("MTE2", {}, {}, Window(local[c.on]), 0) /\ UNCHANGED pipeVars
    BY <2>1, <2>2 DEF DoCopyIn
  <2> HIDE DEF c
  <2> QED
    BY <1>2, <1>3, <2>2, <2>3, NoOperand, InstructionWorks
<1>5. CASE c.op = "Add"
  <2>1. "x" \in Ready /\ "y" \in Ready /\ c.on \in Ready /\ DoAdd(c.on)
        /\ Holds("V", "x") /\ Holds("V", "y") /\ Holds("V", c.on)
    BY <1>1, <1>5 DEF CallInTurn, Do
  <2>2. /\ Window(local["x"]) \in Q!Operands("V")
        /\ Window(local["y"]) \in Q!Operands("V")
        /\ Window(local[c.on]) \in Q!Operands("V")
        /\ Window(local[c.on]) # {}
        /\ Overflow(local[c.on]) = 0
    BY <1>1, <2>1, HeldBuffer
  <2>3. Instruction("V", Window(local["x"]), Window(local["y"]), Window(local[c.on]), 0)
        /\ UNCHANGED pipeVars
    BY <2>1, <2>2 DEF DoAdd
  <2> HIDE DEF c
  <2> QED
    BY <1>2, <1>3, <2>2, <2>3, InstructionWorks
<1>6. CASE c.op = "CopyOut"
  <2>1. c.on \in Ready /\ Holds("MTE3", c.on) /\ DoCopyOut(c.on)
    BY <1>1, <1>6 DEF CallInTurn, Do
  <2>2. /\ Window(local[c.on]) \in Q!Operands("MTE3")
        /\ Window(local[c.on]) # {}
        /\ Overflow(local[c.on]) = 0
    BY <1>1, <2>1, HeldBuffer
  <2>3. Instruction("MTE3", Window(local[c.on]), {}, {}, 0) /\ UNCHANGED pipeVars
    BY <2>1, <2>2 DEF DoCopyOut
  <2> HIDE DEF c
  <2> QED
    BY <1>2, <1>3, <2>2, <2>3, NoOperand, InstructionWorks
<1> QED
  BY <1>4, <1>5, <1>6

LEMMA OldestPublished ==
  ASSUME RunOK, Q!KInv, NEW q \in Ready, HasTensorInQue(q)
  PROVE  buf[OldestSlot(q)].state = "ENQUE"
<1>1. q \in Queue /\ queue[q] \in TQueType(q) /\ Depth[q] \in Nat \ {0}
  BY TPipeAssumption DEF Ready, Initialised, RunOK, BaseOK, PipeTypeOK
<1>2. queue[q].used \in Nat /\ queue[q].used > 0 /\ queue[q].head \in 0 .. (Depth[q] - 1)
  BY <1>1 DEF TQueType, HasTensorInQue
<1>3. 1 \in Q!Place(q)
  BY <1>2 DEF Q!Place
<1>4. buf[Q!Published(q)[1]].state = "ENQUE"
  BY <1>3 DEF Q!KInv, Q!RingOK
<1>5. (queue[q].head + 1 - 1) % Depth[q] = queue[q].head
  BY <1>1, <1>2, RingFirst
<1>6. Q!Published(q)[1] = queue[q].ring[(queue[q].head + 1 - 1) % Depth[q]]
  BY <1>2 DEF Q!Published
<1> QED
  BY <1>4, <1>5, <1>6 DEF OldestSlot

\* A call on a queue, in its turn, succeeds, and is one of QueueKernel's.
LEMMA CallIsMove ==
  ASSUME InOrder, NextCall, CallInTurn(Kernel[pc]),
         Kernel[pc].op \notin {"CopyIn", "Add", "CopyOut"}
  PROVE  LET q == Kernel[pc].on
             h == local[q].handle
         IN  /\ q \in Queue /\ UNCHANGED <<bufStart, eventVar>>
             /\ \/ Q!Prepare(q) /\ InitBuffer(q, BUFFER_NUM, TileBytes)
                \/ Q!Obtain(q) /\ AllocTensor(q)
                \/ h \in Handle /\ Q!Publish(q, h) /\ EnQue(q, h)
                \/ Q!Consume(q) /\ DeQue(q)
                \/ h \in Handle /\ Q!Recycle(q, h) /\ FreeTensor(q, h)
<1> DEFINE c == Kernel[pc]
           q == c.on
           h == local[q].handle
<1>1. Do(c) /\ c \in KernelCall /\ RunOK /\ ProgressOK /\ Q!KInv
  BY LaunchTyped DEF NextCall, InProgress, InOrder, RunOK, Q!Quiet
<1>2. Ready' = IF c.op = "InitBuffer" THEN Ready \cup {q} ELSE Ready
  BY <1>1, ReadyAfterCall
<1>3. UNCHANGED Q!kernelVars <=> Ready' = Ready
  BY DEF Q!kernelVars
<1>4. CASE c.op = "InitBuffer"
  <2>1. /\ q \in Queue /\ q \notin Ready /\ DoInitBuffer(q)
        /\ InitBufferFits(BufHardType[q], Depth[q], BUFFER_NUM, TileBytes)
    BY <1>1, <1>4, CallTyped DEF CallInTurn, Do, OnQueue
  <2>2. InitBuffer(q, BUFFER_NUM, TileBytes) /\ UNCHANGED <<bufStart, eventVar>>
    BY <2>1 DEF DoInitBuffer, InitBufferRefused
  <2>3. Q!InitBuffer(q, BUFFER_NUM, TileBytes)
    BY <2>2, SameInitBuffer
  <2>4. TileBytes \in TileSizes
    <3>1. launch \in DOMAIN Main /\ Launch = Main[launch]
      BY <1>1 DEF ProgressOK, Launch, Launches
    <3> QED
      BY <3>1 DEF TileSizes, TileBytes, TileLength, BlockLength
  <2>5. Q!Prepare(q)
    BY <1>2, <1>4, <2>1, <2>3, <2>4 DEF Q!Prepare
  <2> QED
    BY <2>1, <2>2, <2>5
<1>5. CASE c.op = "AllocTensor"
  <2>1. q \in Queue /\ Ready = Queue /\ HasIdleBuffer(q) /\ DoAllocTensor(q)
    BY <1>1, <1>5, CallTyped DEF CallInTurn, Do, OnQueue
  <2>2. AllocTensor(q) /\ UNCHANGED <<bufStart, eventVar>>
    BY <2>1 DEF DoAllocTensor, AllocTensorRefused
  <2>3. Q!Obtain(q)
    BY <1>2, <1>3, <1>5, <2>1, <2>2, SameAllocTensor DEF Q!Obtain
  <2> QED
    BY <2>1, <2>2, <2>3
<1>6. CASE c.op = "EnQue"
  <2>1. q \in Queue /\ q \in Ready /\ Has(q, "OCCUPIED") /\ VacantInQue(q) /\ DoEnQue(q)
    BY <1>1, <1>6, CallTyped DEF CallInTurn, Do, OnQueue
  <2>2. h \in BuffersOf(q) /\ h \in Handle /\ h # NoHandle /\ buf[h].state = "OCCUPIED"
    BY <1>1, <2>1, OwnBuffer
  <2>3. EnQue(q, h) /\ UNCHANGED <<bufStart, eventVar>>
    BY <2>1, <2>2 DEF DoEnQue, EnQueRefused
  <2>4. h \in Q!BuffersOf(q) /\ Q!EnQue(q, h)
    BY <2>2, <2>3, SameState, SameEnQue
  <2>5. Q!Publish(q, h)
    BY <1>2, <1>3, <1>6, <2>1, <2>4 DEF Q!Publish
  <2> QED
    BY <2>1, <2>2, <2>3, <2>5
<1>7. CASE c.op = "DeQue"
  <2>1. q \in Queue /\ q \in Ready /\ HasTensorInQue(q) /\ DoDeQue(q)
    BY <1>1, <1>7, CallTyped DEF CallInTurn, Do, OnQueue
  <2>2. buf[OldestSlot(q)].state = "ENQUE"
    BY <1>1, <2>1, OldestPublished
  <2>3. DeQue(q) /\ UNCHANGED <<bufStart, eventVar>>
    BY <2>1, <2>2 DEF DoDeQue, DeQueWrongState, DeQueEmpty
  <2>4. Q!Consume(q)
    BY <1>2, <1>3, <1>7, <2>1, <2>3, SameDeQue DEF Q!Consume
  <2> QED
    BY <2>1, <2>3, <2>4
<1>8. CASE c.op = "FreeTensor"
  <2>1. q \in Queue /\ q \in Ready /\ Has(q, "DEQUE") /\ DoFreeTensor(q)
    BY <1>1, <1>8, CallTyped DEF CallInTurn, Do, OnQueue
  <2>2. h \in BuffersOf(q) /\ h \in Handle /\ h # NoHandle /\ buf[h].state = "DEQUE"
    BY <1>1, <2>1, OwnBuffer
  <2>3. FreeTensor(q, h) /\ UNCHANGED <<bufStart, eventVar>>
    BY <2>1, <2>2 DEF DoFreeTensor, DoubleFree
  <2>4. h \in Q!BuffersOf(q) /\ Q!FreeTensor(q, h)
    BY <2>2, <2>3, SameState, SameFreeTensor
  <2>5. Q!Recycle(q, h)
    BY <1>2, <1>3, <1>8, <2>1, <2>2, <2>4 DEF Q!Recycle
  <2> QED
    BY <2>1, <2>2, <2>3, <2>5
<1> QED
  BY <1>4, <1>5, <1>6, <1>7, <1>8 DEF CallInTurn

LEMMA CallIsStep ==
  ASSUME InOrder, Q!MemoryWatched, NextCall, CallInTurn(Kernel[pc])
  PROVE  Q!Next
<1>1. ~ destroyed
  BY DEF NextCall, InProgress
<1>2. CASE Kernel[pc].op \in {"CopyIn", "Add", "CopyOut"}
  BY <1>1, <1>2, DataIsWork DEF Q!Next, Q!Step
<1>3. CASE Kernel[pc].op \notin {"CopyIn", "Add", "CopyOut"}
  <2> DEFINE h == local[Kernel[pc].on].handle
  <2>1. PICK q \in Queue :
               \/ Q!Prepare(q) \/ Q!Obtain(q) \/ Q!Consume(q)
               \/ h \in Handle /\ (Q!Publish(q, h) \/ Q!Recycle(q, h))
    BY <1>3, CallIsMove
  <2> HIDE DEF h
  <2> QED
    BY <1>1, <2>1, SameState DEF Q!Next, Q!Step
<1> QED
  BY <1>2, <1>3

-----------------------------------------------------------------------------
(* So is the end of a kernel, and the next block; the rest is not seen.    *)

LEMMA ReturnIsStep ==
  ASSUME InOrder, ReturnDrained, PlaysByTheRules
  PROVE  Q!Next
<1>1. Destroy /\ UNCHANGED runVars /\ pc = Len(Kernel) + 1 /\ ~ destroyed
  BY DEF ReturnDrained, Return, Destroy
<1>2. Leaked = {}
  BY <1>1 DEF PlaysByTheRules
<1>3. Ready' = Ready
  BY <1>1 DEF runVars, Ready, Initialised, Kernel, Launch
<1>4. Q!Finish
  BY <1>1, <1>2, <1>3, SameState, SameDestroy DEF Q!Finish, Q!kernelVars
<1> QED
  BY <1>1, <1>4 DEF Q!Next, Q!Step

LEMMA NextBlockIsStep ==
  ASSUME RunOK, NextBlock
  PROVE  Q!Next
<1>1. NextKernel /\ block' = block + 1 /\ pc' = 1 /\ launch' = launch
  BY DEF NextBlock
<1>2. Kernel \in Seq(KernelCall) /\ Launch.blocks \in Nat
  BY LaunchTyped DEF RunOK, KernelLaunches
<1>3. block' # -1 /\ Kernel' = Kernel
  BY <1>1, <1>2 DEF RunOK, ProgressOK, Kernel, Launch
<1>4. Ready' = Initialised(SubSeq(Kernel, 1, 0))
  BY <1>1, <1>3 DEF Ready, Initialised
<1>5. DOMAIN SubSeq(Kernel, 1, 0) = {}
  BY <1>2
<1>6. Ready' = {}
  BY <1>4, <1>5 DEF Initialised
<1> QED
  BY <1>1, <1>6, SameNextKernel DEF Q!Next, Q!Restart

\* A silent queue kernel: clearing the count of its reports changes nothing.
LEMMA NextLaunchUnseen ==
  ASSUME InOrder, NextLaunch
  PROVE  UNCHANGED Q!vars
<1>1. ClearSyncErrors /\ UNCHANGED pipeVars /\ syncErrors = 0
  BY DEF NextLaunch, InOrder, Q!Quiet, Q!SInv
<1>2. UNCHANGED coreVars
  BY <1>1 DEF ClearSyncErrors, coreVars
<1>3. Ready' = Ready
  BY ReadyBetweenLaunches DEF InOrder
<1> QED
  BY <1>1, <1>2, <1>3, SameVars DEF Q!vars, Q!coreVars, Q!pipeVars, coreVars, pipeVars

LEMMA PipesUnseen ==
  ASSUME UNCHANGED <<coreVars, pipeVars, runVars>>
  PROVE  UNCHANGED Q!vars
<1>1. Ready' = Ready
  BY DEF runVars, Ready, Initialised, Kernel, Launch
<1> QED
  BY <1>1 DEF Q!vars, Q!coreVars, Q!pipeVars, coreVars, pipeVars

LEMMA QueueStep ==
  ASSUME InOrder, Q!MemoryWatched, PlaysByTheRules, [Next]_vars
  PROVE  [Q!Next]_Q!vars
<1>1. CASE Issue
  <2>1. NextCall /\ CallInTurn(Kernel[pc]) /\ block # -1
    BY <1>1 DEF Issue, NextCall, PlaysByTheRules, InProgress, InOrder, RunOK, ProgressOK
  <2> QED
    BY <2>1, CallIsStep
<1>2. CASE ReturnDrained
  BY <1>2, ReturnIsStep
<1>3. CASE StartBlock
  BY <1>3, NextBlockIsStep DEF StartBlock, InOrder
<1>4. CASE StartLaunch
  BY <1>4, NextLaunchUnseen DEF StartLaunch
<1>5. CASE (\E p \in Pipe : RunPipe(p)) \/ Finished \/ UNCHANGED vars
  <2>1. UNCHANGED <<coreVars, pipeVars, runVars>>
    BY <1>5 DEF RunPipe, Start, Complete, Raise, Await, Finished, vars
  <2> QED
    BY <2>1, PipesUnseen
<1> QED
  BY <1>1, <1>2, <1>3, <1>4, <1>5 DEF Next, Host

-----------------------------------------------------------------------------
(* It stays in order.                                                      *)

\* The buffers a TPipe has handed out keep their length.
LEMMA LengthsKept ==
  ASSUME RunOK, BuffersHoldTiles, InPlace, UNCHANGED <<curBufSize, launch, block>>
  PROVE  BuffersHoldTiles'
<1> SUFFICES ASSUME block # -1, NEW h \in 0 .. (curBufSize - 1)
             PROVE  buf'[h].dataLen = TileBytes
  BY DEF BuffersHoldTiles, TileBytes, TileLength, BlockLength, Launch
<1>1. h \in HandlesOut /\ h # NoHandle
  BY DEF HandlesOut, NoHandle
<1>2. h \in Handle
  BY <1>1, OutIsHandle DEF RunOK, BaseOK
<1> QED
  BY <1>2 DEF InPlace, BuffersHoldTiles

LEMMA LengthsCarved ==
  ASSUME RunOK, RunOK', BuffersHoldTiles, NEW m, CarveBuffers(m, BUFFER_NUM, TileBytes),
         UNCHANGED <<launch, block>>
  PROVE  BuffersHoldTiles'
<1>1. /\ curBufSize \in Nat /\ BUFFER_NUM \in Nat /\ curBufSize' = curBufSize + BUFFER_NUM
      /\ curBufSize' \in 0 .. QBUF_MAX_LEN /\ QBUF_MAX_LEN \in Nat
  <2>1. PipeTypeOK /\ PipeTypeOK'
    BY DEF RunOK, BaseOK
  <2>2. curBufSize \in 0 .. QBUF_MAX_LEN /\ curBufSize' \in 0 .. QBUF_MAX_LEN
    BY <2>1 DEF PipeTypeOK
  <2>3. curBufSize' = curBufSize + BUFFER_NUM
    BY DEF CarveBuffers
  <2> QED
    BY <2>2, <2>3, TPipeAssumption, KernelRunAssumption
<1> SUFFICES ASSUME block # -1, NEW h \in 0 .. (curBufSize' - 1)
             PROVE  buf'[h].dataLen = TileBytes
  BY DEF BuffersHoldTiles, TileBytes, TileLength, BlockLength, Launch
<1>2. h \in Handle
  BY <1>1 DEF Handle
<1>3. CASE h \in curBufSize .. (curBufSize + BUFFER_NUM - 1)
  BY <1>2, <1>3 DEF CarveBuffers, NewBuffer
<1>4. CASE h \notin curBufSize .. (curBufSize + BUFFER_NUM - 1)
  <2>1. h \in 0 .. (curBufSize - 1)
    BY <1>1, <1>4
  <2>2. buf'[h] = buf[h]
    BY <1>2, <1>4 DEF CarveBuffers
  <2> QED
    BY <2>1, <2>2 DEF BuffersHoldTiles
<1> QED
  BY <1>3, <1>4

LEMMA LengthsAfterCall ==
  ASSUME InOrder, Q!MemoryWatched, NextCall, CallInTurn(Kernel[pc])
  PROVE  BuffersHoldTiles'
<1>1. /\ RunOK /\ RunOK' /\ BuffersHoldTiles /\ BaseOK /\ UNCHANGED <<launch, block>>
      /\ ~ destroyed /\ Do(Kernel[pc])
  BY RunOKNextCall DEF InOrder, RunOK, NextCall, InProgress
<1>2. CASE Kernel[pc].op \in {"CopyIn", "Add", "CopyOut"}
  <2>1. UNCHANGED <<buf, curBufSize>>
    BY <1>1, <1>2 DEF Do, DoCopyIn, DoAdd, DoCopyOut, pipeVars
  <2> QED
    BY <1>1, <2>1, LengthsKept DEF InPlace
<1>3. CASE Kernel[pc].op \notin {"CopyIn", "Add", "CopyOut"}
  <2> DEFINE q == Kernel[pc].on
             h == local[q].handle
  <2>1. /\ q \in Queue
        /\ \/ InitBuffer(q, BUFFER_NUM, TileBytes)
           \/ AllocTensor(q) \/ DeQue(q)
           \/ h \in Handle /\ (EnQue(q, h) \/ FreeTensor(q, h))
    BY <1>3, CallIsMove
  <2> HIDE DEF q, h
  <2>2. CASE InitBuffer(q, BUFFER_NUM, TileBytes)
    BY <1>1, <2>2, LengthsCarved DEF InitBuffer
  <2>3. ASSUME NEW k \in Handle, AllocTensor(q) \/ EnQue(q, k) \/ DeQue(q) \/ FreeTensor(q, k)
        PROVE  BuffersHoldTiles'
    <3>1. InPlace
      BY <1>1, <2>1, <2>3, BaseQueueCall
    <3>2. UNCHANGED curBufSize
      BY <2>3 DEF AllocTensor, EnQue, DeQue, FreeTensor
    <3> QED
      BY <1>1, <3>1, <3>2, LengthsKept
  <2>4. 0 \in Handle
    BY TPipeAssumption DEF Handle
  <2> QED
    BY <2>1, <2>2, <2>3, <2>4
<1> QED
  BY <1>2, <1>3

LEMMA LengthsStep ==
  ASSUME InOrder, Q!MemoryWatched, PlaysByTheRules, [Next]_vars
  PROVE  BuffersHoldTiles'
<1>1. CASE Issue
  <2>1. NextCall /\ CallInTurn(Kernel[pc])
    BY <1>1 DEF Issue, NextCall, PlaysByTheRules
  <2> QED
    BY <2>1, LengthsAfterCall
<1>2. CASE ReturnDrained
  <2>1. Destroy /\ UNCHANGED <<launch, block>> /\ RunOK /\ BuffersHoldTiles /\ BaseOK
    BY <1>2 DEF ReturnDrained, Return, runVars, InOrder, RunOK
  <2>2. InPlace /\ UNCHANGED curBufSize
    BY <2>1, BaseDestroy DEF Destroy
  <2> QED
    BY <2>1, <2>2, LengthsKept
<1>3. CASE StartBlock
  BY <1>3 DEF StartBlock, NextBlock, NextKernel, BuffersHoldTiles
<1>4. CASE StartLaunch
  BY <1>4 DEF StartLaunch, NextLaunch, BuffersHoldTiles
<1>5. CASE (\E p \in Pipe : RunPipe(p)) \/ Finished \/ UNCHANGED vars
  <2>1. UNCHANGED <<buf, curBufSize, launch, block>>
    BY <1>5 DEF RunPipe, Start, Complete, Raise, Await, Finished, vars, pipeVars, runVars
  <2> QED
    BY <2>1, LengthsKept DEF InOrder, InPlace
<1> QED
  BY <1>1, <1>2, <1>3, <1>4, <1>5 DEF Next, Host

LEMMA EndsAtEndStep ==
  ASSUME RunOK, EndsAtEnd, [Next]_vars
  PROVE  EndsAtEnd'
<1>1. CASE Issue
  <2>1. ~ destroyed /\ Kernel[pc] \in KernelCall /\ Do(Kernel[pc])
    BY <1>1, LaunchTyped DEF Issue, NextCall, InProgress, RunOK
  <2>2. destroyed' = destroyed
    BY <2>1, CallKeepsRunOK DEF CallDone
  <2> QED
    BY <2>1, <2>2 DEF EndsAtEnd
<1>2. CASE ReturnDrained
  BY <1>2 DEF ReturnDrained, Return, runVars, EndsAtEnd, Kernel, Launch
<1>3. CASE StartBlock
  BY <1>3 DEF StartBlock, NextBlock, NextKernel, EndsAtEnd
<1>4. CASE StartLaunch
  BY <1>4 DEF StartLaunch, NextLaunch, EndsAtEnd
<1>5. CASE (\E p \in Pipe : RunPipe(p)) \/ Finished \/ UNCHANGED vars
  BY <1>5 DEF RunPipe, Start, Complete, Raise, Await, Finished, vars, pipeVars, runVars, EndsAtEnd,
              Kernel, Launch
<1> QED
  BY <1>1, <1>2, <1>3, <1>4, <1>5 DEF Next, Host

LEMMA SameLayout == Queues!Proper => Q!Proper
<1>1. \A S : Q!Cardinality(S) = Queues!Cardinality(S)
  BY DEF Q!Cardinality, Queues!Cardinality
<1>2. \A S : Q!IsFiniteSet(S) = Queues!IsFiniteSet(S)
  BY DEF Q!IsFiniteSet, Queues!IsFiniteSet
<1>3. \A e \in Event : Q!SlotsOf(e) = Queues!SlotsOf(e)
  BY DEF Q!SlotsOf, Queues!SlotsOf, Q!Users, Queues!Users
<1>4. Queues!BackEventsReturn => Q!BackEventsReturn
  BY SameState DEF Queues!BackEventsReturn, Q!BackEventsReturn
<1>5. Queues!EnoughIds => Q!EnoughIds
  BY <1>1, <1>2, <1>3 DEF Queues!EnoughIds, Q!EnoughIds
<1>6. Queues!MemoryWatched => Q!MemoryWatched
  BY DEF Queues!MemoryWatched, Q!MemoryWatched, Queues!BlocksOf, Q!BlocksOf,
         Queues!ONE_BLK_SIZE, Q!ONE_BLK_SIZE, Queues!Mem, Q!Mem
<1> QED
  BY <1>4, <1>5, <1>6 DEF Queues!Proper, Q!Proper

\* What a queue kernel may do, as QueueKernel states it.
LEMMA SameOperands ==
  ASSUME NEW p
  PROVE  Queues!Operands(p) = Q!Operands(p)
<1>1. Queues!Held(p) = Q!Held(p)
  BY SameState DEF Queues!Held, Q!Held
<1> QED
  BY <1>1, SameState DEF Queues!Operands, Q!Operands

LEMMA SameWork ==
  ASSUME NEW p \in Pipe, Q!Work(p)
  PROVE  Queues!Work(p)
<1>1. PICK src0, src1, dst \in Q!Operands(p) :
        /\ src0 \cup src1 \cup dst # {}
        /\ Q!Instruction(p, src0, src1, dst, 0)
        /\ UNCHANGED <<Q!pipeVars, Q!kernelVars>>
  BY DEF Q!Work
<1>2. Queues!Instruction(p, src0, src1, dst, 0)
  BY <1>1, SameInstruction
<1>3. UNCHANGED <<Queues!pipeVars, Queues!kernelVars>>
  BY <1>1 DEF Q!pipeVars, Queues!pipeVars, Q!kernelVars, Queues!kernelVars
<1>4. -1 \notin Nat
  OBVIOUS
<1> QED
  BY <1>1, <1>2, <1>3, <1>4, SameOperands DEF Queues!Work

LEMMA SameMoves ==
  /\ \A q \in Queue : Q!Prepare(q) => Queues!Prepare(q)
  /\ \A q \in Queue : Q!Obtain(q) => Queues!Obtain(q)
  /\ \A q \in Queue : Q!Consume(q) => Queues!Consume(q)
  /\ \A q \in Queue, h \in Handle : Q!Publish(q, h) => Queues!Publish(q, h)
  /\ \A q \in Queue, h \in Handle : Q!Recycle(q, h) => Queues!Recycle(q, h)
<1>1. ASSUME NEW q \in Queue, Q!Prepare(q) PROVE Queues!Prepare(q)
  BY <1>1, SameInitBuffer DEF Q!Prepare, Queues!Prepare
<1>2. ASSUME NEW q \in Queue, Q!Obtain(q) PROVE Queues!Obtain(q)
  BY <1>2, SameAllocTensor DEF Q!Obtain, Queues!Obtain, Q!kernelVars, Queues!kernelVars
<1>3. ASSUME NEW q \in Queue, Q!Consume(q) PROVE Queues!Consume(q)
  BY <1>3, SameDeQue DEF Q!Consume, Queues!Consume, Q!kernelVars, Queues!kernelVars
<1>4. ASSUME NEW q \in Queue, NEW h \in Handle, Q!Publish(q, h) PROVE Queues!Publish(q, h)
  BY <1>4, SameState, SameEnQue DEF Q!Publish, Queues!Publish, Q!kernelVars, Queues!kernelVars
<1>5. ASSUME NEW q \in Queue, NEW h \in Handle, Q!Recycle(q, h) PROVE Queues!Recycle(q, h)
  BY <1>5, SameState, SameFreeTensor DEF Q!Recycle, Queues!Recycle, Q!kernelVars, Queues!kernelVars
<1> QED
  BY <1>1, <1>2, <1>3, <1>4, <1>5

LEMMA SameNext == [Q!Next]_Q!vars => [Queues!Next]_Queues!vars
<1>1. ASSUME NEW p \in Pipe, ~ destroyed, Q!Work(p) PROVE Queues!Next
  BY <1>1, SameWork DEF Queues!Next, Queues!Step
<1>2. ASSUME ~ destroyed, NEW q \in Queue, Q!Prepare(q) \/ Q!Obtain(q) \/ Q!Consume(q)
      PROVE  Queues!Next
  BY <1>2, SameMoves DEF Queues!Next, Queues!Step
<1>3. ASSUME ~ destroyed, NEW q \in Queue, NEW h \in Handle, Q!Publish(q, h) \/ Q!Recycle(q, h)
      PROVE  Queues!Next
  BY <1>3, SameState, SameMoves DEF Queues!Next, Queues!Step
<1>4. ~ Q!NextPhase
  BY DEF Q!NextPhase
<1>5. ~ destroyed /\ Q!Finish => Queues!Next
  BY SameState, SameDestroy
     DEF Q!Finish, Queues!Finish, Queues!Next, Queues!Step, Q!kernelVars, Queues!kernelVars
<1>6. Q!Restart => Queues!Next
  BY SameNextKernel DEF Q!Restart, Queues!Restart, Queues!Next
<1>7. Q!Handle = Handle
  BY SameState
<1>8. UNCHANGED Q!vars => UNCHANGED Queues!vars
  BY DEF Q!vars, Queues!vars, Q!coreVars, Queues!coreVars, Q!pipeVars, Queues!pipeVars
<1> QED
  BY <1>1, <1>2, <1>3, <1>4, <1>5, <1>6, <1>7, <1>8 DEF Q!Next, Q!Step

-----------------------------------------------------------------------------
(* What that makes of the program.                                         *)

LEMMA InOrderInit == Init => InOrder /\ Queues!Init
<1> SUFFICES ASSUME Init PROVE InOrder /\ Queues!Init
  OBVIOUS
<1>1. RunOK /\ block = 0 /\ pc = 1 /\ CoreInit /\ PipeInit
  BY RunOKInit DEF Init, RunInit
<1>2. ~ destroyed /\ curBufSize = 0
  BY <1>1 DEF PipeInit
<1>3. Ready = {}
  BY <1>1, ReadyAtStart DEF RunOK
<1>4. Q!Init /\ Queues!Init
  BY <1>1, <1>3, SameInit DEF Q!Init, Queues!Init
<1>5. Q!KInv /\ Q!EInv /\ Q!NoLeak
  BY <1>4, QueueAssumptions, Q!KInvInit, Q!EInvInit, Q!NoLeakInit
<1>6. Q!SInv
  BY <1>3, <1>4, QueueAssumptions, Q!CleanStart DEF Q!Init, Q!CoreInit
<1>7. BuffersHoldTiles /\ EndsAtEnd
  BY <1>2 DEF BuffersHoldTiles, EndsAtEnd
<1> QED
  BY <1>1, <1>4, <1>5, <1>6, <1>7 DEF InOrder, Q!Quiet

LEMMA WatchedNext ==
  ASSUME Q!MemoryWatched
  PROVE  Q!KInv' => Q!Watched'
<1>1. Q!KInv => Q!Watched
  BY QueueAssumptions, Q!BufferWatched DEF Q!Watched
<1> QED
  BY <1>1, PTL

LEMMA InOrderStep ==
  ASSUME Q!Proper
  PROVE  PipesOK /\ PipesOK' /\ InOrder /\ PlaysByTheRules /\ [Next]_vars
           => InOrder' /\ [Q!Next]_Q!vars
<1> SUFFICES ASSUME PipesOK, PipesOK', InOrder, PlaysByTheRules, [Next]_vars
             PROVE  InOrder' /\ [Q!Next]_Q!vars
  OBVIOUS
<1>1. Q!MemoryWatched
  BY DEF Q!Proper
<1>2. [Q!Next]_Q!vars
  BY <1>1, QueueStep
<1>3. RunOK' /\ BuffersHoldTiles' /\ EndsAtEnd'
  BY <1>1, LengthsStep, EndsAtEndStep DEF PipesOK, InOrder
<1>4. Q!KInv /\ Q!EInv /\ Q!NoLeak
  BY DEF InOrder, Q!Quiet
<1>5. Q!KInv'
  BY <1>2, <1>4, QueueAssumptions, Q!KInvStep
<1>6. Q!EInv'
  BY <1>2, <1>4, QueueAssumptions, Q!EInvStep
<1>7. Q!NoLeak'
  BY <1>2, <1>4, QueueAssumptions, Q!NoLeakStep
<1>8. Q!SInv'
  BY <1>1, <1>2, <1>5, QueueAssumptions, WatchedNext, Q!SInvStep DEF InOrder
<1> QED
  BY <1>2, <1>3, <1>5, <1>6, <1>7, <1>8 DEF InOrder, Q!Quiet

\* A program that plays by the rules of its queues is a queue kernel, launch
\* after launch, if its events have ids for all its buffers, lead back to the
\* producers, and all of memory is watched.
THEOREM QueuedProgramsAreQueueKernels ==
  ASSUME Queues!Proper
  PROVE  Spec /\ []PlaysByTheRules => ActsAsQueueKernel
<1>1. Init => InOrder /\ Queues!Init
  BY InOrderInit
<1>2. PipesOK /\ PipesOK' /\ InOrder /\ PlaysByTheRules /\ [Next]_vars
        => InOrder' /\ [Queues!Next]_Queues!vars
  BY SameLayout, InOrderStep, SameNext
<1> QED
  BY <1>1, <1>2, PipesOKAlways, PTL DEF Spec, ActsAsQueueKernel, Queues!Spec

\* The simulator then never reports anything, whatever the kernels compute.
THEOREM QueuedProgramsAreSilent ==
  ASSUME Queues!Proper
  PROVE  Spec /\ []PlaysByTheRules => []Queues!NoReports
<1>1. Init => InOrder
  BY InOrderInit
<1>2. PipesOK /\ PipesOK' /\ InOrder /\ PlaysByTheRules /\ [Next]_vars => InOrder'
  BY SameLayout, InOrderStep
<1>3. InOrder => Queues!NoReports
  BY DEF InOrder, Q!Quiet, Q!SInv, Queues!NoReports
<1> QED
  BY <1>1, <1>2, <1>3, PipesOKAlways, PTL DEF Spec

-----------------------------------------------------------------------------
(* Programs on their queues.                                               *)

LEMMA QueuedAlways ==
  ASSUME Queues!Proper
  PROVE  CheckedSpec /\ []PlaysByTheRules => [](syncErrors = 0)
<1>1. Spec /\ []PlaysByTheRules => []Queues!NoReports
  BY QueuedProgramsAreSilent
<1>2. Queues!NoReports => syncErrors = 0
  BY DEF Queues!NoReports
<1> QED
  BY <1>1, <1>2, CheckedImplementsPipes, PTL

\* A program that plays by the rules of its queues: a pipe starts nothing before
\* what it depends on is over, in whatever order the pipes run.  Nothing is said
\* of reports: there are none.
THEOREM QueuedProgramsKeepOrder ==
  ASSUME Queues!Proper
  PROVE  CheckedSpec /\ []PlaysByTheRules =>
           [](\A p \in inFlight, q \in Pipe : p # q =>
                \A n \in DOMAIN fifo[q], g \in Granule : notes[q][n].at < notes[p][1].at =>
                  /\ g \in Targets(fifo[q][n]) => g \notin Sources(First(p)) \cup Targets(First(p))
                  /\ g \in Sources(fifo[q][n]) /\ g \in Targets(First(p)) => Shared(g))
<1>1. AcceptedOrderIsKept /\ syncErrors = 0 =>
        \A p \in inFlight, q \in Pipe : p # q =>
          \A n \in DOMAIN fifo[q], g \in Granule : notes[q][n].at < notes[p][1].at =>
            /\ g \in Targets(fifo[q][n]) => g \notin Sources(First(p)) \cup Targets(First(p))
            /\ g \in Sources(fifo[q][n]) /\ g \in Targets(First(p)) => Shared(g)
  BY DEF AcceptedOrderIsKept
<1> QED
  BY <1>1, OrderIsKept, QueuedAlways, PTL

\* What it computes on the pipes is what it computed on the simulator, and the
\* pipes never all wait, unless a register was too full to be raised.
THEOREM QueuedProgramsComputeAlike ==
  ASSUME Queues!Proper
  PROVE  CheckedSpec /\ []PlaysByTheRules =>
           /\ [](~ shared /\ Drained => z = result /\ (~ destroyed => ub = memory))
           /\ [](RaisesKept /\ ~ Drained => \E p \in Pipe : CanGo(p))
<1>1. SameAsSimulated /\ syncErrors = 0 =>
        (~ shared /\ Drained => z = result /\ (~ destroyed => ub = memory))
  BY DEF SameAsSimulated
<1>2. PipesMoveOn /\ syncErrors = 0 => (RaisesKept /\ ~ Drained => \E p \in Pipe : CanGo(p))
  BY DEF PipesMoveOn
<1> QED
  BY <1>1, <1>2, PassedIsComputed, PipesNeverStuck, QueuedAlways, PTL
=============================================================================
