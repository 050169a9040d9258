------------------------------- MODULE TPipe --------------------------------
(***************************************************************************)
(* TPipe and TQueBind (kernel_tpipe.h) on top of the simulated core: the   *)
(* bump allocator that carves buffers out of local memory, the pool of     *)
(* event ids, and the queues with the life cycle of their buffers.         *)
(*                                                                         *)
(* Every call is one action, the flag operation and the reports it makes   *)
(* included, for any argument: what a kernel may sensibly call is decided  *)
(* by the modules that extend this one.  A buffer handle is the index of   *)
(* its descriptor; the calls that get a null handle return at once.        *)
(***************************************************************************)
EXTENDS SyncCore, Blocks, FiniteSetsExt

CONSTANTS
  Queue,          \* the queues of the kernel
  EnQueEvt,       \* queue -> event of EnQue/DeQue
  FreeBufEvt,     \* queue -> event of FreeTensor/AllocTensor
  Depth,          \* queue -> its template argument, the size of the ring
  BufHardType,    \* queue -> the memory its buffers are carved from
  HardwareSize,   \* memory -> its size in bytes
  QBUF_MAX_LEN    \* buffer descriptors of one TPipe

Mem    == DOMAIN HardwareSize
Handle == 0 .. (QBUF_MAX_LEN - 1)

ASSUME TPipeAssumption ==
  /\ EnQueEvt \in [Queue -> Event]
  /\ FreeBufEvt \in [Queue -> Event]
  /\ Depth \in [Queue -> Nat \ {0}]
  /\ BufHardType \in [Queue -> Mem]
  /\ HardwareSize \in [Mem -> Nat] /\ Mem # {}
  /\ QBUF_MAX_LEN \in Nat \ {0}

VARIABLES
  buf,           \* buf[h]: the buffer descriptors
  curBufSize,    \* descriptors handed out so far
  maxAddr,       \* maxAddr[m]: bytes of memory m handed out so far
  eventOccupy,   \* eventOccupy[e]: the ids of event e taken from the pool
  destroyed,     \* the TPipe has drained
  queue          \* queue[q]: the bookkeeping of one TQue

pipeVars == <<buf, curBufSize, maxAddr, eventOccupy, destroyed, queue>>

TBufState == {"FREE", "OCCUPIED", "ENQUE", "DEQUE"}
TEventID  == EventId \cup {INVALID_TEVENTID}

TBufType == [state : TBufState, hard : Mem, address : Nat, dataLen : Nat,
             enQueEvtID : TEventID, freeBufEvtID : TEventID]

\* used is bounded by the ring, not by the buffers: a handle may sit in the
\* ring more than once.  A queue given no buffers may start past the last one.
TQueType(q) == [start : 0 .. QBUF_MAX_LEN, num : 0 .. Depth[q], cursor : Nat,
                ring : [0 .. (Depth[q] - 1) -> Handle],
                head : 0 .. (Depth[q] - 1), tail : 0 .. (Depth[q] - 1), used : 0 .. Depth[q]]

PipeTypeOK ==
  /\ buf \in [Handle -> TBufType]
  /\ curBufSize \in 0 .. QBUF_MAX_LEN
  /\ maxAddr \in [Mem -> Nat]
  /\ eventOccupy \in [Event -> SUBSET EventId]
  /\ destroyed \in BOOLEAN
  /\ queue = [q \in Queue |-> queue[q]]
  /\ \A q \in Queue : queue[q] \in TQueType(q)

\* A TPipe and its queues as their constructors leave them.
NewBuffer == [state |-> "FREE", hard |-> CHOOSE m \in Mem : TRUE, address |-> 0, dataLen |-> 0,
              enQueEvtID |-> INVALID_TEVENTID, freeBufEvtID |-> INVALID_TEVENTID]

NewQueue(q) == [start |-> 0, num |-> 0, cursor |-> 0,
                ring |-> [i \in 0 .. (Depth[q] - 1) |-> 0], head |-> 0, tail |-> 0, used |-> 0]

NewPipe ==
  [buf         |-> [h \in Handle |-> NewBuffer],
   maxAddr     |-> [m \in Mem |-> 0],
   eventOccupy |-> [e \in Event |-> {}],
   queue       |-> [q \in Queue |-> NewQueue(q)]]

PipeInit ==
  /\ buf = NewPipe.buf
  /\ curBufSize = 0
  /\ maxAddr = NewPipe.maxAddr
  /\ eventOccupy = NewPipe.eventOccupy
  /\ destroyed = FALSE
  /\ queue = NewPipe.queue

\* A call that only complains.
Refuse(n) ==
  /\ ReportSyncErrors(n)
  /\ UNCHANGED <<clock, view, flags, gran, checkMode, pipeVars>>

-----------------------------------------------------------------------------
(* The pool of event ids: lowest free id first.                            *)

IdleEventIDs(e) == EventId \ eventOccupy[e]

NextEventID(e) == IF IdleEventIDs(e) = {} THEN INVALID_TEVENTID ELSE Min(IdleEventIDs(e))

AllocEventIDErrors(e) == OneIf(IdleEventIDs(e) = {})

\* Mutant: the id is handed out but not marked.
OccupyNothing(e) == eventOccupy

OccupyAfterAlloc(e) == [eventOccupy EXCEPT ![e] = @ \cup ({NextEventID(e)} \cap EventId)]

\* Mutant: the id is never given back.
OccupyForever(e, id) == eventOccupy

OccupyAfterRelease(e, id) == [eventOccupy EXCEPT ![e] = @ \ {id}]

-----------------------------------------------------------------------------
(* TPipe.                                                                  *)

\* Mutant: one descriptor too many.
InitBufferFitsOneMore(hard, depth, num, len) ==
  /\ len % ONE_BLK_SIZE = 0
  /\ num <= depth
  /\ curBufSize + num <= QBUF_MAX_LEN + 1
  /\ maxAddr[hard] + num * len <= HardwareSize[hard]

InitBufferFits(hard, depth, num, len) ==
  /\ len % ONE_BLK_SIZE = 0
  /\ num <= depth
  /\ curBufSize + num <= QBUF_MAX_LEN
  /\ maxAddr[hard] + num * len <= HardwareSize[hard]

\* num buffers of len bytes from the end of what was handed out so far.
CarveBuffers(hard, num, len) ==
  /\ buf' = [h \in Handle |->
       IF h \in curBufSize .. (curBufSize + num - 1)
         THEN [NewBuffer EXCEPT !.hard = hard, !.dataLen = len,
                                !.address = maxAddr[hard] + (h - curBufSize) * len]
         ELSE buf[h]]
  /\ maxAddr' = [maxAddr EXCEPT ![hard] = @ + num * len]
  /\ curBufSize' = curBufSize + num
  /\ UNCHANGED <<coreVars, eventOccupy, destroyed>>

\* Buffers for q, whatever q held before.
InitBuffer(q, num, len) ==
  /\ InitBufferFits(BufHardType[q], Depth[q], num, len)
  /\ CarveBuffers(BufHardType[q], num, len)
  /\ queue' = [queue EXCEPT ![q].start = curBufSize, ![q].num = num, ![q].cursor = 0,
                            ![q].head = 0, ![q].tail = 0, ![q].used = 0]

InitBufferRefused(q, num, len) ==
  ~ InitBufferFits(BufHardType[q], Depth[q], num, len) /\ Refuse(1)

\* A TBuf is one buffer of memory hard, with no queue and no events.
InitTBuf(hard, len)        == InitBufferFits(hard, 1, 1, len) /\ CarveBuffers(hard, 1, len)
                              /\ UNCHANGED queue
InitTBufRefused(hard, len) == ~ InitBufferFits(hard, 1, 1, len) /\ Refuse(1)

\* Mutant: memory is given back, the descriptors are not.
ResetMemoryOnly ==
  /\ maxAddr' = NewPipe.maxAddr
  /\ UNCHANGED <<coreVars, buf, curBufSize, eventOccupy, destroyed, queue>>

\* TPipe::Reset gives back memory and descriptors, and nothing else: the
\* descriptors, the occupied event ids and the raised flags stay as they are.
Reset ==
  /\ maxAddr' = NewPipe.maxAddr
  /\ curBufSize' = 0
  /\ UNCHANGED <<coreVars, buf, eventOccupy, destroyed, queue>>

Leaked == {h \in 0 .. (curBufSize - 1) : buf[h].state # "FREE"}

Destroy ==
  /\ ~ destroyed
  /\ destroyed' = TRUE
  /\ buf' = [h \in Handle |-> IF h < curBufSize
                                THEN [buf[h] EXCEPT !.freeBufEvtID = INVALID_TEVENTID]
                                ELSE buf[h]]
  /\ flags' = [e \in Event |-> [id \in EventId |-> [flags[e][id] EXCEPT !.pending = FALSE]]]
  /\ ReportSyncErrors(Cardinality(Leaked))
  /\ UNCHANGED <<clock, view, gran, checkMode, curBufSize, maxAddr, eventOccupy, queue>>

-----------------------------------------------------------------------------
(* TQueBind.                                                               *)

SlotAfter(q, i) == queue[q].start + ((queue[q].cursor + i) % queue[q].num)

\* Mutant: the slot under the cursor is taken whatever its state.
AnyOffsets(q) == 0 .. (queue[q].num - 1)

\* How far behind the cursor the search finds its first FREE buffers.
IdleOffsets(q) == {i \in 0 .. (queue[q].num - 1) : buf[SlotAfter(q, i)].state = "FREE"}

HasIdleBuffer(q) == IdleOffsets(q) # {}
HasTensorInQue(q) == queue[q].used > 0
VacantInQue(q) == queue[q].used < Depth[q]

\* The buffers the next AllocTensor and the next DeQue hand out.
IdleSlot(q)   == SlotAfter(q, Min(IdleOffsets(q)))
OldestSlot(q) == queue[q].ring[queue[q].head]

\* The next FREE buffer, once its last consumer is known to be done with it.
AllocTensor(q) ==
  LET h  == IdleSlot(q)
      e  == FreeBufEvt[q]
      id == buf[h].freeBufEvtID
  IN  /\ HasIdleBuffer(q)
      /\ buf' = [buf EXCEPT ![h].state = "OCCUPIED", ![h].freeBufEvtID = INVALID_TEVENTID]
      /\ queue' = [queue EXCEPT ![q].cursor = (@ + Min(IdleOffsets(q)) + 1) % queue[q].num]
      /\ IF id = INVALID_TEVENTID
           THEN UNCHANGED <<view, flags, syncErrors, eventOccupy>>
           ELSE /\ view' = ViewAfterWait(e, id)
                /\ flags' = FlagsAfterWait(e, id)
                /\ ReportSyncErrors(WaitFlagErrors(e, id))
                /\ eventOccupy' = OccupyAfterRelease(e, id)
      /\ UNCHANGED <<clock, gran, checkMode, curBufSize, maxAddr, destroyed>>

AllocTensorRefused(q) == ~ HasIdleBuffer(q) /\ Refuse(1)

EnQue(q, h) ==
  LET e  == EnQueEvt[q]
      id == NextEventID(e)
  IN  /\ buf[h].state = "OCCUPIED"
      /\ VacantInQue(q)
      /\ buf' = [buf EXCEPT ![h].state = "ENQUE", ![h].enQueEvtID = id]
      /\ eventOccupy' = OccupyAfterAlloc(e)
      /\ flags' = FlagsAfterSet(e, id)
      /\ ReportSyncErrors(AllocEventIDErrors(e) + SetFlagErrors(e, id))
      /\ queue' = [queue EXCEPT ![q].ring[queue[q].tail] = h,
                                ![q].tail = (@ + 1) % Depth[q], ![q].used = @ + 1]
      /\ UNCHANGED <<clock, view, gran, checkMode, curBufSize, maxAddr, destroyed>>

EnQueRefused(q, h) == (buf[h].state # "OCCUPIED" \/ ~ VacantInQue(q)) /\ Refuse(1)

\* Mutants: the head wraps at the number of buffers, or never; the count is
\* not decremented.
RingWrapsAtNum(q) ==
  [queue EXCEPT ![q].head = (@ + 1) % queue[q].num, ![q].used = @ - 1]
RingNeverWraps(q) == [queue EXCEPT ![q].head = @ + 1, ![q].used = @ - 1]
RingKeepsCount(q) == [queue EXCEPT ![q].head = (@ + 1) % Depth[q]]

\* The ring after its oldest entry was taken.
RingAfterDeQue(q) == [queue EXCEPT ![q].head = (@ + 1) % Depth[q], ![q].used = @ - 1]

DeQue(q) ==
  LET h  == OldestSlot(q)
      e  == EnQueEvt[q]
      id == buf[h].enQueEvtID
  IN  /\ HasTensorInQue(q)
      /\ buf[h].state = "ENQUE"
      /\ queue' = RingAfterDeQue(q)
      /\ buf' = [buf EXCEPT ![h].state = "DEQUE", ![h].enQueEvtID = INVALID_TEVENTID]
      /\ view' = ViewAfterWait(e, id)
      /\ flags' = FlagsAfterWait(e, id)
      /\ ReportSyncErrors(WaitFlagErrors(e, id))
      /\ eventOccupy' = OccupyAfterRelease(e, id)
      /\ UNCHANGED <<clock, gran, checkMode, curBufSize, maxAddr, destroyed>>

\* The entry is taken out of the ring, reported, and handed to the kernel.
DeQueWrongState(q) ==
  /\ HasTensorInQue(q)
  /\ buf[OldestSlot(q)].state # "ENQUE"
  /\ queue' = RingAfterDeQue(q)
  /\ ReportSyncErrors(1)
  /\ UNCHANGED <<clock, view, flags, gran, checkMode, buf, curBufSize, maxAddr,
                 eventOccupy, destroyed>>

DeQueEmpty(q) == ~ HasTensorInQue(q) /\ Refuse(1)

\* Mutant: the buffer is recycled, and no flag says when it is safe to refill.
FreeTensorUnflagged(q, h) ==
  /\ buf[h].state # "FREE"
  /\ buf' = [buf EXCEPT ![h].state = "FREE"]
  /\ UNCHANGED <<coreVars, curBufSize, maxAddr, eventOccupy, destroyed, queue>>

\* FreeBuffer looks only at FREE: a buffer in any other state is recycled.
FreeTensor(q, h) ==
  LET e  == FreeBufEvt[q]
      id == NextEventID(e)
  IN  /\ buf[h].state # "FREE"
      /\ buf' = [buf EXCEPT ![h].state = "FREE", ![h].freeBufEvtID = id]
      /\ eventOccupy' = OccupyAfterAlloc(e)
      /\ flags' = FlagsAfterSet(e, id)
      /\ ReportSyncErrors(AllocEventIDErrors(e) + SetFlagErrors(e, id))
      /\ UNCHANGED <<clock, view, gran, checkMode, curBufSize, maxAddr, destroyed, queue>>

DoubleFree(q, h) == buf[h].state = "FREE" /\ Refuse(1)

-----------------------------------------------------------------------------
(* The next block of a launch: a reset core, a new TPipe and new queues.   *)
(* The old TPipe went out of scope with its kernel, so it has drained.     *)

NextKernel ==
  /\ destroyed
  /\ KernelLaunch
  /\ buf' = NewPipe.buf
  /\ curBufSize' = 0
  /\ maxAddr' = NewPipe.maxAddr
  /\ eventOccupy' = NewPipe.eventOccupy
  /\ destroyed' = FALSE
  /\ queue' = NewPipe.queue

-----------------------------------------------------------------------------
(* What a buffer is to its users.                                          *)

Producer(q) == EventSrcPipe[EnQueEvt[q]]
Consumer(q) == EventDstPipe[EnQueEvt[q]]

BufferGranules(h) == {buf[h].hard} \X BlocksOf(buf[h].address, buf[h].dataLen)

\* The buffers InitBuffer gave to q.
BuffersOf(q) == queue[q].start .. (queue[q].start + queue[q].num - 1)

\* The handles published and not yet taken, oldest first.
Published(q) ==
  [i \in 1 .. queue[q].used |-> queue[q].ring[(queue[q].head + i - 1) % Depth[q]]]

\* The ring of q holds exactly its ENQUE buffers, each once, and head, tail
\* and count agree.
RingConsistent(q) ==
  LET enqueued == {h \in BuffersOf(q) : buf[h].state = "ENQUE"}
  IN  /\ {Published(q)[i] : i \in 1 .. queue[q].used} = enqueued
      /\ Cardinality(enqueued) = queue[q].used
      /\ (queue[q].head + queue[q].used) % Depth[q] = queue[q].tail

\* The <<event, id>> pairs the buffer h of q holds.
HeldBy(q, h) ==
  {f \in {<<EnQueEvt[q], buf[h].enQueEvtID>>, <<FreeBufEvt[q], buf[h].freeBufEvtID>>} :
     f[2] \in EventId}

\* An event id names one hand-over at a time: no two buffers hold the same id
\* of the same event, whatever order ids are taken and released in and whatever
\* the kernel keeps for itself, and the flag of a held id is up.
EventIdsExclusive ==
  ~ destroyed => \A q, r \in Queue : \A h \in BuffersOf(q), k \in BuffersOf(r) :
    /\ h # k => HeldBy(q, h) \cap HeldBy(r, k) = {}
    /\ \A f \in HeldBy(q, h) : flags[f[1]][f[2]].pending

\* The bump allocator: the buffers of a TPipe never overlap and stay inside
\* their memory, whatever was asked for, refused or Reset before.
BuffersDisjoint ==
  \A h \in 0 .. (curBufSize - 1) :
    /\ buf[h].address + buf[h].dataLen <= HardwareSize[buf[h].hard]
    /\ \A k \in 0 .. (curBufSize - 1) :
         h # k => BufferGranules(h) \cap BufferGranules(k) = {}
=============================================================================
