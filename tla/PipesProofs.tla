---------------------------- MODULE PipesProofs -----------------------------
(***************************************************************************)
(* The pipes and the simulator, for any main program, any kernels and any  *)
(* order the pipes run in.  First the types: what a slice of a tensor      *)
(* reaches, that every variable of a kernel points into a buffer the TPipe *)
(* handed out, that the pipes take well-formed instructions only.  Then    *)
(* what the checker accepts: the pipes keep it in order, compute what the  *)
(* simulator computed, and never all wait.                                 *)
(***************************************************************************)
EXTENDS CheckedPipes, TPipeProofs, SequenceTheorems, WellFoundedInduction

-----------------------------------------------------------------------------
(* What slicing a LocalTensor preserves, and what it does not, for every   *)
(* width of the machine word.                                              *)

\* A tensor on which nothing has wrapped around yet: Buf2Tensor makes these.
Unwrapped(H, M) ==
  {t \in [handle : H, hard : M, address : Word, dataLen : Word] :
     t.address + t.dataLen + ONE_BLK_SIZE <= UINT32}

\* As long as the end of an access does not wrap around, it reaches the blocks
\* its bytes lie in.
LEMMA ReachIsBlocks ==
  ASSUME NEW t, t.address \in Nat, NEW bytes \in Nat,
         t.address + bytes + ONE_BLK_SIZE <= UINT32
  PROVE  Reach(t, bytes) = {t.hard} \X BlocksOf(t.address, bytes)
<1>1. Plus(Plus(t.address, bytes), ONE_BLK_SIZE - 1) = t.address + bytes + ONE_BLK_SIZE - 1
  BY TensorAssumption DEF Plus, ONE_BLK_SIZE
<1> QED
  BY <1>1 DEF Reach, BlocksOf

\* Within the length a slice is again such a tensor, and no longer.
LEMMA SliceInRange ==
  ASSUME NEW H, NEW M, NEW t \in Unwrapped(H, M), NEW offset \in 0 .. t.dataLen
  PROVE  /\ Slice(t, offset) \in Unwrapped(H, M)
         /\ Slice(t, offset).hard = t.hard
         /\ Slice(t, offset).address = t.address + offset
         /\ Slice(t, offset).dataLen = t.dataLen - offset
<1> USE TensorAssumption
<1>1. t \in [handle : H, hard : M, address : Word, dataLen : Word]
      /\ t.address + t.dataLen + ONE_BLK_SIZE <= UINT32
  BY DEF Unwrapped
<1>2. t.address \in Int /\ t.dataLen \in Int /\ offset \in Int
      /\ 0 <= t.address /\ 0 <= t.dataLen /\ 0 <= offset /\ offset <= t.dataLen
      /\ t.address + t.dataLen < UINT32
  BY <1>1 DEF Word, ONE_BLK_SIZE
<1>3. Plus(t.address, offset) = t.address + offset
  BY <1>1, <1>2 DEF Plus
<1>4. Minus(t.dataLen, offset) = t.dataLen - offset
  BY <1>2 DEF Minus
<1>5. Slice(t, offset) = [t EXCEPT !.address = t.address + offset, !.dataLen = t.dataLen - offset]
  BY <1>3, <1>4 DEF Slice
<1>6. t.address + offset \in Word /\ t.dataLen - offset \in Word
  BY <1>1, <1>2 DEF Word
<1> DEFINE s == [t EXCEPT !.address = t.address + offset, !.dataLen = t.dataLen - offset]
<1>7. /\ s \in [handle : H, hard : M, address : Word, dataLen : Word]
      /\ s.hard = t.hard /\ s.address = t.address + offset /\ s.dataLen = t.dataLen - offset
  BY <1>1, <1>6
<1>8. s.address + s.dataLen + ONE_BLK_SIZE <= UINT32
  BY <1>1, <1>2, <1>7
<1>9. s \in Unwrapped(H, M)
  BY <1>7, <1>8 DEF Unwrapped
<1> QED
  BY <1>5, <1>7, <1>9

\* Rounding outwards is monotonic.
LEMMA BlocksMonotonic ==
  ASSUME NEW a \in Nat, NEW m \in Nat, NEW b \in Nat, NEW n \in Nat, a <= b, b + n <= a + m
  PROVE  BlocksOf(b, n) \subseteq BlocksOf(a, m)
  BY DEF BlocksOf, ONE_BLK_SIZE

\* Whatever part of a tensor is cut out, and cut out of that again, an access
\* that CheckFits lets through touches granules of the whole only
\* (operator[], CheckFits, CheckAccess).
THEOREM SliceInside ==
  ASSUME NEW H, NEW M, NEW t \in Unwrapped(H, M),
         NEW offset \in 0 .. t.dataLen, NEW bytes \in Nat,
         Fits(Slice(t, offset), bytes)
  PROVE  Reach(Slice(t, offset), bytes) \subseteq Reach(t, t.dataLen)
<1>1. t.address \in Nat /\ t.dataLen \in Nat /\ offset \in Nat /\ offset <= t.dataLen
  BY TensorAssumption DEF Unwrapped, Word
<1>2. bytes <= t.dataLen - offset
  BY SliceInRange DEF Fits
<1>3. BlocksOf(t.address + offset, bytes) \subseteq BlocksOf(t.address, t.dataLen)
  BY <1>1, <1>2, BlocksMonotonic
<1>4. Reach(t, t.dataLen) = {t.hard} \X BlocksOf(t.address, t.dataLen)
  BY <1>1, ReachIsBlocks DEF Unwrapped
<1> DEFINE s == Slice(t, offset)
<1>5. /\ s.hard = t.hard /\ s.address = t.address + offset
      /\ s.address + bytes + ONE_BLK_SIZE <= UINT32
  BY <1>1, <1>2, SliceInRange, TensorAssumption DEF Unwrapped, ONE_BLK_SIZE
<1> HIDE DEF s
<1>6. Reach(s, bytes) = {t.hard} \X BlocksOf(t.address + offset, bytes)
  BY <1>1, <1>5, ReachIsBlocks
<1> QED
  BY <1>3, <1>4, <1>6 DEF s

\* A slice of a slice is the slice at the sum of the offsets (operator[]).
THEOREM SliceOfSlice ==
  ASSUME NEW H, NEW M, NEW t \in Unwrapped(H, M),
         NEW m \in 0 .. t.dataLen, NEW n \in 0 .. (t.dataLen - m)
  PROVE  Slice(Slice(t, m), n) = Slice(t, m + n)
<1>1. t \in [handle : H, hard : M, address : Word, dataLen : Word]
      /\ t.address \in Int /\ t.dataLen \in Int /\ m \in Int /\ n \in Int
  BY TensorAssumption DEF Unwrapped, Word
<1>2. m + n \in 0 .. t.dataLen
  BY <1>1
<1> DEFINE s == Slice(t, m)
<1>3. s \in Unwrapped(H, M) /\ s.address = t.address + m /\ s.dataLen = t.dataLen - m
  BY SliceInRange
<1>4. n \in 0 .. s.dataLen
  BY <1>3
<1>5. /\ Slice(s, n).address = t.address + m + n
      /\ Slice(s, n).dataLen = t.dataLen - m - n
      /\ Slice(s, n) \in Unwrapped(H, M)
  BY <1>3, <1>4, SliceInRange
<1>6. /\ Slice(t, m + n).address = t.address + m + n
      /\ Slice(t, m + n).dataLen = t.dataLen - m - n
      /\ Slice(t, m + n) \in Unwrapped(H, M)
  BY <1>1, <1>2, SliceInRange
<1>7. Slice(s, n).hard = Slice(t, m + n).hard /\ Slice(s, n).handle = Slice(t, m + n).handle
  BY <1>1 DEF Slice, Unwrapped
<1>8. Slice(s, n) = Slice(t, m + n)
  BY <1>5, <1>6, <1>7 DEF Unwrapped
<1> QED
  BY <1>8

\* Past the end the length wraps around (addr.dataLen -= ...): whatever bytes
\* lie there, some slice starts at them and CheckFits accepts them all.
LEMMA SliceBeyond ==
  ASSUME NEW H, NEW M, NEW t \in Unwrapped(H, M), NEW offset \in Word, NEW bytes \in Nat,
         t.dataLen < offset, t.address + offset + bytes + ONE_BLK_SIZE <= UINT32
  PROVE  /\ Fits(Slice(t, offset), bytes)
         /\ Reach(Slice(t, offset), bytes) = {t.hard} \X BlocksOf(t.address + offset, bytes)
<1>1. t \in [handle : H, hard : M, address : Word, dataLen : Word]
  BY DEF Unwrapped
<1>2. t.address \in Nat /\ t.dataLen \in Nat /\ offset \in Nat /\ UINT32 \in Nat
  BY <1>1, TensorAssumption DEF Word
<1>3. Plus(t.address, offset) = t.address + offset
  BY <1>2 DEF Plus, ONE_BLK_SIZE
<1>4. Minus(t.dataLen, offset) = t.dataLen - offset + UINT32
  BY <1>2 DEF Minus
<1> DEFINE s == Slice(t, offset)
<1>5. /\ s.address = t.address + offset
      /\ s.dataLen = t.dataLen - offset + UINT32
      /\ s.hard = t.hard
  BY <1>1, <1>3, <1>4 DEF Slice
<1> HIDE DEF s
<1>6. Fits(s, bytes)
  BY <1>2, <1>5 DEF Fits, ONE_BLK_SIZE
<1>7. Reach(s, bytes) = {t.hard} \X BlocksOf(t.address + offset, bytes)
  BY <1>2, <1>5, ReachIsBlocks
<1> QED
  BY <1>6, <1>7 DEF s

-----------------------------------------------------------------------------
(* The state of a kernel.                                                  *)

\* Handles to a buffer the TPipe has handed out, and none.
HandlesOut == {NoHandle} \cup 0 .. (curBufSize - 1)

LEMMA OutIsHandle ==
  ASSUME PipeTypeOK, NEW h \in HandlesOut, h # NoHandle
  PROVE  h \in 0 .. (curBufSize - 1) /\ h \in Handle
<1>1. curBufSize \in 0 .. QBUF_MAX_LEN /\ QBUF_MAX_LEN \in Nat
  BY TPipeAssumption DEF PipeTypeOK
<1>2. h \in 0 .. (curBufSize - 1)
  BY DEF HandlesOut
<1> QED
  BY <1>1, <1>2 DEF Handle

\* A queue's buffers, and those in its ring, have been handed out.
QueuesInTable ==
  \A q \in Queue :
    /\ queue[q].start + queue[q].num <= curBufSize
    /\ queue[q].used > 0 => curBufSize > 0
    /\ \A i \in 0 .. (Depth[q] - 1) : queue[q].ring[i] = 0 \/ queue[q].ring[i] < curBufSize

\* A tensor variable is what Buf2Tensor made of its buffer.
TensorsOfBuffers ==
  /\ local = [t \in Queue |-> local[t]]
  /\ \A t \in Queue : local[t].handle \in HandlesOut /\ local[t] = Tensor(local[t].handle)

VariablesOK ==
  /\ TensorsOfBuffers
  /\ bufStart \in [Queue -> HandlesOut]
  /\ eventVar \in [Event -> TEventID]

\* Where main() is.
ProgressOK ==
  /\ launch \in DOMAIN Main
  /\ block \in -1 .. (Launch.blocks - 1)
  /\ block = -1 => destroyed
  /\ pc \in 1 .. (Len(Kernel) + 1)
  /\ checkMode = "Report"

RunOK == BaseOK /\ QueuesInTable /\ VariablesOK /\ ProgressOK

LEMMA LaunchTyped ==
  ASSUME ProgressOK
  PROVE  /\ Launch \in KernelLaunches
         /\ Kernel \in Seq(KernelCall)
         /\ pc <= Len(Kernel) => Kernel[pc] \in KernelCall
<1>1. Launch = Main[launch]
  BY DEF ProgressOK, Launch, Launches
<1>2. Launch \in KernelLaunches
  BY <1>1, KernelRunAssumption DEF ProgressOK
<1>3. Kernel \in Seq(KernelCall)
  BY <1>2 DEF Kernel, KernelLaunches
<1>4. pc <= Len(Kernel) => Kernel[pc] \in KernelCall
  BY <1>3 DEF ProgressOK
<1> QED
  BY <1>2, <1>3, <1>4

LEMMA QuotientTyped ==
  ASSUME NEW m \in Nat, NEW n \in Nat \ {0}
  PROVE  m \div n \in Nat
  OBVIOUS

LEMMA QuotientBelow ==
  ASSUME NEW m \in Nat, NEW n \in Nat \ {0}
  PROVE  m \div n <= m
  OBVIOUS

\* The share of a block and of a tile.
LEMMA SharesTyped ==
  ASSUME ProgressOK
  PROVE  /\ TileLength \in Nat /\ TileBytes \in Nat
         /\ block # -1 => \A i \in Nat : GmOffset(i) \in Nat
<1>1. Launch.length \in Nat /\ Launch.blocks \in Nat \ {0} /\ Launch.tiles \in Nat \ {0}
  BY LaunchTyped DEF KernelLaunches
<1>2. BlockLength \in Nat
  BY <1>1, QuotientTyped DEF BlockLength
<1>3. TileLength \in Nat
  BY <1>1, <1>2, QuotientTyped DEF TileLength
<1>4. TileBytes \in Nat
  BY <1>3 DEF TileBytes, ONE_BLK_SIZE
<1>5. ASSUME block # -1, NEW i \in Nat PROVE GmOffset(i) \in Nat
  <2>1. block \in Nat
    BY <1>1, <1>5 DEF ProgressOK
  <2> QED
    BY <1>2, <1>3, <2>1 DEF GmOffset
<1> QED
  BY <1>3, <1>4, <1>5

LEMMA WordOfMemory ==
  ASSUME NEW m \in Mem
  PROVE  HardwareSize[m] \in Nat /\ HardwareSize[m] + ONE_BLK_SIZE <= UINT32
<1>1. HardwareSize[m] \in Nat
  BY TPipeAssumption
<1>2. 1 \in DOMAIN Main /\ Main[1] \in KernelLaunches
  BY KernelRunAssumption
<1>3. Main[1].length \in Nat
  BY <1>2 DEF KernelLaunches
<1>4. HardwareSize[m] + Main[1].length * ONE_BLK_SIZE + ONE_BLK_SIZE <= UINT32
  BY <1>2, KernelRunAssumption
<1> QED
  BY <1>1, <1>3, <1>4, TensorAssumption DEF ONE_BLK_SIZE

\* A tile that starts anywhere in memory ends at a 32-bit address.
LEMMA TileAddressed ==
  ASSUME ProgressOK, NEW m \in Mem
  PROVE  /\ HardwareSize[m] \in Nat
         /\ HardwareSize[m] + TileBytes + ONE_BLK_SIZE <= UINT32
<1>1. HardwareSize[m] \in Nat
  BY TPipeAssumption
<1>2. launch \in DOMAIN Main /\ Launch = Main[launch] /\ Launch.length \in Nat
      /\ Launch.blocks \in Nat \ {0} /\ Launch.tiles \in Nat \ {0}
  BY LaunchTyped DEF ProgressOK, Launch, Launches, KernelLaunches
<1>3. BlockLength \in Nat /\ BlockLength <= Launch.length
  BY <1>2, QuotientTyped, QuotientBelow DEF BlockLength
<1>4. TileLength \in Nat /\ TileLength <= BlockLength
  BY <1>2, <1>3, QuotientTyped, QuotientBelow DEF TileLength
<1>5. TileBytes \in Nat /\ TileBytes <= Launch.length * ONE_BLK_SIZE
  BY <1>2, <1>3, <1>4 DEF TileBytes, ONE_BLK_SIZE
<1>6. HardwareSize[m] + Launch.length * ONE_BLK_SIZE + ONE_BLK_SIZE <= UINT32
  BY <1>2, KernelRunAssumption
<1> QED
  BY <1>1, <1>2, <1>5, <1>6, TensorAssumption DEF ONE_BLK_SIZE

\* The null tensor and the tensor of a buffer fit in 32 bits.
LEMMA TensorUnwrapped ==
  ASSUME BaseOK, NEW h \in HandlesOut
  PROVE  /\ Tensor(h) \in LocalTensor
         /\ Tensor(h) \in Unwrapped(Handle \cup {NoHandle}, Mem)
         /\ Tensor(h).handle = h
<1> USE TensorAssumption
<1>1. CASE h = NoHandle
  <2>1. 0 \in Word
    BY DEF Word
  <2>2. NullTensor \in LocalTensor
        /\ NullTensor.address + NullTensor.dataLen + ONE_BLK_SIZE <= UINT32
    <3>1. ONE_BLK_SIZE <= UINT32
      BY WordOfMemory, KernelRunAssumption DEF ONE_BLK_SIZE
    <3> QED
      BY <2>1, <3>1, KernelRunAssumption DEF NullTensor, LocalTensor, ONE_BLK_SIZE
  <2>3. Tensor(h) = NullTensor /\ NullTensor.handle = h
    BY <1>1 DEF Tensor, NullTensor
  <2> QED
    BY <2>2, <2>3 DEF Unwrapped, LocalTensor
<1>2. CASE h # NoHandle
  <2> DEFINE b == buf[h]
  <2>1. h \in 0 .. (curBufSize - 1) /\ h \in Handle
    BY <1>2, OutIsHandle DEF BaseOK
  <2>2. b \in TBufType
    BY <2>1 DEF BaseOK, PipeTypeOK
  <2>3. b.hard \in Mem /\ b.address \in Nat /\ b.dataLen \in Nat
    BY <2>2 DEF TBufType
  <2>4. b.address + b.dataLen <= maxAddr[b.hard] /\ maxAddr[b.hard] <= HardwareSize[b.hard]
    BY <2>1, <2>3 DEF BaseOK, Layout
  <2>5. maxAddr[b.hard] \in Nat
    BY <2>3 DEF BaseOK, PipeTypeOK
  <2>6. b.address + b.dataLen + ONE_BLK_SIZE <= UINT32 /\ b.address \in Word /\ b.dataLen \in Word
    BY <2>3, <2>4, <2>5, WordOfMemory, TensorAssumption DEF Word, ONE_BLK_SIZE
  <2>7. Tensor(h) = [handle |-> h, hard |-> b.hard, address |-> b.address, dataLen |-> b.dataLen]
    BY <1>2 DEF Tensor
  <2> HIDE DEF b
  <2> QED
    BY <2>1, <2>3, <2>6, <2>7 DEF Unwrapped, LocalTensor
<1> QED
  BY <1>1, <1>2

\* The buffers handed out stay what they are.
BuffersKept == \A h \in HandlesOut : h \in HandlesOut' /\ Tensor(h)' = Tensor(h)

LEMMA KeptInPlace ==
  ASSUME BaseOK, InPlace, UNCHANGED curBufSize
  PROVE  BuffersKept
<1> SUFFICES ASSUME NEW h \in HandlesOut
             PROVE  h \in HandlesOut' /\ Tensor(h)' = Tensor(h)
  BY DEF BuffersKept
<1>1. h \in HandlesOut'
  BY DEF HandlesOut
<1>2. h # NoHandle => h \in Handle
  BY OutIsHandle DEF BaseOK
<1>3. Tensor(h)' = Tensor(h)
  BY <1>2 DEF InPlace, Tensor
<1> QED
  BY <1>1, <1>3

LEMMA KeptWhenCarved ==
  ASSUME BaseOK, NEW hard \in Mem, NEW num \in Nat, NEW len \in Nat,
         CarveBuffers(hard, num, len)
  PROVE  BuffersKept
<1>1. curBufSize \in Nat /\ curBufSize' = curBufSize + num
  <2>1. curBufSize \in Nat
    BY TPipeAssumption DEF BaseOK, PipeTypeOK
  <2>2. curBufSize' = curBufSize + num
    BY DEF CarveBuffers
  <2> QED
    BY <2>1, <2>2
<1> SUFFICES ASSUME NEW h \in HandlesOut
             PROVE  h \in HandlesOut' /\ Tensor(h)' = Tensor(h)
  BY DEF BuffersKept
<1>2. h \in HandlesOut'
  BY <1>1 DEF HandlesOut
<1>3. CASE h = NoHandle
  BY <1>2, <1>3 DEF Tensor
<1>4. CASE h # NoHandle
  <2>1. h \in 0 .. (curBufSize - 1) /\ h \in Handle
    BY <1>4, OutIsHandle DEF BaseOK
  <2>2. h \notin curBufSize .. (curBufSize + num - 1)
    BY <1>1, <2>1
  <2>3. buf'[h] = buf[h]
    BY <2>1, <2>2 DEF CarveBuffers
  <2> QED
    BY <1>2, <2>3 DEF Tensor
<1> QED
  BY <1>3, <1>4

LEMMA TensorsKept ==
  ASSUME TensorsOfBuffers, BuffersKept, UNCHANGED local
  PROVE  TensorsOfBuffers'
<1>1. ASSUME NEW s \in Queue
      PROVE  (local[s].handle \in HandlesOut /\ local[s] = Tensor(local[s].handle))'
  <2>1. PICK k : k = local[s].handle
    OBVIOUS
  <2>2. k \in HandlesOut /\ local'[s] = Tensor(k) /\ local'[s].handle = k
    BY <2>1 DEF TensorsOfBuffers
  <2>3. k \in HandlesOut' /\ Tensor(k)' = Tensor(k)
    BY <2>2 DEF BuffersKept
  <2> QED
    BY <2>2, <2>3
<1> QED
  BY <1>1 DEF TensorsOfBuffers

LEMMA TensorsAfterGet ==
  ASSUME BaseOK, TensorsOfBuffers, BuffersKept, NEW t \in Queue, NEW h \in HandlesOut, Get(t, h)
  PROVE  TensorsOfBuffers'
<1>1. Tensor(h).handle = h
  BY TensorUnwrapped
<1>2. local' = [local EXCEPT ![t] = Tensor(h)]
  BY DEF Get
<1>3. ASSUME NEW s \in Queue
      PROVE  (local[s].handle \in HandlesOut /\ local[s] = Tensor(local[s].handle))'
  <2>1. PICK k : k = IF s = t THEN h ELSE local[s].handle
    OBVIOUS
  <2>2. k \in HandlesOut /\ local'[s] = Tensor(k) /\ Tensor(k).handle = k
    BY <1>1, <1>2, <2>1 DEF TensorsOfBuffers
  <2>3. k \in HandlesOut' /\ Tensor(k)' = Tensor(k)
    BY <2>2 DEF BuffersKept
  <2>4. local'[s].handle = k
    BY <2>2
  <2> QED
    BY <2>2, <2>3, <2>4
<1>4. local' = [s \in Queue |-> local'[s]]
  BY <1>2 DEF TensorsOfBuffers
<1> QED
  BY <1>3, <1>4 DEF TensorsOfBuffers

LEMMA BufStartKept ==
  ASSUME VariablesOK, BuffersKept, UNCHANGED bufStart
  PROVE  bufStart' \in [Queue -> HandlesOut']
  BY DEF VariablesOK, BuffersKept

-----------------------------------------------------------------------------
(* The calls of a kernel.                                                  *)

\* One queue changes, and not its place.
LEMMA TableAfterRingCall ==
  ASSUME QueuesInTable, NEW q \in Queue, UNCHANGED curBufSize,
         \A r \in Queue : queue'[r].start = queue[r].start /\ queue'[r].num = queue[r].num,
         \A r \in Queue \ {q} : queue'[r] = queue[r],
         queue'[q].used > 0 => curBufSize > 0,
         \A i \in 0 .. (Depth[q] - 1) :
           queue'[q].ring[i] = queue[q].ring[i] \/ queue'[q].ring[i] < curBufSize
  PROVE  QueuesInTable'
<1>1. ASSUME NEW r \in Queue
      PROVE  /\ queue'[r].start + queue'[r].num <= curBufSize'
             /\ queue'[r].used > 0 => curBufSize' > 0
             /\ \A i \in 0 .. (Depth[r] - 1) :
                  queue'[r].ring[i] = 0 \/ queue'[r].ring[i] < curBufSize'
  <2>1. CASE r = q
    BY <2>1 DEF QueuesInTable
  <2>2. CASE r # q
    BY <2>2 DEF QueuesInTable
  <2> QED
    BY <2>1, <2>2
<1> QED
  BY <1>1 DEF QueuesInTable

LEMMA TableUnchanged ==
  ASSUME QueuesInTable, UNCHANGED <<queue, curBufSize>>
  PROVE  QueuesInTable'
  BY DEF QueuesInTable

LEMMA TableAfterQueueCall ==
  ASSUME BaseOK, QueuesInTable, NEW q \in Queue, NEW h \in Handle,
         h < curBufSize \/ ~ EnQue(q, h),
         AllocTensor(q) \/ EnQue(q, h) \/ DeQue(q) \/ DeQueWrongState(q) \/ FreeTensor(q, h)
  PROVE  QueuesInTable'
<1>1. PipeTypeOK /\ queue[q] \in TQueType(q) /\ Depth[q] \in Nat \ {0} /\ curBufSize \in Nat
  BY TPipeAssumption DEF BaseOK, PipeTypeOK
<1>2. /\ queue[q].used \in Nat /\ queue[q].tail \in 0 .. (Depth[q] - 1)
      /\ queue[q].ring \in [0 .. (Depth[q] - 1) -> Handle]
  BY <1>1 DEF TQueType
<1>3. /\ UNCHANGED curBufSize
      /\ \A r \in Queue : queue'[r].start = queue[r].start /\ queue'[r].num = queue[r].num
  BY <1>1, RingCallKeepsPlace
<1>4. queue = [r \in Queue |-> queue[r]]
  BY DEF BaseOK, PipeTypeOK
<1>5. CASE AllocTensor(q)
  <2>1. /\ \A r \in Queue \ {q} : queue'[r] = queue[r]
        /\ queue'[q].used = queue[q].used /\ queue'[q].ring = queue[q].ring
    BY <1>1, <1>4, <1>5 DEF AllocTensor, TQueType
  <2> QED
    BY <1>3, <2>1, TableAfterRingCall DEF QueuesInTable
<1>6. CASE EnQue(q, h)
  <2>1. /\ \A r \in Queue \ {q} : queue'[r] = queue[r]
        /\ queue'[q].used = queue[q].used + 1
        /\ queue'[q].ring = [queue[q].ring EXCEPT ![queue[q].tail] = h]
    BY <1>1, <1>4, <1>6 DEF EnQue, TQueType
  <2>2. h < curBufSize /\ curBufSize > 0
    BY <1>1, <1>6 DEF Handle
  <2>3. \A i \in 0 .. (Depth[q] - 1) :
          queue'[q].ring[i] = queue[q].ring[i] \/ queue'[q].ring[i] < curBufSize
    BY <1>2, <2>1, <2>2
  <2> QED
    BY <1>3, <2>1, <2>2, <2>3, TableAfterRingCall
<1>7. CASE DeQue(q) \/ DeQueWrongState(q)
  <2>1. HasTensorInQue(q) /\ queue' = RingAfterDeQue(q)
    BY <1>7 DEF DeQue, DeQueWrongState
  <2>2. /\ \A r \in Queue \ {q} : queue'[r] = queue[r]
        /\ queue'[q].ring = queue[q].ring
    BY <1>1, <1>4, <2>1 DEF RingAfterDeQue, TQueType
  <2>3. curBufSize > 0
    BY <2>1 DEF HasTensorInQue, QueuesInTable
  <2> QED
    BY <1>3, <2>2, <2>3, TableAfterRingCall
<1>8. CASE FreeTensor(q, h)
  <2>1. UNCHANGED <<queue, curBufSize>>
    BY <1>8 DEF FreeTensor
  <2> QED
    BY <2>1, TableUnchanged
<1> QED
  BY <1>5, <1>6, <1>7, <1>8

LEMMA TableAfterInitBuffer ==
  ASSUME BaseOK, QueuesInTable, NEW q \in Queue, NEW num \in Nat, NEW len \in Nat,
         InitBuffer(q, num, len)
  PROVE  QueuesInTable'
<1>1. curBufSize \in Nat /\ queue = [r \in Queue |-> queue[r]] /\ queue[q] \in TQueType(q)
  BY TPipeAssumption DEF BaseOK, PipeTypeOK
<1>2. /\ curBufSize' = curBufSize + num
      /\ queue'[q].start = curBufSize /\ queue'[q].num = num /\ queue'[q].used = 0
      /\ \A r \in Queue \ {q} : queue'[r] = queue[r]
  BY InitBufferPlaces
<1>3. queue'[q].ring = queue[q].ring
  BY <1>1 DEF InitBuffer, TQueType
<1>4. queue[q].ring \in [0 .. (Depth[q] - 1) -> Handle]
  BY <1>1 DEF TQueType
<1>5. ASSUME NEW r \in Queue
      PROVE  /\ queue'[r].start + queue'[r].num <= curBufSize'
             /\ queue'[r].used > 0 => curBufSize' > 0
             /\ \A i \in 0 .. (Depth[r] - 1) :
                  queue'[r].ring[i] = 0 \/ queue'[r].ring[i] < curBufSize'
  <2>1. queue[r] \in TQueType(r) /\ Depth[r] \in Nat \ {0} /\ QBUF_MAX_LEN \in Nat
    BY TPipeAssumption DEF BaseOK, PipeTypeOK
  <2>2. /\ queue[r].start \in Int /\ queue[r].num \in Int /\ queue[r].used \in Int
        /\ queue[r].ring \in [0 .. (Depth[r] - 1) -> Int]
    BY <2>1 DEF TQueType, Handle
  <2>3. queue'[r].ring = queue[r].ring
    BY <1>2, <1>3
  <2>4. \A i \in 0 .. (Depth[r] - 1) : queue'[r].ring[i] = 0 \/ queue'[r].ring[i] < curBufSize'
    <3> SUFFICES ASSUME NEW i \in 0 .. (Depth[r] - 1)
                 PROVE  queue'[r].ring[i] = 0 \/ queue'[r].ring[i] < curBufSize'
      OBVIOUS
    <3>1. queue[r].ring[i] \in Int /\ queue'[r].ring[i] = queue[r].ring[i]
      BY <2>2, <2>3
    <3>2. queue[r].ring[i] = 0 \/ queue[r].ring[i] < curBufSize
      BY DEF QueuesInTable
    <3> QED
      BY <1>1, <1>2, <3>1, <3>2
  <2>5. CASE r = q
    BY <1>1, <1>2, <2>4, <2>5
  <2>6. CASE r # q
    <3>1. queue[r].start + queue[r].num <= curBufSize /\ (queue[r].used > 0 => curBufSize > 0)
      BY DEF QueuesInTable
    <3> QED
      BY <1>1, <1>2, <2>2, <2>4, <2>6, <3>1
  <2> QED
    BY <2>5, <2>6
<1> QED
  BY <1>5 DEF QueuesInTable

\* What the calls hand out has been carved out before.
LEMMA HandedOut ==
  ASSUME BaseOK, QueuesInTable, NEW q \in Queue
  PROVE  /\ HasIdleBuffer(q) => IdleSlot(q) \in HandlesOut /\ IdleSlot(q) \in Handle
         /\ HasTensorInQue(q) => OldestSlot(q) \in HandlesOut
<1>1. /\ PipeTypeOK /\ queue[q] \in TQueType(q) /\ Depth[q] \in Nat \ {0}
      /\ curBufSize \in 0 .. QBUF_MAX_LEN /\ QBUF_MAX_LEN \in Nat
  BY TPipeAssumption DEF BaseOK, PipeTypeOK
<1>2. /\ queue[q].start \in Nat /\ queue[q].num \in Nat /\ queue[q].cursor \in Nat
      /\ queue[q].head \in 0 .. (Depth[q] - 1)
  BY <1>1 DEF TQueType
<1>3. queue[q].start + queue[q].num <= curBufSize
  BY DEF QueuesInTable
<1>4. ASSUME HasIdleBuffer(q)
      PROVE  IdleSlot(q) \in HandlesOut /\ IdleSlot(q) \in Handle
  <2>1. IdleOffsets(q) \in SUBSET Nat /\ IdleOffsets(q) # {}
        /\ IdleOffsets(q) \subseteq 0 .. (queue[q].num - 1)
    BY <1>2, <1>4 DEF IdleOffsets, HasIdleBuffer
  <2> DEFINE i == Min(IdleOffsets(q))
  <2>2. i \in 0 .. (queue[q].num - 1)
    BY <2>1, MinIsLeast
  <2>3. queue[q].num \in Nat \ {0} /\ queue[q].cursor + i \in Nat
    BY <1>2, <2>2
  <2>4. (queue[q].cursor + i) % queue[q].num \in 0 .. (queue[q].num - 1)
    BY <2>3, ModInRange, Zenon
  <2>5. IdleSlot(q) = queue[q].start + ((queue[q].cursor + i) % queue[q].num)
    BY DEF IdleSlot, SlotAfter
  <2> HIDE DEF i
  <2>6. IdleSlot(q) \in 0 .. (curBufSize - 1)
    BY <1>1, <1>2, <1>3, <2>4, <2>5
  <2> QED
    BY <1>1, <2>6 DEF HandlesOut, Handle
<1>5. ASSUME HasTensorInQue(q)
      PROVE  OldestSlot(q) \in HandlesOut
  <2>1. curBufSize > 0
    BY <1>5 DEF HasTensorInQue, QueuesInTable
  <2>2. OldestSlot(q) \in Handle
    BY <1>1, OldestIsHandle
  <2>3. OldestSlot(q) = 0 \/ OldestSlot(q) < curBufSize
    BY <1>2 DEF OldestSlot, QueuesInTable
  <2> QED
    BY <1>1, <2>1, <2>2, <2>3 DEF HandlesOut, Handle
<1> QED
  BY <1>4, <1>5

\* What a call leaves in order.
CallDone == BaseOK' /\ QueuesInTable' /\ VariablesOK' /\ UNCHANGED <<checkMode, destroyed>>

OnQueue == {"InitBuffer", "InitTBuf", "Get", "AllocTensor", "EnQue", "DeQue", "FreeTensor",
            "CopyIn", "Add", "CopyOut"}
OnEvent == {"AllocEventID", "ReleaseEventID", "SetFlag", "WaitFlag"}

LEMMA CallTyped ==
  ASSUME NEW c \in KernelCall
  PROVE  /\ c.tile \in Nat
         /\ c.op \in OnQueue => c.on \in Queue
         /\ c.op \in OnEvent => c.on \in Event
<1>1. c \in [op : OnQueue, on : Queue, tile : Nat] \/ c \in [op : OnEvent, on : Event, tile : Nat]
  BY DEF KernelCall, OnQueue, OnEvent
<1>2. OnQueue \cap OnEvent = {}
  BY DEF OnQueue, OnEvent
<1> QED
  BY <1>1, <1>2

LEMMA VariablesKept ==
  ASSUME VariablesOK, BuffersKept, UNCHANGED <<local, bufStart, eventVar>>
  PROVE  VariablesOK'
  BY TensorsKept, BufStartKept DEF VariablesOK

LEMMA NothingMoved ==
  ASSUME UNCHANGED <<buf, curBufSize>>
  PROVE  BuffersKept
  BY DEF BuffersKept, HandlesOut, Tensor

\* A call that was refused changes the count of reports at most.
LEMMA RefusedCall ==
  ASSUME BaseOK, QueuesInTable, NEW n \in Nat, Refuse(n)
  PROVE  /\ BaseOK' /\ QueuesInTable' /\ BuffersKept
         /\ UNCHANGED <<checkMode, destroyed>>
<1>1. BaseOK' /\ UNCHANGED pipeVars
  BY BaseRefuse
<1>2. UNCHANGED checkMode
  BY DEF Refuse
<1> QED
  BY <1>1, <1>2, NothingMoved, TableUnchanged DEF pipeVars

\* A call of a queue that was not.
LEMMA QueueCall ==
  ASSUME BaseOK, QueuesInTable, NEW q \in Queue, NEW h \in Handle,
         h < curBufSize \/ ~ EnQue(q, h),
         AllocTensor(q) \/ EnQue(q, h) \/ DeQue(q) \/ DeQueWrongState(q) \/ FreeTensor(q, h)
  PROVE  /\ BaseOK' /\ QueuesInTable' /\ BuffersKept
         /\ UNCHANGED <<checkMode, destroyed>>
<1>1. QueuesInTable'
  BY TableAfterQueueCall
<1>2. UNCHANGED <<checkMode, destroyed>>
  BY DEF AllocTensor, EnQue, DeQue, DeQueWrongState, FreeTensor
<1>3. UNCHANGED curBufSize
  BY DEF AllocTensor, EnQue, DeQue, DeQueWrongState, FreeTensor
<1>4. CASE DeQueWrongState(q)
  <2>1. BaseOK'
    BY <1>4, BaseDeQueWrongState
  <2>2. BuffersKept
    BY <1>4, NothingMoved DEF DeQueWrongState
  <2> QED
    BY <1>1, <1>2, <2>1, <2>2
<1>5. CASE ~ DeQueWrongState(q)
  <2>1. BaseOK' /\ InPlace
    BY <1>5, BaseQueueCall
  <2>2. BuffersKept
    BY <1>3, <2>1, KeptInPlace
  <2> QED
    BY <1>1, <1>2, <2>1, <2>2
<1> QED
  BY <1>4, <1>5

LEMMA InitBufferDone ==
  ASSUME RunOK, NEW q \in Queue, DoInitBuffer(q)
  PROVE  CallDone
<1>1. BaseOK /\ QueuesInTable /\ VariablesOK /\ TileBytes \in Nat /\ BUFFER_NUM \in Nat
      /\ BufHardType[q] \in Mem
  BY SharesTyped, KernelRunAssumption, TPipeAssumption DEF RunOK
<1>2. UNCHANGED <<local, bufStart, eventVar>>
  BY DEF DoInitBuffer
<1>3. CASE InitBuffer(q, BUFFER_NUM, TileBytes)
  <2>1. BaseOK' /\ QueuesInTable'
    BY <1>1, <1>3, BaseInitBuffer, TableAfterInitBuffer
  <2>2. CarveBuffers(BufHardType[q], BUFFER_NUM, TileBytes)
    BY <1>3 DEF InitBuffer
  <2>3. BuffersKept
    BY <1>1, <2>2, KeptWhenCarved
  <2>4. UNCHANGED <<checkMode, destroyed>>
    BY <2>2 DEF CarveBuffers, coreVars
  <2> QED
    BY <1>1, <1>2, <2>1, <2>3, <2>4, VariablesKept DEF CallDone
<1>4. CASE InitBufferRefused(q, BUFFER_NUM, TileBytes)
  <2>1. Refuse(1)
    BY <1>4 DEF InitBufferRefused
  <2> QED
    BY <1>1, <1>2, <2>1, RefusedCall, VariablesKept DEF CallDone
<1> QED
  BY <1>3, <1>4 DEF DoInitBuffer

LEMMA InitTBufDone ==
  ASSUME RunOK, NEW t \in Queue, DoInitTBuf(t)
  PROVE  CallDone
<1>1. BaseOK /\ QueuesInTable /\ VariablesOK /\ TileBytes \in Nat /\ TBufMem \in Mem
  BY SharesTyped, KernelRunAssumption DEF RunOK
<1>2. UNCHANGED <<local, eventVar>>
  BY DEF DoInitTBuf
<1>3. CASE InitTBuf(TBufMem, TileBytes) /\ bufStart' = [bufStart EXCEPT ![t] = curBufSize]
  <2>1. /\ InitBufferFits(TBufMem, 1, 1, TileBytes) /\ CarveBuffers(TBufMem, 1, TileBytes)
        /\ UNCHANGED queue
    BY <1>3 DEF InitTBuf
  <2>2. /\ CoreTypeOK' /\ Layout' /\ buf' \in [Handle -> TBufType]
        /\ curBufSize' \in 0 .. QBUF_MAX_LEN /\ maxAddr' \in [Mem -> Nat]
        /\ UNCHANGED <<eventOccupy, destroyed>>
    BY <1>1, <2>1, CarveTyped DEF BaseOK
  <2>3. BaseOK'
    <3>1. PipeTypeOK'
      BY <1>1, <2>1, <2>2 DEF BaseOK, PipeTypeOK, TQueType
    <3> QED
      BY <2>2, <3>1 DEF BaseOK
  <2>4. curBufSize \in Nat /\ curBufSize' = curBufSize + 1
    <3>1. curBufSize \in Nat
      BY <1>1, TPipeAssumption DEF BaseOK, PipeTypeOK
    <3>2. curBufSize' = curBufSize + 1
      BY <2>1 DEF CarveBuffers
    <3> QED
      BY <3>1, <3>2
  <2>5. QueuesInTable'
    <3> SUFFICES ASSUME NEW q \in Queue
                 PROVE  /\ queue[q].start + queue[q].num <= curBufSize'
                        /\ queue[q].used > 0 => curBufSize' > 0
                        /\ \A i \in 0 .. (Depth[q] - 1) :
                             queue[q].ring[i] = 0 \/ queue[q].ring[i] < curBufSize'
      BY <2>1 DEF QueuesInTable
    <3>1. queue[q] \in TQueType(q) /\ Depth[q] \in Nat \ {0} /\ QBUF_MAX_LEN \in Nat
      BY <1>1, TPipeAssumption DEF BaseOK, PipeTypeOK
    <3>2. /\ queue[q].start \in Int /\ queue[q].num \in Int
          /\ queue[q].ring \in [0 .. (Depth[q] - 1) -> Int]
      BY <3>1 DEF TQueType, Handle
    <3>3. queue[q].start + queue[q].num <= curBufSize
      BY <1>1 DEF QueuesInTable
    <3>4. queue[q].start + queue[q].num <= curBufSize' /\ curBufSize' > 0
      BY <2>4, <3>2, <3>3
    <3>5. ASSUME NEW i \in 0 .. (Depth[q] - 1)
          PROVE  queue[q].ring[i] = 0 \/ queue[q].ring[i] < curBufSize'
      <4>1. queue[q].ring[i] \in Int
        BY <3>2
      <4>2. queue[q].ring[i] = 0 \/ queue[q].ring[i] < curBufSize
        BY <1>1 DEF QueuesInTable
      <4> QED
        BY <2>4, <4>1, <4>2
    <3> QED
      BY <3>4, <3>5
  <2>6. BuffersKept
    BY <1>1, <2>1, KeptWhenCarved
  <2>7. bufStart' \in [Queue -> HandlesOut']
    BY <1>1, <1>3, <2>4, <2>6 DEF VariablesOK, BuffersKept, HandlesOut
  <2>8. UNCHANGED checkMode
    BY <2>1 DEF CarveBuffers, coreVars
  <2> QED
    BY <1>1, <1>2, <2>2, <2>3, <2>5, <2>6, <2>7, <2>8, TensorsKept DEF CallDone, VariablesOK
<1>4. CASE InitTBufRefused(TBufMem, TileBytes) /\ UNCHANGED bufStart
  <2>1. Refuse(1)
    BY <1>4 DEF InitTBufRefused
  <2> QED
    BY <1>1, <1>2, <1>4, <2>1, RefusedCall, VariablesKept DEF CallDone
<1> QED
  BY <1>3, <1>4 DEF DoInitTBuf

\* A call that fills variable t from handle h.
LEMMA GetDone ==
  ASSUME BaseOK, VariablesOK, BaseOK', QueuesInTable', BuffersKept, UNCHANGED <<checkMode, destroyed>>,
         NEW t \in Queue, NEW h \in HandlesOut, Get(t, h), UNCHANGED <<bufStart, eventVar>>
  PROVE  CallDone
<1>1. TensorsOfBuffers'
  BY TensorsAfterGet DEF VariablesOK
<1> QED
  BY <1>1, BufStartKept DEF CallDone, VariablesOK

LEMMA DoGetDone ==
  ASSUME RunOK, NEW t \in Queue, DoGet(t)
  PROVE  CallDone
<1>1. BaseOK /\ QueuesInTable /\ VariablesOK /\ UNCHANGED <<coreVars, pipeVars, bufStart, eventVar>>
      /\ Get(t, bufStart[t])
  BY DEF RunOK, DoGet
<1>2. BaseOK'
  BY <1>1, BaseUnchanged
<1>3. UNCHANGED <<buf, curBufSize, queue, destroyed, checkMode>>
  BY <1>1 DEF pipeVars, coreVars
<1>4. bufStart[t] \in HandlesOut
  BY <1>1 DEF VariablesOK
<1> QED
  BY <1>1, <1>2, <1>3, <1>4, GetDone, NothingMoved, TableUnchanged

LEMMA NoHandleOut == NoHandle \in HandlesOut
  BY DEF HandlesOut

LEMMA AllocTensorDone ==
  ASSUME RunOK, NEW q \in Queue, DoAllocTensor(q)
  PROVE  CallDone
<1>1. BaseOK /\ QueuesInTable /\ VariablesOK /\ UNCHANGED <<bufStart, eventVar>>
  BY DEF RunOK, DoAllocTensor
<1>2. CASE AllocTensor(q) /\ Get(q, IdleSlot(q))
  <2>1. IdleSlot(q) \in HandlesOut /\ IdleSlot(q) \in Handle
    BY <1>1, <1>2, HandedOut DEF AllocTensor
  <2>2. IdleSlot(q) < curBufSize
    <3>1. IdleSlot(q) # NoHandle
      BY <2>1, TPipeAssumption DEF Handle, NoHandle
    <3> QED
      BY <1>1, <2>1, <3>1, OutIsHandle, TPipeAssumption DEF BaseOK, PipeTypeOK
  <2> QED
    BY <1>1, <1>2, <2>1, <2>2, QueueCall, GetDone
<1>3. CASE AllocTensorRefused(q) /\ Get(q, NoHandle)
  <2>1. Refuse(1)
    BY <1>3 DEF AllocTensorRefused
  <2> QED
    BY <1>1, <1>3, <2>1, RefusedCall, GetDone, NoHandleOut
<1> QED
  BY <1>2, <1>3 DEF DoAllocTensor

LEMMA DeQueDone ==
  ASSUME RunOK, NEW q \in Queue, DoDeQue(q)
  PROVE  CallDone
<1>1. BaseOK /\ QueuesInTable /\ VariablesOK /\ UNCHANGED <<bufStart, eventVar>>
  BY DEF RunOK, DoDeQue
<1>2. CASE (DeQue(q) \/ DeQueWrongState(q)) /\ Get(q, OldestSlot(q))
  <2>1. OldestSlot(q) \in HandlesOut
    BY <1>1, <1>2, HandedOut DEF DeQue, DeQueWrongState
  <2>2. OldestSlot(q) \in Handle
    BY <1>1, OldestIsHandle DEF BaseOK
  <2>3. OldestSlot(q) < curBufSize
    <3>1. OldestSlot(q) # NoHandle
      BY <2>2, TPipeAssumption DEF Handle, NoHandle
    <3> QED
      BY <1>1, <2>1, <3>1, OutIsHandle, TPipeAssumption DEF BaseOK, PipeTypeOK
  <2> QED
    BY <1>1, <1>2, <2>1, <2>2, <2>3, QueueCall, GetDone
<1>3. CASE DeQueEmpty(q) /\ Get(q, NoHandle)
  <2>1. Refuse(1)
    BY <1>3 DEF DeQueEmpty
  <2> QED
    BY <1>1, <1>3, <2>1, RefusedCall, GetDone, NoHandleOut
<1> QED
  BY <1>2, <1>3 DEF DoDeQue

LEMMA EnQueFreeDone ==
  ASSUME RunOK, NEW q \in Queue, DoEnQue(q) \/ DoFreeTensor(q)
  PROVE  CallDone
<1> DEFINE h == local[q].handle
<1>1. BaseOK /\ QueuesInTable /\ VariablesOK /\ UNCHANGED <<local, bufStart, eventVar>>
  BY DEF RunOK, DoEnQue, DoFreeTensor
<1>2. h \in HandlesOut
  BY <1>1 DEF VariablesOK, TensorsOfBuffers
<1>3. CASE h = NoHandle
  <2>1. UNCHANGED <<coreVars, pipeVars>>
    BY <1>3 DEF DoEnQue, DoFreeTensor
  <2>2. UNCHANGED <<buf, curBufSize, queue, destroyed, checkMode>>
    BY <2>1 DEF pipeVars, coreVars
  <2> QED
    BY <1>1, <2>1, <2>2, BaseUnchanged, NothingMoved, TableUnchanged, VariablesKept DEF CallDone
<1>4. CASE h # NoHandle
  <2>1. h \in Handle /\ h < curBufSize
    BY <1>1, <1>2, <1>4, OutIsHandle, TPipeAssumption DEF BaseOK, PipeTypeOK
  <2>2. EnQue(q, h) \/ EnQueRefused(q, h) \/ FreeTensor(q, h) \/ DoubleFree(q, h)
    BY <1>4 DEF DoEnQue, DoFreeTensor
  <2> HIDE DEF h
  <2>3. CASE EnQue(q, h) \/ FreeTensor(q, h)
    BY <1>1, <2>1, <2>3, QueueCall, VariablesKept DEF CallDone
  <2>4. CASE EnQueRefused(q, h) \/ DoubleFree(q, h)
    <3>1. Refuse(1)
      BY <2>4 DEF EnQueRefused, DoubleFree
    <3> QED
      BY <1>1, <3>1, RefusedCall, VariablesKept DEF CallDone
  <2> QED
    BY <2>2, <2>3, <2>4
<1> QED
  BY <1>3, <1>4

LEMMA WindowTyped ==
  ASSUME NEW t
  PROVE  Window(t) \subseteq Granule /\ Overflow(t) \in Nat
  BY DEF Window, Overflow, OneIf

\* An instruction, or a flag operation of the kernel's own.
LEMMA InstructionDone ==
  ASSUME RunOK, CoreTypeOK', UNCHANGED <<pipeVars, local, bufStart, eventVar, checkMode>>
  PROVE  CallDone
<1>1. UNCHANGED <<buf, curBufSize, maxAddr, eventOccupy, queue, destroyed>>
  BY DEF pipeVars
<1>2. BaseOK'
  BY <1>1 DEF RunOK, BaseOK, PipeTypeOK, Layout, TQueType
<1> QED
  BY <1>1, <1>2, NothingMoved, TableUnchanged, VariablesKept DEF RunOK, CallDone

LEMMA EventIdDone ==
  ASSUME RunOK, NEW e \in Event, DoAllocEventID(e) \/ DoReleaseEventID(e)
  PROVE  CallDone
<1>1. CoreTypeOK /\ PipeTypeOK /\ Layout /\ VariablesOK /\ QueuesInTable
  BY DEF RunOK, BaseOK
<1>2. UNCHANGED <<clock, view, flags, gran, checkMode, buf, curBufSize, maxAddr, destroyed, queue,
                  local, bufStart>>
  BY DEF DoAllocEventID, DoReleaseEventID, coreVars
<1>3. eventOccupy' \in [Event -> SUBSET EventId]
  BY <1>1, OccupyTyped DEF DoAllocEventID, DoReleaseEventID
<1>4. syncErrors' \in Nat
  <2>1. AllocEventIDErrors(e) \in Nat
    BY DEF AllocEventIDErrors, OneIf
  <2> QED
    BY <1>1, <2>1, ReportTyped DEF DoAllocEventID, DoReleaseEventID, coreVars, CoreTypeOK
<1>5. eventVar' \in [Event -> TEventID]
  BY <1>1, NextEventIDFree DEF DoAllocEventID, DoReleaseEventID, VariablesOK
<1>6. BaseOK'
  BY <1>1, <1>2, <1>3, <1>4 DEF BaseOK, CoreTypeOK, PipeTypeOK, Layout, TQueType
<1>7. BuffersKept
  BY <1>2, NothingMoved
<1> QED
  BY <1>1, <1>2, <1>5, <1>6, <1>7, TensorsKept, BufStartKept, TableUnchanged
     DEF CallDone, VariablesOK

LEMMA CallKeepsRunOK ==
  ASSUME RunOK, NEW c \in KernelCall, Do(c)
  PROVE  CallDone
<1> USE CallTyped DEF OnQueue, OnEvent
<1>0. CoreTypeOK
  BY DEF RunOK, BaseOK
<1>1. CASE c.op = "InitBuffer" /\ DoInitBuffer(c.on)
  BY <1>1, InitBufferDone
<1>2. CASE c.op = "InitTBuf" /\ DoInitTBuf(c.on)
  BY <1>2, InitTBufDone
<1>3. CASE c.op = "Get" /\ DoGet(c.on)
  BY <1>3, DoGetDone
<1>4. CASE c.op = "AllocTensor" /\ DoAllocTensor(c.on)
  BY <1>4, AllocTensorDone
<1>5. CASE \/ c.op = "EnQue" /\ DoEnQue(c.on)
           \/ c.op = "FreeTensor" /\ DoFreeTensor(c.on)
  BY <1>5, EnQueFreeDone
<1>6. CASE c.op = "DeQue" /\ DoDeQue(c.on)
  BY <1>6, DeQueDone
<1>7. CASE c.op = "CopyIn" /\ DoCopyIn(c.on)
  <2>1. CoreTypeOK'
    BY <1>0, <1>7, WindowTyped, InstructionTyped, KernelRunAssumption DEF DoCopyIn
  <2> QED
    BY <1>7, <2>1, InstructionDone DEF DoCopyIn, Instruction
<1>8. CASE c.op = "Add" /\ DoAdd(c.on)
  <2>1. CoreTypeOK'
    BY <1>0, <1>8, WindowTyped, InstructionTyped, KernelRunAssumption DEF DoAdd
  <2> QED
    BY <1>8, <2>1, InstructionDone DEF DoAdd, Instruction
<1>9. CASE c.op = "CopyOut" /\ DoCopyOut(c.on)
  <2>1. CoreTypeOK'
    BY <1>0, <1>9, WindowTyped, InstructionTyped, KernelRunAssumption DEF DoCopyOut
  <2> QED
    BY <1>9, <2>1, InstructionDone DEF DoCopyOut, Instruction
<1>10. CASE \/ c.op = "AllocEventID" /\ DoAllocEventID(c.on)
            \/ c.op = "ReleaseEventID" /\ DoReleaseEventID(c.on)
  BY <1>10, EventIdDone
<1>11. CASE c.op = "SetFlag" /\ DoSetFlag(c.on)
  <2>1. CoreTypeOK'
    BY <1>0, <1>11, SetFlagTyped DEF DoSetFlag
  <2> QED
    BY <1>11, <2>1, InstructionDone DEF DoSetFlag, SetFlag
<1>12. CASE c.op = "WaitFlag" /\ DoWaitFlag(c.on)
  <2>1. CoreTypeOK'
    BY <1>0, <1>12, WaitFlagTyped DEF DoWaitFlag
  <2> QED
    BY <1>12, <2>1, InstructionDone DEF DoWaitFlag, WaitFlag
<1> QED
  BY <1>1, <1>2, <1>3, <1>4, <1>5, <1>6, <1>7, <1>8, <1>9, <1>10, <1>11, <1>12 DEF Do

-----------------------------------------------------------------------------
(* Kernels, blocks and launches.                                           *)

LEMMA NewQueueEmpty ==
  ASSUME NEW q \in Queue
  PROVE  /\ NewPipe.queue[q] = NewQueue(q)
         /\ NewQueue(q).start = 0 /\ NewQueue(q).num = 0 /\ NewQueue(q).used = 0
         /\ \A i \in 0 .. (Depth[q] - 1) : NewQueue(q).ring[i] = 0
<1>1. NewPipe.queue[q] = NewQueue(q)
  BY DEF NewPipe
<1>2. NewQueue(q).start = 0 /\ NewQueue(q).num = 0 /\ NewQueue(q).used = 0
      /\ NewQueue(q).ring = [i \in 0 .. (Depth[q] - 1) |-> 0]
  BY DEF NewQueue
<1> QED
  BY <1>1, <1>2

LEMMA RunOKInit == RunInit => RunOK
<1> SUFFICES ASSUME RunInit PROVE RunOK
  OBVIOUS
<1>1. CoreInit /\ PipeInit /\ launch = 1 /\ block = 0 /\ pc = 1
      /\ local = FreshKernel.local /\ bufStart = FreshKernel.bufStart
      /\ eventVar = FreshKernel.eventVar
  BY DEF RunInit
<1>2. BaseOK
  BY <1>1, BaseInit
<1>3. curBufSize = 0 /\ queue = NewPipe.queue /\ checkMode = "Report"
  BY <1>1 DEF PipeInit, CoreInit
<1>4. QueuesInTable
  BY <1>3, NewQueueEmpty DEF QueuesInTable
<1>5. VariablesOK
  BY <1>1, NoHandleOut, NoIdTyped
     DEF VariablesOK, TensorsOfBuffers, FreshKernel, Tensor, NullTensor
<1>6. launch \in DOMAIN Main
  BY <1>1, KernelRunAssumption
<1>7. Launch \in KernelLaunches
  BY <1>6, KernelRunAssumption DEF Launch, Launches
<1>8. Launch.blocks \in Nat \ {0} /\ Len(Kernel) \in Nat
  BY <1>7 DEF KernelLaunches, Kernel
<1>9. ProgressOK
  BY <1>1, <1>3, <1>6, <1>8 DEF ProgressOK
<1> QED
  BY <1>2, <1>4, <1>5, <1>9 DEF RunOK

LEMMA RunOKNextCall ==
  ASSUME RunOK, NextCall
  PROVE  RunOK'
<1>1. ~ destroyed /\ pc <= Len(Kernel) /\ Do(Kernel[pc]) /\ pc' = pc + 1
      /\ UNCHANGED <<launch, block>>
  BY DEF NextCall, InProgress
<1>2. Kernel \in Seq(KernelCall) /\ Kernel[pc] \in KernelCall /\ Len(Kernel) \in Nat
  BY <1>1, LaunchTyped DEF RunOK
<1>3. CallDone
  BY <1>1, <1>2, CallKeepsRunOK
<1>4. Launch' = Launch /\ Kernel' = Kernel
  BY <1>1 DEF Launch, Kernel
<1>5. ProgressOK'
  BY <1>1, <1>2, <1>3, <1>4 DEF RunOK, ProgressOK, CallDone
<1> QED
  BY <1>3, <1>5 DEF RunOK, CallDone

LEMMA RunOKReturn ==
  ASSUME RunOK, Return
  PROVE  RunOK'
<1>1. Destroy /\ UNCHANGED runVars /\ BaseOK
  BY DEF Return, RunOK
<1>2. BaseOK' /\ InPlace
  BY <1>1, BaseDestroy
<1>3. UNCHANGED <<checkMode, curBufSize, queue, launch, block, pc, local, bufStart, eventVar>>
      /\ destroyed'
  BY <1>1 DEF Destroy, runVars
<1>4. BuffersKept
  BY <1>1, <1>2, <1>3, KeptInPlace
<1>5. QueuesInTable' /\ VariablesOK'
  BY <1>3, <1>4, TableUnchanged, VariablesKept DEF RunOK
<1>6. ProgressOK'
  BY <1>3 DEF RunOK, ProgressOK, Launch, Kernel
<1> QED
  BY <1>2, <1>5, <1>6 DEF RunOK

LEMMA RunOKNextBlock ==
  ASSUME RunOK, NextBlock
  PROVE  RunOK'
<1>1. /\ NextKernel /\ block + 1 < Launch.blocks /\ block' = block + 1 /\ pc' = 1
      /\ local' = FreshKernel.local /\ bufStart' = FreshKernel.bufStart
      /\ eventVar' = FreshKernel.eventVar /\ UNCHANGED launch
  BY DEF NextBlock
<1>2. BaseOK'
  BY <1>1, BaseNextKernel DEF RunOK
<1>3. curBufSize' = 0 /\ queue' = NewPipe.queue /\ UNCHANGED checkMode
  BY <1>1 DEF NextKernel, KernelLaunch
<1>4. QueuesInTable'
  BY <1>3, NewQueueEmpty DEF QueuesInTable
<1>5. VariablesOK'
  BY <1>1, NoIdTyped
     DEF VariablesOK, TensorsOfBuffers, FreshKernel, Tensor, NullTensor, HandlesOut
<1>6. ProgressOK'
  <2>1. Launch' = Launch /\ Kernel' = Kernel
    BY <1>1 DEF Launch, Kernel
  <2>2. Launch.blocks \in Nat /\ Len(Kernel) \in Nat
    BY LaunchTyped DEF RunOK, KernelLaunches
  <2>3. block \in Int /\ block >= -1
    BY <2>2 DEF RunOK, ProgressOK
  <2> QED
    BY <1>1, <1>3, <2>1, <2>2, <2>3 DEF RunOK, ProgressOK
<1> QED
  BY <1>2, <1>4, <1>5, <1>6 DEF RunOK

LEMMA RunOKNextLaunch ==
  ASSUME RunOK, NextLaunch
  PROVE  RunOK'
<1>1. /\ LaunchOver /\ launch < Len(Main) /\ launch' = launch + 1 /\ block' = -1 /\ pc' = 1
      /\ ClearSyncErrors /\ UNCHANGED <<pipeVars, local, bufStart, eventVar>>
  BY DEF NextLaunch
<1>2. UNCHANGED <<clock, view, flags, gran, checkMode, buf, curBufSize, maxAddr, eventOccupy,
                  destroyed, queue>> /\ syncErrors' = 0
  BY <1>1 DEF ClearSyncErrors, pipeVars
<1>3. BaseOK'
  BY <1>2 DEF RunOK, BaseOK, CoreTypeOK, PipeTypeOK, Layout, TQueType
<1>4. QueuesInTable' /\ VariablesOK'
  BY <1>1, <1>2, TableUnchanged, NothingMoved, VariablesKept DEF RunOK
<1>5. launch' \in DOMAIN Main
  BY <1>1, KernelRunAssumption DEF RunOK, ProgressOK
<1>6. Launch' \in KernelLaunches
  BY <1>5, KernelRunAssumption DEF Launch, Launches
<1>7. Launch'.blocks \in Nat \ {0} /\ Len(Kernel') \in Nat
  BY <1>6 DEF KernelLaunches, Kernel
<1>8. destroyed'
  BY <1>1, <1>2 DEF LaunchOver
<1>9. ProgressOK'
  BY <1>1, <1>2, <1>5, <1>7, <1>8 DEF RunOK, ProgressOK
<1> QED
  BY <1>3, <1>4, <1>9 DEF RunOK

LEMMA RunOKStutter ==
  ASSUME RunOK, UNCHANGED <<coreVars, pipeVars, runVars>>
  PROVE  RunOK'
<1>1. UNCHANGED <<buf, curBufSize, queue, destroyed, checkMode, launch, block, pc, local, bufStart,
                  eventVar>>
  BY DEF coreVars, pipeVars, runVars
<1>2. BaseOK'
  BY BaseUnchanged DEF RunOK
<1>3. QueuesInTable' /\ VariablesOK'
  BY <1>1, TableUnchanged, NothingMoved, VariablesKept DEF RunOK
<1>4. ProgressOK'
  BY <1>1 DEF RunOK, ProgressOK, Launch, Kernel
<1> QED
  BY <1>2, <1>3, <1>4 DEF RunOK

-----------------------------------------------------------------------------
(* The instructions.                                                       *)

Tiles == UNION {[D -> Granule] : D \in SUBSET Nat}

FlagInstrs == [op : {"SetFlag", "WaitFlag"}, pipe : Pipe, evt : Event, id : EventId]
DataInstrs == [op : {"CopyIn", "Add", "CopyOut"}, pipe : Pipe, on : Queue, tile : Nat, first : Nat,
               src0 : Tiles, src1 : Tiles, dst : Tiles]
Instrs     == FlagInstrs \cup DataInstrs

\* Every instruction is on the pipe that executes its kind.
Placed(i) ==
  /\ i.op = "SetFlag"  => i.pipe = EventSrcPipe[i.evt]
  /\ i.op = "WaitFlag" => i.pipe = EventDstPipe[i.evt]
  /\ i.op = "CopyIn"   => i.pipe = "MTE2" /\ i.src0 = NoTile /\ i.src1 = NoTile
  /\ i.op = "Add"      => i.pipe = "V"
  /\ i.op = "CopyOut"  => i.pipe = "MTE3" /\ i.src1 = NoTile /\ i.dst = NoTile

LEMMA InstrKinds ==
  ASSUME NEW i \in Instrs
  PROVE  /\ IsFlagOp(i) => i \in FlagInstrs
         /\ ~ IsFlagOp(i) => i \in DataInstrs
         /\ i.pipe \in Pipe
  BY DEF Instrs, FlagInstrs, DataInstrs, IsFlagOp

LEMMA TileGranules ==
  ASSUME NEW tile \in Tiles
  PROVE  /\ Granules(tile) \subseteq Granule
         /\ \A n \in DOMAIN tile : n \in Nat /\ tile[n] \in Granules(tile)
<1>1. PICK D \in SUBSET Nat : tile \in [D -> Granule]
  BY DEF Tiles
<1> QED
  BY <1>1 DEF Granules

LEMMA OperandGranules ==
  ASSUME NEW i \in Instrs
  PROVE  Sources(i) \subseteq Granule /\ Targets(i) \subseteq Granule
<1>1. CASE IsFlagOp(i)
  BY <1>1 DEF Sources, Targets
<1>2. CASE ~ IsFlagOp(i)
  <2>1. i.src0 \in Tiles /\ i.src1 \in Tiles /\ i.dst \in Tiles
    BY <1>2, InstrKinds DEF DataInstrs
  <2> QED
    BY <2>1, TileGranules DEF Sources, Targets
<1> QED
  BY <1>1, <1>2

LEMMA NoTileTyped == NoTile \in Tiles /\ Granules(NoTile) = {}
<1>1. NoTile \in [{} -> Granule]
  BY DEF NoTile
<1> QED
  BY <1>1 DEF Tiles, Granules

LEMMA TileTyped ==
  ASSUME ProgressOK, NEW t
  PROVE  Tile(t) \in Tiles
<1> DEFINE D == {m \in 0 .. (TileLength - 1) : At(t, m) \in Granule}
<1>1. D \in SUBSET Nat
  BY SharesTyped
<1>2. Tile(t) \in [D -> Granule]
  BY DEF Tile
<1> HIDE DEF D
<1> QED
  BY <1>1, <1>2 DEF Tiles

\* A tile-sized access to a tensor variable reaches the blocks its bytes lie in.
LEMMA TileReach ==
  ASSUME RunOK, NEW q \in Queue
  PROVE  /\ local[q].address \in Nat
         /\ Reach(local[q], TileBytes) = {local[q].hard} \X BlocksOf(local[q].address, TileBytes)
<1> DEFINE t == local[q]
<1>1. t = Tensor(t.handle) /\ t.handle \in HandlesOut /\ BaseOK /\ ProgressOK
  BY DEF RunOK, VariablesOK, TensorsOfBuffers
<1>2. TileBytes \in Nat
  BY <1>1, SharesTyped
<1>3. t.hard \in Mem /\ t.address \in Nat /\ t.address <= HardwareSize[t.hard]
  <2>1. CASE t.handle = NoHandle
    BY <1>1, <2>1, WordOfMemory, KernelRunAssumption DEF Tensor, NullTensor
  <2>2. CASE t.handle # NoHandle
    <3> DEFINE b == buf[t.handle]
    <3>1. t.handle \in 0 .. (curBufSize - 1) /\ t.handle \in Handle
      BY <1>1, <2>2, OutIsHandle DEF BaseOK
    <3>2. b.hard \in Mem /\ b.address \in Nat /\ b.dataLen \in Nat
      BY <1>1, <3>1 DEF BaseOK, PipeTypeOK, TBufType
    <3>3. b.address + b.dataLen <= maxAddr[b.hard] /\ maxAddr[b.hard] <= HardwareSize[b.hard]
      BY <1>1, <3>1, <3>2 DEF BaseOK, Layout
    <3>4. maxAddr[b.hard] \in Nat /\ HardwareSize[b.hard] \in Nat
      BY <1>1, <3>2, WordOfMemory DEF BaseOK, PipeTypeOK
    <3>5. t.hard = b.hard /\ t.address = b.address
      BY <1>1, <2>2 DEF Tensor
    <3> HIDE DEF b
    <3> QED
      BY <3>2, <3>3, <3>4, <3>5
  <2> QED
    BY <2>1, <2>2
<1>4. t.address + TileBytes + ONE_BLK_SIZE <= UINT32
  <2>1. /\ HardwareSize[t.hard] \in Nat
        /\ HardwareSize[t.hard] + TileBytes + ONE_BLK_SIZE <= UINT32
    BY <1>1, <1>3, TileAddressed
  <2> QED
    BY <1>2, <1>3, <2>1, TensorAssumption DEF ONE_BLK_SIZE
<1> QED
  BY <1>2, <1>3, <1>4, ReachIsBlocks

LEMMA FlagInstrTyped ==
  ASSUME NEW e \in Event, NEW id \in EventId
  PROVE  /\ SetInstr(e, id) \in Instrs /\ Placed(SetInstr(e, id))
         /\ WaitInstr(e, id) \in Instrs /\ Placed(WaitInstr(e, id))
  BY SyncCoreAssumption DEF SetInstr, WaitInstr, Instrs, FlagInstrs, Placed

\* One instruction or none.
One(issued) == \E i \in Instrs : issued = <<i>> /\ Placed(i)

LEMMA FlagIssue ==
  ASSUME NEW e \in Event, NEW id
  PROVE  /\ ValidId(SetInstr(e, id)) = <<>> \/ One(ValidId(SetInstr(e, id)))
         /\ ValidId(WaitInstr(e, id)) = <<>> \/ One(ValidId(WaitInstr(e, id)))
<1>1. CASE id \in EventId
  BY <1>1, FlagInstrTyped DEF ValidId, One
<1>2. CASE id \notin EventId
  BY <1>2 DEF ValidId, SetInstr, WaitInstr
<1> QED
  BY <1>1, <1>2

LEMMA DataIssue ==
  ASSUME ProgressOK, ~ destroyed, NEW c \in KernelCall, c.op \in {"CopyIn", "Add", "CopyOut"}
  PROVE  One(Issued(c))
<1>1. c.on \in Queue /\ c.tile \in Nat
  BY CallTyped DEF OnQueue
<1>2. GmOffset(c.tile) \in Nat
  BY <1>1, SharesTyped DEF ProgressOK
<1>3. \A t : Tile(t) \in Tiles
  BY TileTyped
<1>4. NoTile \in Tiles
  BY NoTileTyped
<1>5. CASE c.op = "CopyIn"
  <2> DEFINE i == [op |-> c.op, pipe |-> "MTE2", on |-> c.on, tile |-> c.tile,
                   first |-> GmOffset(c.tile), src0 |-> NoTile, src1 |-> NoTile,
                   dst |-> Tile(local[c.on])]
  <2>1. Issued(c) = <<i>>
    BY <1>5 DEF Issued, DataInstr
  <2>2. i \in DataInstrs
    BY <1>1, <1>2, <1>3, <1>4, <1>5, KernelRunAssumption DEF DataInstrs
  <2>3. Placed(i)
    BY <1>5 DEF Placed
  <2> QED
    BY <2>1, <2>2, <2>3 DEF One, Instrs
<1>6. CASE c.op = "Add"
  <2> DEFINE i == [op |-> c.op, pipe |-> "V", on |-> c.on, tile |-> c.tile,
                   first |-> GmOffset(c.tile), src0 |-> Tile(local["x"]),
                   src1 |-> Tile(local["y"]), dst |-> Tile(local[c.on])]
  <2>1. Issued(c) = <<i>>
    BY <1>6 DEF Issued, DataInstr
  <2>2. i \in DataInstrs
    BY <1>1, <1>2, <1>3, <1>4, <1>6, KernelRunAssumption DEF DataInstrs
  <2>3. Placed(i)
    BY <1>6 DEF Placed
  <2> QED
    BY <2>1, <2>2, <2>3 DEF One, Instrs
<1>7. CASE c.op = "CopyOut"
  <2> DEFINE i == [op |-> c.op, pipe |-> "MTE3", on |-> c.on, tile |-> c.tile,
                   first |-> GmOffset(c.tile), src0 |-> Tile(local[c.on]),
                   src1 |-> NoTile, dst |-> NoTile]
  <2>1. Issued(c) = <<i>>
    BY <1>7 DEF Issued, DataInstr
  <2>2. i \in DataInstrs
    BY <1>1, <1>2, <1>3, <1>4, <1>7, KernelRunAssumption DEF DataInstrs
  <2>3. Placed(i)
    BY <1>7 DEF Placed
  <2> QED
    BY <2>1, <2>2, <2>3 DEF One, Instrs
<1> QED
  BY <1>5, <1>6, <1>7

LEMMA IssuedTyped ==
  ASSUME ProgressOK, ~ destroyed, NEW c \in KernelCall
  PROVE  Issued(c) = <<>> \/ One(Issued(c))
<1> USE CallTyped, TPipeAssumption DEF OnQueue, OnEvent
<1>1. CASE c.op = "AllocTensor"
  <2>1. c.on \in Queue /\ FreeBufEvt[c.on] \in Event
    BY <1>1
  <2>2. Issued(c) = (IF HasIdleBuffer(c.on)
                       THEN ValidId(WaitInstr(FreeBufEvt[c.on], buf[IdleSlot(c.on)].freeBufEvtID))
                       ELSE <<>>)
    BY <1>1 DEF Issued
  <2> QED
    BY <2>1, <2>2, FlagIssue
<1>2. CASE c.op = "EnQue"
  <2>1. c.on \in Queue /\ EnQueEvt[c.on] \in Event
    BY <1>2
  <2>2. \/ Issued(c) = <<>>
        \/ Issued(c) = ValidId(SetInstr(EnQueEvt[c.on], NextEventID(EnQueEvt[c.on])))
    BY <1>2 DEF Issued
  <2> QED
    BY <2>1, <2>2, FlagIssue
<1>3. CASE c.op = "DeQue"
  <2>1. c.on \in Queue /\ EnQueEvt[c.on] \in Event
    BY <1>3
  <2>2. \/ Issued(c) = <<>>
        \/ Issued(c) = ValidId(WaitInstr(EnQueEvt[c.on], buf[OldestSlot(c.on)].enQueEvtID))
    BY <1>3 DEF Issued
  <2> QED
    BY <2>1, <2>2, FlagIssue
<1>4. CASE c.op = "FreeTensor"
  <2>1. c.on \in Queue /\ FreeBufEvt[c.on] \in Event
    BY <1>4
  <2>2. \/ Issued(c) = <<>>
        \/ Issued(c) = ValidId(SetInstr(FreeBufEvt[c.on], NextEventID(FreeBufEvt[c.on])))
    BY <1>4 DEF Issued
  <2> QED
    BY <2>1, <2>2, FlagIssue
<1>5. CASE c.op = "SetFlag"
  <2>1. c.on \in Event /\ Issued(c) = ValidId(SetInstr(c.on, eventVar[c.on]))
    BY <1>5 DEF Issued
  <2> QED
    BY <2>1, FlagIssue
<1>6. CASE c.op = "WaitFlag"
  <2>1. c.on \in Event /\ Issued(c) = ValidId(WaitInstr(c.on, eventVar[c.on]))
    BY <1>6 DEF Issued
  <2> QED
    BY <2>1, FlagIssue
<1>7. CASE c.op \in {"CopyIn", "Add", "CopyOut"}
  BY <1>7, DataIssue
<1>8. CASE c.op \notin {"AllocTensor", "EnQue", "DeQue", "FreeTensor", "SetFlag", "WaitFlag",
                        "CopyIn", "Add", "CopyOut"}
  BY <1>8 DEF Issued
<1> QED
  BY <1>1, <1>2, <1>3, <1>4, <1>5, <1>6, <1>7, <1>8

-----------------------------------------------------------------------------
(* The pipes.                                                              *)

\* Every pipe holds instructions of its own.
FifoOK ==
  /\ fifo \in [Pipe -> Seq(Instrs)]
  /\ \A p \in Pipe : \A n \in DOMAIN fifo[p] : fifo[p][n].pipe = p /\ Placed(fifo[p][n])

\* Only an instruction that moves data takes its time.
FlightOK ==
  /\ inFlight \subseteq Pipe
  /\ seen = [p \in Pipe |-> seen[p]]
  /\ \A p \in inFlight :
       /\ Busy(p) /\ ~ IsFlagOp(First(p))
       /\ seen[p] \in [Sources(First(p)) -> Content]

DataOK ==
  /\ reg \in [Event -> [EventId -> 0 .. FLAG_MAX]]
  /\ ub \in [Granule -> Content]
  /\ z \in [Index -> Content]

DrainedAtEnd == destroyed => Drained

PipesOK == RunOK /\ FifoOK /\ FlightOK /\ DataOK /\ DrainedAtEnd

LEMMA FirstTyped ==
  ASSUME FifoOK, NEW p \in Pipe, Busy(p)
  PROVE  /\ First(p) \in Instrs /\ First(p).pipe = p /\ Placed(First(p))
         /\ First(p) = fifo[p][1] /\ 1 \in DOMAIN fifo[p]
<1>1. fifo[p] \in Seq(Instrs) /\ fifo[p] # <<>>
  BY DEF FifoOK, Busy
<1>2. 1 \in DOMAIN fifo[p] /\ First(p) = fifo[p][1] /\ First(p) \in Instrs
  BY <1>1 DEF First
<1> QED
  BY <1>2 DEF FifoOK

\* The instruction the call issues comes last on its pipe, ...
LEMMA FifoAfterIssue ==
  ASSUME FifoOK, NEW i \in Instrs, Placed(i),
         fifo' = [p \in Pipe |-> IF Reaches(p, <<i>>) THEN Append(fifo[p], i) ELSE fifo[p]]
  PROVE  /\ FifoOK'
         /\ fifo'[i.pipe] = Append(fifo[i.pipe], i)
         /\ \A p \in Pipe \ {i.pipe} : fifo'[p] = fifo[p]
         /\ \A p \in Pipe : Busy(p) => Busy(p)' /\ First(p)' = First(p)
<1>1. i.pipe \in Pipe
  BY InstrKinds
<1>2. \A p \in Pipe : fifo'[p] = IF p = i.pipe THEN Append(fifo[p], i) ELSE fifo[p]
  BY DEF Reaches
<1>3. ASSUME NEW p \in Pipe
      PROVE  /\ fifo'[p] \in Seq(Instrs)
             /\ \A n \in DOMAIN fifo'[p] : fifo'[p][n].pipe = p /\ Placed(fifo'[p][n])
             /\ Busy(p) => Busy(p)' /\ First(p)' = First(p)
  <2>1. fifo[p] \in Seq(Instrs)
    BY DEF FifoOK
  <2>2. CASE p = i.pipe
    <3>1. fifo'[p] = Append(fifo[p], i)
      BY <1>2, <2>2
    <3>2. /\ fifo'[p] \in Seq(Instrs)
          /\ DOMAIN fifo'[p] = 1 .. (Len(fifo[p]) + 1) /\ DOMAIN fifo[p] = 1 .. Len(fifo[p])
          /\ fifo'[p][Len(fifo[p]) + 1] = i
          /\ \A n \in DOMAIN fifo[p] : fifo'[p][n] = fifo[p][n]
          /\ Len(fifo[p]) \in Nat
      BY <2>1, <3>1
    <3>3. ASSUME NEW n \in DOMAIN fifo'[p]
          PROVE  fifo'[p][n].pipe = p /\ Placed(fifo'[p][n])
      <4>1. CASE n = Len(fifo[p]) + 1
        BY <2>2, <3>2, <4>1
      <4>2. CASE n \in DOMAIN fifo[p]
        BY <3>2, <4>2 DEF FifoOK
      <4> QED
        BY <3>2, <4>1, <4>2
    <3>4. Busy(p) => Busy(p)' /\ First(p)' = First(p)
      BY <2>1, <3>1 DEF Busy, First
    <3> QED
      BY <3>2, <3>3, <3>4
  <2>3. CASE p # i.pipe
    <3>1. fifo'[p] = fifo[p]
      BY <1>2, <2>3
    <3> QED
      BY <2>1, <3>1 DEF FifoOK, Busy, First
  <2> QED
    BY <2>2, <2>3
<1>4. fifo' \in [Pipe -> Seq(Instrs)]
  <2>1. fifo' = [p \in Pipe |-> fifo'[p]]
    OBVIOUS
  <2> QED
    BY <1>3, <2>1
<1>5. FifoOK'
  BY <1>3, <1>4 DEF FifoOK
<1> QED
  BY <1>1, <1>2, <1>3, <1>5

\* ... and the one that is over leaves its pipe.
LEMMA FifoAfterRun ==
  ASSUME FifoOK, NEW p \in Pipe, Busy(p), fifo' = [fifo EXCEPT ![p] = Tail(@)]
  PROVE  /\ FifoOK'
         /\ fifo'[p] = Tail(fifo[p])
         /\ \A q \in Pipe \ {p} : fifo'[q] = fifo[q]
<1>1. fifo[p] \in Seq(Instrs) /\ fifo[p] # <<>>
  BY DEF FifoOK, Busy
<1>2. fifo'[p] = Tail(fifo[p]) /\ \A q \in Pipe \ {p} : fifo'[q] = fifo[q]
  BY DEF FifoOK
<1>3. /\ Tail(fifo[p]) \in Seq(Instrs)
      /\ \A n \in DOMAIN Tail(fifo[p]) : n + 1 \in DOMAIN fifo[p]
                                         /\ Tail(fifo[p])[n] = fifo[p][n + 1]
  BY <1>1
<1>4. fifo' \in [Pipe -> Seq(Instrs)]
  BY <1>3 DEF FifoOK
<1>5. ASSUME NEW q \in Pipe, NEW n \in DOMAIN fifo'[q]
      PROVE  fifo'[q][n].pipe = q /\ Placed(fifo'[q][n])
  <2>1. CASE q = p
    BY <1>2, <1>3, <2>1 DEF FifoOK
  <2>2. CASE q # p
    BY <1>2, <2>2 DEF FifoOK
  <2> QED
    BY <2>1, <2>2
<1> QED
  BY <1>2, <1>4, <1>5 DEF FifoOK

\* Contents stay contents.
LEMMA ComputedTyped ==
  ASSUME NEW i \in Instrs, Placed(i), NEW found \in [Sources(i) -> Content], NEW n \in DOMAIN i.dst,
         ~ IsFlagOp(i)
  PROVE  Computed(i, found, n) \in Content
<1>1. i \in DataInstrs
  BY InstrKinds
<1>2. /\ i.first \in Nat /\ i.op \in {"CopyIn", "Add", "CopyOut"}
      /\ i.src0 \in Tiles /\ i.src1 \in Tiles /\ i.dst \in Tiles
  BY <1>1 DEF DataInstrs
<1>3. n \in Nat
  BY <1>2, TileGranules
<1>4. CASE i.op = "CopyIn"
  BY <1>2, <1>3, <1>4 DEF Computed, Content, X, Y
<1>5. CASE i.op = "Add"
  <2>1. CASE n \in DOMAIN i.src0 \cap DOMAIN i.src1
    <3>1. found[i.src0[n]] \in Content /\ found[i.src1[n]] \in Content
      BY <1>2, <2>1, TileGranules DEF Sources
    <3> DEFINE a == found[i.src0[n]]
               b == found[i.src1[n]]
    <3>2. a[1] = "x" => a[2] \in Nat
      BY <3>1 DEF Content, Junk, Unwritten
    <3>3. Computed(i, found, n) = Added(a, b)
      BY <1>5, <2>1 DEF Computed
    <3> HIDE DEF a, b
    <3> QED
      BY <3>2, <3>3 DEF Added, Content, Sum, Junk
  <2>2. CASE n \notin DOMAIN i.src0 \cap DOMAIN i.src1
    BY <1>5, <2>2 DEF Computed, Content
  <2> QED
    BY <2>1, <2>2
<1>6. CASE i.op = "CopyOut"
  <2>1. i.dst = NoTile
    BY <1>6 DEF Placed
  <2> QED
    BY <2>1 DEF NoTile
<1> QED
  BY <1>2, <1>4, <1>5, <1>6

LEMMA StoredTyped ==
  ASSUME NEW i \in Instrs, Placed(i), NEW found \in [Sources(i) -> Content],
         NEW old \in [Granule -> Content]
  PROVE  Stored(i, found, old) \in [Granule -> Content]
<1> SUFFICES ASSUME NEW g \in Granule
             PROVE  Stored(i, found, old)[g] \in Content
  BY DEF Stored
<1>1. CASE g \in Targets(i)
  <2> DEFINE n == CHOOSE m \in DOMAIN i.dst : i.dst[m] = g
  <2>1. ~ IsFlagOp(i) /\ n \in DOMAIN i.dst
    BY <1>1 DEF Targets, Granules
  <2>2. Stored(i, found, old)[g] = Computed(i, found, n)
    BY <1>1 DEF Stored
  <2> HIDE DEF n
  <2> QED
    BY <2>1, <2>2, ComputedTyped
<1>2. CASE g \notin Targets(i)
  BY <1>2 DEF Stored
<1> QED
  BY <1>1, <1>2

LEMMA DeliveredTyped ==
  ASSUME NEW i \in Instrs, NEW found \in [Sources(i) -> Content], NEW old \in [Index -> Content]
  PROVE  Delivered(i, found, old) \in [Index -> Content]
<1>1. CASE i.op # "CopyOut"
  BY <1>1 DEF Delivered
<1>2. CASE i.op = "CopyOut"
  <2>1. ~ IsFlagOp(i) /\ i.src0 \in Tiles
    BY <1>2, InstrKinds DEF IsFlagOp, DataInstrs
  <2>2. ASSUME NEW k \in DOMAIN i.src0 PROVE found[i.src0[k]] \in Content
    BY <2>1, TileGranules DEF Sources
  <2> QED
    BY <1>2, <2>2 DEF Delivered
<1> QED
  BY <1>1, <1>2

LEMMA OperandsTyped ==
  ASSUME FlightOK, NEW p \in Pipe, p \in inFlight
  PROVE  Operands(p) \in [Sources(First(p)) -> Content]
  BY DEF FlightOK, Operands, Content

-----------------------------------------------------------------------------
(* The steps.                                                              *)

LEMMA PipesOKInit == Init => PipesOK
<1> SUFFICES ASSUME Init PROVE PipesOK
  OBVIOUS
<1>1. RunOK
  BY RunOKInit DEF Init
<1>2. /\ fifo = [p \in Pipe |-> <<>>] /\ inFlight = {} /\ seen = [p \in Pipe |-> NothingSeen]
      /\ reg = [e \in Event |-> [id \in EventId |-> 0]] /\ ub = [g \in Granule |-> Junk]
      /\ z = [i \in Index |-> Unwritten]
  BY DEF Init, HwInit, Idle
<1>3. FifoOK
  BY <1>2 DEF FifoOK
<1>4. FlightOK
  BY <1>2 DEF FlightOK
<1>5. DataOK
  BY <1>2, ConcurrentPipesAssumption DEF DataOK, Content
<1>6. Drained
  BY <1>2 DEF Drained, Busy
<1> QED
  BY <1>1, <1>3, <1>4, <1>5, <1>6 DEF PipesOK, DrainedAtEnd

LEMMA PipesOKIssue ==
  ASSUME PipesOK, Issue
  PROVE  PipesOK'
<1> DEFINE issued == Issued(Kernel[pc])
<1>1. /\ NextCall /\ UNCHANGED <<inFlight, seen, reg, ub, z>>
      /\ fifo' = [p \in Pipe |-> IF Reaches(p, issued) THEN Append(fifo[p], issued[1])
                                                      ELSE fifo[p]]
  BY DEF Issue
<1>2. ~ destroyed /\ pc <= Len(Kernel) /\ UNCHANGED launch
  BY <1>1 DEF NextCall, InProgress
<1>3. RunOK'
  BY <1>1, RunOKNextCall DEF PipesOK
<1>4. Kernel[pc] \in KernelCall
  BY <1>2, LaunchTyped DEF PipesOK, RunOK
<1>5. issued = <<>> \/ One(issued)
  BY <1>2, <1>4, IssuedTyped DEF PipesOK, RunOK
<1> HIDE DEF issued
<1>6. FifoOK' /\ \A p \in Pipe : Busy(p) => Busy(p)' /\ First(p)' = First(p)
  <2>1. CASE issued = <<>>
    <3>1. UNCHANGED fifo
      BY <1>1, <2>1 DEF PipesOK, FifoOK, Reaches
    <3> QED
      BY <3>1 DEF PipesOK, FifoOK, Busy, First
  <2>2. CASE One(issued)
    <3>1. PICK i \in Instrs : issued = <<i>> /\ Placed(i)
      BY <2>2 DEF One
    <3>2. issued[1] = i
      BY <3>1
    <3> QED
      BY <1>1, <3>1, <3>2, FifoAfterIssue DEF PipesOK
  <2> QED
    BY <1>5, <2>1, <2>2
<1>7. FlightOK'
  BY <1>1, <1>6 DEF PipesOK, FlightOK
<1>8. DataOK'
  BY <1>1, <1>2 DEF PipesOK, DataOK, Index, Launch
<1>9. ~ destroyed'
  BY <1>2, <1>3, <1>4, CallKeepsRunOK, <1>1 DEF NextCall, CallDone, PipesOK
<1> QED
  BY <1>3, <1>6, <1>7, <1>8, <1>9 DEF PipesOK, DrainedAtEnd

LEMMA NobodyInFlight ==
  ASSUME FlightOK, Drained
  PROVE  inFlight = {}
  BY DEF FlightOK, Drained

LEMMA PipesOKReturn ==
  ASSUME PipesOK, ReturnDrained
  PROVE  PipesOK'
<1>1. RunOK' /\ UNCHANGED <<fifo, inFlight, seen, reg, ub, z, launch>> /\ Drained
  BY RunOKReturn DEF ReturnDrained, PipesOK, Return, hwVars, runVars
<1>2. FifoOK' /\ FlightOK' /\ DataOK' /\ Drained'
  BY <1>1 DEF PipesOK, FifoOK, FlightOK, DataOK, Drained, Busy, First, Index, Launch
<1> QED
  BY <1>1, <1>2 DEF PipesOK, DrainedAtEnd

LEMMA PipesOKStartBlock ==
  ASSUME PipesOK, StartBlock
  PROVE  PipesOK'
<1>1. RunOK' /\ UNCHANGED <<fifo, inFlight, seen, z, launch>> /\ reg' = Idle.reg /\ ub' = Idle.ub
  BY RunOKNextBlock DEF StartBlock, PipesOK, NextBlock
<1>2. FifoOK' /\ FlightOK'
  BY <1>1 DEF PipesOK, FifoOK, FlightOK, Busy, First
<1>3. DataOK'
  BY <1>1, ConcurrentPipesAssumption DEF PipesOK, DataOK, Index, Launch, Idle, Content
<1>4. ~ destroyed'
  BY DEF StartBlock, NextBlock, NextKernel
<1> QED
  BY <1>1, <1>2, <1>3, <1>4 DEF PipesOK, DrainedAtEnd

LEMMA PipesOKStartLaunch ==
  ASSUME PipesOK, StartLaunch
  PROVE  PipesOK'
<1>1. /\ RunOK' /\ UNCHANGED <<fifo, inFlight, seen, reg, ub>>
      /\ launch' = launch + 1 /\ destroyed
      /\ z' = [i \in 0 .. (Main[launch + 1].length - 1) |-> Unwritten]
  BY RunOKNextLaunch DEF StartLaunch, PipesOK, NextLaunch, LaunchOver
<1>2. FifoOK' /\ FlightOK'
  BY <1>1 DEF PipesOK, FifoOK, FlightOK, Busy, First
<1>3. Launch' = Main[launch + 1]
  BY <1>1 DEF RunOK, ProgressOK, Launch, Launches
<1>4. DataOK'
  BY <1>1, <1>3 DEF PipesOK, DataOK, Index, Content
<1>5. Drained'
  BY <1>1 DEF PipesOK, DrainedAtEnd, Drained, Busy
<1> QED
  BY <1>1, <1>2, <1>4, <1>5 DEF PipesOK, DrainedAtEnd

\* A step of pipe p leaves the kernel alone.
LEMMA KernelUnmoved ==
  ASSUME PipesOK, NEW p \in Pipe, Busy(p), UNCHANGED <<coreVars, pipeVars, runVars>>
  PROVE  /\ RunOK' /\ ~ destroyed' /\ DrainedAtEnd' /\ Index' = Index
<1>1. RunOK' /\ UNCHANGED <<destroyed, launch>>
  BY RunOKStutter DEF PipesOK, pipeVars, runVars
<1>2. ~ destroyed
  BY DEF PipesOK, DrainedAtEnd, Drained
<1> QED
  BY <1>1, <1>2 DEF DrainedAtEnd, Index, Launch

LEMMA PipesOKStart ==
  ASSUME PipesOK, NEW p \in Pipe, Start(p)
  PROVE  PipesOK'
<1>1. /\ Busy(p) /\ ~ IsFlagOp(First(p)) /\ p \notin inFlight
      /\ inFlight' = inFlight \cup {p}
      /\ seen' = [seen EXCEPT ![p] = [g \in Sources(First(p)) |-> ub[g]]]
      /\ ub' = [g \in Granule |-> IF g \in Targets(First(p)) THEN Junk ELSE ub[g]]
      /\ UNCHANGED <<coreVars, pipeVars, runVars>> /\ UNCHANGED <<fifo, reg, z>>
  BY DEF Start
<1>2. RunOK' /\ DrainedAtEnd' /\ Index' = Index
  BY <1>1, KernelUnmoved
<1>3. FifoOK'
  BY <1>1 DEF PipesOK, FifoOK
<1>4. Sources(First(p)) \subseteq Granule
  BY <1>1, FirstTyped, OperandGranules DEF PipesOK
<1>5. [g \in Sources(First(p)) |-> ub[g]] \in [Sources(First(p)) -> Content]
  BY <1>4 DEF PipesOK, DataOK
<1>6. FlightOK'
  BY <1>1, <1>5 DEF PipesOK, FlightOK, Busy, First
<1>7. DataOK'
  BY <1>1, <1>2 DEF PipesOK, DataOK, Content
<1> QED
  BY <1>2, <1>3, <1>6, <1>7 DEF PipesOK

LEMMA PipesOKComplete ==
  ASSUME PipesOK, NEW p \in Pipe, Complete(p)
  PROVE  PipesOK'
<1>1. /\ p \in inFlight
      /\ ub' = Stored(First(p), Operands(p), ub)
      /\ z' = Delivered(First(p), Operands(p), z)
      /\ fifo' = [fifo EXCEPT ![p] = Tail(@)]
      /\ inFlight' = inFlight \ {p}
      /\ seen' = [seen EXCEPT ![p] = NothingSeen]
      /\ UNCHANGED <<coreVars, pipeVars, runVars>> /\ UNCHANGED reg
  BY DEF Complete
<1>2. Busy(p)
  BY <1>1 DEF PipesOK, FlightOK
<1>3. RunOK' /\ DrainedAtEnd' /\ Index' = Index
  BY <1>1, <1>2, KernelUnmoved
<1>4. FifoOK' /\ \A q \in Pipe \ {p} : fifo'[q] = fifo[q]
  BY <1>1, <1>2, FifoAfterRun DEF PipesOK
<1>5. First(p) \in Instrs /\ Placed(First(p)) /\ Operands(p) \in [Sources(First(p)) -> Content]
  BY <1>1, <1>2, FirstTyped, OperandsTyped DEF PipesOK
<1>6. FlightOK'
  BY <1>1, <1>4 DEF PipesOK, FlightOK, Busy, First
<1>7. ub' \in [Granule -> Content] /\ z' \in [Index' -> Content]
  BY <1>1, <1>3, <1>5, StoredTyped, DeliveredTyped DEF PipesOK, DataOK
<1> QED
  BY <1>1, <1>3, <1>4, <1>6, <1>7 DEF PipesOK, DataOK

LEMMA PipesOKFlag ==
  ASSUME PipesOK, NEW p \in Pipe, Raise(p) \/ Await(p)
  PROVE  PipesOK'
<1> DEFINE i == First(p)
<1>1. /\ Busy(p) /\ IsFlagOp(i)
      /\ fifo' = [fifo EXCEPT ![p] = Tail(@)]
      /\ UNCHANGED <<coreVars, pipeVars, runVars>> /\ UNCHANGED <<inFlight, seen, ub, z>>
  BY DEF Raise, Await, IsFlagOp
<1>2. RunOK' /\ DrainedAtEnd' /\ Index' = Index
  BY <1>1, KernelUnmoved
<1>3. FifoOK' /\ \A q \in Pipe \ {p} : fifo'[q] = fifo[q]
  BY <1>1, FifoAfterRun DEF PipesOK
<1>4. p \notin inFlight
  BY <1>1 DEF PipesOK, FlightOK
<1>5. FlightOK'
  BY <1>1, <1>3, <1>4 DEF PipesOK, FlightOK, Busy, First
<1>6. i \in FlagInstrs
  BY <1>1, FirstTyped, InstrKinds DEF PipesOK
<1>7. i.evt \in Event /\ i.id \in EventId
  BY <1>6 DEF FlagInstrs
<1> HIDE DEF i
<1>8. reg[i.evt][i.id] \in 0 .. FLAG_MAX /\ FLAG_MAX \in Nat \ {0}
  BY <1>7, ConcurrentPipesAssumption DEF PipesOK, DataOK
<1>9. reg' \in [Event -> [EventId -> 0 .. FLAG_MAX]]
  <2>1. CASE Raise(p)
    <3> DEFINE m == Min({reg[i.evt][i.id] + 1, FLAG_MAX})
    <3>1. m \in 0 .. FLAG_MAX
      <4>1. {reg[i.evt][i.id] + 1, FLAG_MAX} \in SUBSET Nat
        BY <1>8
      <4>2. m \in {reg[i.evt][i.id] + 1, FLAG_MAX} /\ m <= FLAG_MAX
        BY <4>1, MinIsLeast
      <4> QED
        BY <1>8, <4>1, <4>2
    <3>2. reg' = [reg EXCEPT ![i.evt][i.id] = m]
      BY <2>1 DEF Raise, i
    <3> HIDE DEF m
    <3> QED
      BY <1>7, <3>1, <3>2 DEF PipesOK, DataOK
  <2>2. CASE Await(p)
    <3>1. reg' = [reg EXCEPT ![i.evt][i.id] = reg[i.evt][i.id] - 1] /\ reg[i.evt][i.id] > 0
      BY <2>2 DEF Await, i
    <3>2. reg[i.evt][i.id] - 1 \in 0 .. FLAG_MAX
      BY <1>8, <3>1
    <3> QED
      BY <1>7, <3>1, <3>2 DEF PipesOK, DataOK
  <2> QED
    BY <2>1, <2>2
<1>10. DataOK'
  BY <1>1, <1>2, <1>9 DEF PipesOK, DataOK
<1> QED
  BY <1>2, <1>3, <1>5, <1>10 DEF PipesOK

LEMMA PipesOKStutter ==
  ASSUME PipesOK, UNCHANGED vars
  PROVE  PipesOK'
<1>1. /\ UNCHANGED <<coreVars, pipeVars, runVars>>
      /\ UNCHANGED <<fifo, inFlight, seen, reg, ub, z, launch, destroyed>>
  BY DEF vars, hwVars, runVars, pipeVars
<1>2. RunOK'
  BY <1>1, RunOKStutter DEF PipesOK
<1>3. FifoOK' /\ FlightOK' /\ DataOK' /\ DrainedAtEnd'
  BY <1>1 DEF PipesOK, FifoOK, FlightOK, DataOK, DrainedAtEnd, Drained, Busy, First, Index, Launch
<1> QED
  BY <1>2, <1>3 DEF PipesOK

LEMMA PipesOKStep ==
  ASSUME PipesOK, [Next]_vars
  PROVE  PipesOK'
<1>1. CASE Host
  BY <1>1, PipesOKIssue, PipesOKReturn, PipesOKStartBlock, PipesOKStartLaunch DEF Host
<1>2. CASE \E p \in Pipe : RunPipe(p)
  BY <1>2, PipesOKStart, PipesOKComplete, PipesOKFlag DEF RunPipe
<1>3. CASE Finished \/ UNCHANGED vars
  BY <1>3, PipesOKStutter DEF Finished
<1> QED
  BY <1>1, <1>2, <1>3 DEF Next

LEMMA PipesOKAlways == Spec => []PipesOK
  BY PipesOKInit, PipesOKStep, PTL DEF Spec

\* The kernel, the simulator and the pipes stay well typed, whatever is
\* launched and in whatever order the pipes run.
THEOREM PipesTyped == Spec => []TypeOK
<1>1. PipesOK => TypeOK
  <2> SUFFICES ASSUME PipesOK PROVE TypeOK
    OBVIOUS
  <2>1. \A h \in HandlesOut : h \in Handle \cup {NoHandle}
    BY OutIsHandle DEF PipesOK, RunOK, BaseOK
  <2>2. \A t \in Queue : local[t] \in LocalTensor
    BY TensorUnwrapped DEF PipesOK, RunOK, VariablesOK, TensorsOfBuffers
  <2>3. local \in [Queue -> LocalTensor]
    BY <2>2 DEF PipesOK, RunOK, VariablesOK, TensorsOfBuffers
  <2>4. RunTypeOK
    BY <2>1, <2>3 DEF PipesOK, RunOK, BaseOK, ProgressOK, VariablesOK, RunTypeOK
  <2>5. inFlight \subseteq {p \in Pipe : fifo[p] # <<>>}
    BY DEF PipesOK, FlightOK, Busy
  <2> QED
    BY <2>4, <2>5 DEF PipesOK, DataOK, TypeOK
<1> QED
  BY <1>1, PipesOKAlways, PTL

\* Whatever the kernels ask of InitBuffer, their buffers never overlap.
THEOREM PipesBuffersDisjoint == Spec => []BuffersDisjoint
<1>1. PipesOK => BuffersDisjoint
  BY LayoutDisjoint DEF PipesOK, RunOK, BaseOK
<1> QED
  BY <1>1, PipesOKAlways, PTL

\* Whatever part of a tensor a kernel holds it accesses, if CheckFits lets it,
\* it stays inside the buffer behind the tensor.
THEOREM SlicesInTheirBuffers == Spec => []SlicesStayInside
<1>1. PipesOK => SlicesStayInside
  <2> SUFFICES ASSUME PipesOK, NEW t \in Queue, local[t].handle # NoHandle,
                      NEW offset \in 0 .. local[t].dataLen, NEW bytes \in 0 .. local[t].dataLen,
                      Fits(Slice(local[t], offset), bytes)
               PROVE  Reach(Slice(local[t], offset), bytes) \subseteq BufferGranules(local[t].handle)
    BY DEF SlicesStayInside
  <2> DEFINE h == local[t].handle
  <2>1. h \in HandlesOut /\ local[t] = Tensor(h) /\ h # NoHandle
    BY DEF PipesOK, RunOK, VariablesOK, TensorsOfBuffers
  <2>2. local[t] \in Unwrapped(Handle \cup {NoHandle}, Mem)
    BY <2>1, TensorUnwrapped DEF PipesOK, RunOK
  <2>3. bytes \in Nat
    BY <2>2, TensorAssumption DEF Unwrapped, Word
  <2>4. Reach(Slice(local[t], offset), bytes) \subseteq Reach(local[t], local[t].dataLen)
    BY <2>2, <2>3, SliceInside
  <2>5. Reach(local[t], local[t].dataLen) = {local[t].hard} \X BlocksOf(local[t].address, local[t].dataLen)
    BY <2>2, ReachIsBlocks, TensorAssumption DEF Unwrapped, Word
  <2>6. Reach(local[t], local[t].dataLen) = BufferGranules(h)
    BY <2>1, <2>5 DEF BufferGranules, Tensor
  <2> QED
    BY <2>4, <2>6
<1> QED
  BY <1>1, PipesOKAlways, PTL

\* What a slice keeps is not checked past the end of its tensor: the length
\* wraps around, and from the tensor of one buffer a slice that CheckFits
\* accepts reaches all of any later buffer in the same memory.
SlicesReachOthers ==
  \A h, k \in 0 .. (curBufSize - 1) :
    h < k /\ buf[h].hard = buf[k].hard /\ buf[k].dataLen > 0 =>
      \E offset \in Word, bytes \in 1 .. buf[k].dataLen :
        /\ Fits(Slice(Tensor(h), offset), bytes)
        /\ Reach(Slice(Tensor(h), offset), bytes) = BufferGranules(k)

\* No kernel of the repository slices, but one that did could, in any state,
\* reach from one of its buffers the granules of every later one, and no other
\* check than that of the granules would speak (operator[], CheckFits).
THEOREM SlicePastTheEnd == Spec => []SlicesReachOthers
<1>1. PipesOK => SlicesReachOthers
  <2> SUFFICES ASSUME PipesOK,
                      NEW h \in 0 .. (curBufSize - 1), NEW k \in 0 .. (curBufSize - 1),
                      h < k, buf[h].hard = buf[k].hard, buf[k].dataLen > 0
               PROVE  \E offset \in Word, bytes \in 1 .. buf[k].dataLen :
                        /\ Fits(Slice(Tensor(h), offset), bytes)
                        /\ Reach(Slice(Tensor(h), offset), bytes) = BufferGranules(k)
    BY DEF SlicesReachOthers
  <2> DEFINE s == Tensor(h)   t == Tensor(k)
  <2>1. BaseOK
    BY DEF PipesOK, RunOK
  <2>2. h \in HandlesOut /\ k \in HandlesOut /\ h # NoHandle /\ k # NoHandle
    BY DEF HandlesOut, NoHandle
  <2>3. /\ s \in Unwrapped(Handle \cup {NoHandle}, Mem)
        /\ t \in Unwrapped(Handle \cup {NoHandle}, Mem)
    BY <2>1, <2>2, TensorUnwrapped
  <2>4. /\ s.hard = buf[h].hard /\ s.address = buf[h].address /\ s.dataLen = buf[h].dataLen
        /\ t.hard = buf[k].hard /\ t.address = buf[k].address /\ t.dataLen = buf[k].dataLen
    BY <2>2 DEF Tensor
  <2>5. /\ s.address \in Nat /\ s.dataLen \in Nat /\ t.address \in Nat /\ t.dataLen \in Nat
        /\ t.address + t.dataLen + 32 <= UINT32
    BY <2>3, TensorAssumption DEF Unwrapped, Word, ONE_BLK_SIZE
  <2>6. s.address + s.dataLen <= t.address
    BY <2>1, <2>4 DEF BaseOK, Layout
  <2>7. t.address % 32 = 0 /\ t.dataLen % 32 = 0 /\ t.dataLen > 0
    BY <2>1, <2>4 DEF BaseOK, Layout, ONE_BLK_SIZE
  <2> HIDE DEF s, t
  <2> DEFINE offset == t.address - s.address + 16
             bytes  == t.dataLen - 16
  <2>8. offset \in Word /\ bytes \in 1 .. t.dataLen /\ bytes \in Nat
    BY <2>5, <2>6, <2>7, TensorAssumption DEF Word
  <2>9. /\ s.dataLen < offset /\ s.address + offset = t.address + 16
        /\ s.address + offset + bytes + ONE_BLK_SIZE <= UINT32
    BY <2>5, <2>6, TensorAssumption DEF ONE_BLK_SIZE
  <2> HIDE DEF offset, bytes
  <2>10. /\ Fits(Slice(s, offset), bytes)
         /\ Reach(Slice(s, offset), bytes) = {s.hard} \X BlocksOf(s.address + offset, bytes)
    BY <2>3, <2>8, <2>9, SliceBeyond
  <2>11. BlocksOf(t.address + 16, bytes) = BlocksOf(t.address, t.dataLen)
    <3>1. (t.address + 16) \div 32 = t.address \div 32
      BY <2>5, <2>7
    <3>2. t.address + 16 + bytes + 32 - 1 = t.address + t.dataLen + 32 - 1
      BY <2>5 DEF bytes
    <3> QED
      BY <3>1, <3>2 DEF BlocksOf, ONE_BLK_SIZE
  <2>12. Reach(Slice(s, offset), bytes) = BufferGranules(k)
    BY <2>4, <2>9, <2>10, <2>11 DEF BufferGranules
  <2> QED
    BY <2>4, <2>8, <2>10, <2>12 DEF s
<1> QED
  BY <1>1, PipesOKAlways, PTL

-----------------------------------------------------------------------------
(* What a call does to the clocks, as long as nothing is reported.         *)

Silent == UNCHANGED <<clock, view, flags, gran>>

SetsFlag(i) ==
  /\ i.op = "SetFlag" /\ ~ flags[i.evt][i.id].pending
  /\ flags' = FlagsAfterSet(i.evt, i.id)
  /\ UNCHANGED <<clock, view, gran>>

WaitsForFlag(i) ==
  /\ i.op = "WaitFlag" /\ flags[i.evt][i.id].pending
  /\ view' = ViewAfterWait(i.evt, i.id)
  /\ flags' = FlagsAfterWait(i.evt, i.id)
  /\ UNCHANGED <<clock, gran>>

MovesData(i) ==
  ~ IsFlagOp(i) /\ Instruction(i.pipe, Granules(i.src0), Granules(i.src1), Granules(i.dst), 0)

Effect(i) == SetsFlag(i) \/ WaitsForFlag(i) \/ MovesData(i)

\* The call issues nothing, or one instruction.
CallEffect(c) ==
  \/ Issued(c) = <<>> /\ Silent
  \/ \E i \in Instrs : Issued(c) = <<i>> /\ Placed(i) /\ Effect(i)

LEMMA NothingReported ==
  ASSUME RunOK, NEW n \in Nat, ReportSyncErrors(n), syncErrors' = 0
  PROVE  syncErrors = 0 /\ n = 0
<1>1. checkMode = "Report" /\ syncErrors \in Nat
  BY DEF RunOK, ProgressOK, BaseOK, CoreTypeOK
<1> QED
  BY <1>1 DEF ReportSyncErrors

LEMMA SetEffect ==
  ASSUME NEW e \in Event, NEW id, SetFlagErrors(e, id) = 0,
         flags' = FlagsAfterSet(e, id), UNCHANGED <<clock, view, gran>>
  PROVE  \E i \in Instrs : ValidId(SetInstr(e, id)) = <<i>> /\ Placed(i) /\ Effect(i)
<1> DEFINE i == SetInstr(e, id)
<1>1. id \in EventId /\ ~ flags[e][id].pending
  BY DEF SetFlagErrors, OneIf
<1>2. i \in Instrs /\ Placed(i)
  BY <1>1, FlagInstrTyped
<1>3. i.op = "SetFlag" /\ i.evt = e /\ i.id = id
  BY DEF SetInstr
<1>4. SetsFlag(i)
  BY <1>1, <1>3 DEF SetsFlag
<1>5. ValidId(i) = <<i>>
  BY <1>1, <1>3 DEF ValidId
<1> QED
  BY <1>2, <1>4, <1>5 DEF Effect

LEMMA WaitEffect ==
  ASSUME NEW e \in Event, NEW id, WaitFlagErrors(e, id) = 0,
         view' = ViewAfterWait(e, id), flags' = FlagsAfterWait(e, id), UNCHANGED <<clock, gran>>
  PROVE  \E i \in Instrs : ValidId(WaitInstr(e, id)) = <<i>> /\ Placed(i) /\ Effect(i)
<1> DEFINE i == WaitInstr(e, id)
<1>1. id \in EventId /\ flags[e][id].pending
  BY DEF WaitFlagErrors, Raised, OneIf
<1>2. i \in Instrs /\ Placed(i)
  BY <1>1, FlagInstrTyped
<1>3. i.op = "WaitFlag" /\ i.evt = e /\ i.id = id
  BY DEF WaitInstr
<1>4. WaitsForFlag(i)
  BY <1>1, <1>3 DEF WaitsForFlag
<1>5. ValidId(i) = <<i>>
  BY <1>1, <1>3 DEF ValidId
<1> QED
  BY <1>2, <1>4, <1>5 DEF Effect

\* Buffers start on a block, so the simulator checks what the pipes touch,
\* and no more.
LEMMA WindowIsTile ==
  ASSUME RunOK, NEW q \in Queue
  PROVE  Window(local[q]) = Granules(Tile(local[q]))
<1> DEFINE t == local[q]
<1>1. t = Tensor(t.handle) /\ t.handle \in HandlesOut /\ BaseOK
  BY DEF RunOK, VariablesOK, TensorsOfBuffers
<1>2. t.address \in Nat /\ t.address % 32 = 0
  <2>1. CASE t.handle = NoHandle
    BY <1>1, <2>1 DEF Tensor, NullTensor
  <2>2. CASE t.handle # NoHandle
    <3>1. t.handle \in 0 .. (curBufSize - 1) /\ t.handle \in Handle
      BY <1>1, <2>2, OutIsHandle DEF BaseOK
    <3>2. buf[t.handle] \in TBufType
      BY <1>1, <3>1 DEF BaseOK, PipeTypeOK
    <3>3. t.address = buf[t.handle].address
      BY <1>1, <2>2 DEF Tensor
    <3>4. buf[t.handle].address % 32 = 0
      BY <1>1, <3>1 DEF BaseOK, Layout, ONE_BLK_SIZE
    <3> QED
      BY <3>2, <3>3, <3>4 DEF TBufType
  <2> QED
    BY <2>1, <2>2
<1>3. TileLength \in Nat /\ TileBytes = TileLength * 32
  BY SharesTyped DEF RunOK, TileBytes, ONE_BLK_SIZE
<1>4. Window(t) = ({t.hard} \X BlocksOf(t.address, TileBytes)) \cap Granule
  BY TileReach DEF Window
<1>5. ASSUME NEW g \in Granules(Tile(t)) PROVE g \in Window(t)
  <2>1. PICK n \in 0 .. (TileLength - 1) : At(t, n) \in Granule /\ g = At(t, n)
    BY <1>5 DEF Granules, Tile
  <2>2. (t.address \div 32) + n \in BlocksOf(t.address, TileBytes)
    BY <1>2, <1>3 DEF BlocksOf, ONE_BLK_SIZE
  <2> QED
    BY <1>4, <2>1, <2>2 DEF At, ONE_BLK_SIZE
<1>6. ASSUME NEW g \in Window(t) PROVE g \in Granules(Tile(t))
  <2>1. PICK b \in BlocksOf(t.address, TileBytes) : g = <<t.hard, b>> /\ g \in Granule
    BY <1>4, <1>6
  <2> DEFINE n == b - (t.address \div 32)
  <2>2. b \in Int /\ n \in 0 .. (TileLength - 1) /\ (t.address \div 32) + n = b
    BY <1>2, <1>3, <2>1 DEF BlocksOf, ONE_BLK_SIZE
  <2>3. g = At(t, n)
    BY <2>1, <2>2 DEF At, ONE_BLK_SIZE
  <2> HIDE DEF n
  <2> QED
    BY <2>1, <2>2, <2>3 DEF Granules, Tile
<1> QED
  BY <1>5, <1>6

LEMMA NothingAddedUp ==
  ASSUME NEW n \in Nat, NEW a \in Nat, NEW b \in Nat, NEW c \in Nat, n + a + b + c = 0
  PROVE  n = 0 /\ a = 0 /\ b = 0 /\ c = 0
  OBVIOUS

\* An instruction nothing was reported of.
LEMMA CleanInstruction ==
  ASSUME RunOK, NEW p \in Pipe, NEW s0, NEW s1, NEW d, NEW n \in Nat,
         Instruction(p, s0, s1, d, n), syncErrors' = 0
  PROVE  syncErrors = 0 /\ n = 0
         /\ TouchErrors(p, s0, s1, d)[1] = 0
         /\ TouchErrors(p, s0, s1, d)[2] = 0
         /\ TouchErrors(p, s0, s1, d)[3] = 0
<1> DEFINE touch == TouchErrors(p, s0, s1, d)
<1>1. touch[1] \in Nat /\ touch[2] \in Nat /\ touch[3] \in Nat
  BY CheckTyped DEF TouchErrors
<1>2. ReportSyncErrors(n + touch[1] + touch[2] + touch[3])
  BY DEF Instruction
<1> HIDE DEF touch
<1>3. n + touch[1] + touch[2] + touch[3] \in Nat
  BY <1>1
<1>4. syncErrors = 0 /\ n + touch[1] + touch[2] + touch[3] = 0
  <2>1. PICK m \in Nat : m = n + touch[1] + touch[2] + touch[3]
    BY <1>3
  <2>2. ReportSyncErrors(m)
    BY <1>2, <2>1
  <2> QED
    BY <2>1, <2>2, NothingReported
<1>5. n = 0 /\ touch[1] = 0 /\ touch[2] = 0 /\ touch[3] = 0
  <2>1. PICK a \in Nat, b \in Nat, c \in Nat : a = touch[1] /\ b = touch[2] /\ c = touch[3]
    BY <1>1
  <2>2. n + a + b + c = 0
    BY <1>4, <2>1
  <2>3. n = 0 /\ a = 0 /\ b = 0 /\ c = 0
    BY <2>2, NothingAddedUp
  <2> QED
    BY <2>1, <2>3, Zenon
<1> QED
  BY <1>4, <1>5 DEF touch

LEMMA DataEffect ==
  ASSUME RunOK, ~ destroyed, NEW c \in KernelCall, Do(c), syncErrors' = 0,
         c.op \in {"CopyIn", "Add", "CopyOut"}
  PROVE  syncErrors = 0 /\ CallEffect(c)
<1>1. PICK i \in Instrs : Issued(c) = <<i>> /\ Placed(i)
  BY DataIssue DEF RunOK, One
<1>2. c.on \in Queue /\ "x" \in Queue /\ "y" \in Queue
      /\ "MTE2" \in Pipe /\ "V" \in Pipe /\ "MTE3" \in Pipe
  BY CallTyped, KernelRunAssumption DEF OnQueue
<1>3. \A t : Overflow(t) \in Nat
  BY WindowTyped
<1>4. CASE c.op = "CopyIn"
  <2>1. Instruction("MTE2", {}, {}, Window(local[c.on]), Overflow(local[c.on]))
    BY <1>4 DEF Do, DoCopyIn
  <2>2. syncErrors = 0 /\ Overflow(local[c.on]) = 0
    BY <1>2, <1>3, <2>1, CleanInstruction
  <2>3. Instruction("MTE2", {}, {}, Granules(Tile(local[c.on])), 0)
    BY <1>2, <2>1, <2>2, WindowIsTile
  <2>4. /\ i.op = "CopyIn" /\ i.pipe = "MTE2" /\ i.src0 = NoTile /\ i.src1 = NoTile
        /\ i.dst = Tile(local[c.on])
    BY <1>1, <1>4 DEF Issued, DataInstr
  <2>5. MovesData(i)
    BY <2>3, <2>4, NoTileTyped DEF MovesData, IsFlagOp
  <2> QED
    BY <1>1, <2>2, <2>5 DEF CallEffect, Effect
<1>5. CASE c.op = "Add"
  <2>1. Instruction("V", Window(local["x"]), Window(local["y"]), Window(local[c.on]),
                    Overflow(local[c.on]))
    BY <1>5 DEF Do, DoAdd
  <2>2. syncErrors = 0 /\ Overflow(local[c.on]) = 0
    BY <1>2, <1>3, <2>1, CleanInstruction
  <2>3. Instruction("V", Granules(Tile(local["x"])), Granules(Tile(local["y"])),
                    Granules(Tile(local[c.on])), 0)
    BY <1>2, <2>1, <2>2, WindowIsTile
  <2>4. /\ i.op = "Add" /\ i.pipe = "V" /\ i.src0 = Tile(local["x"]) /\ i.src1 = Tile(local["y"])
        /\ i.dst = Tile(local[c.on])
    BY <1>1, <1>5 DEF Issued, DataInstr
  <2>5. MovesData(i)
    BY <2>3, <2>4 DEF MovesData, IsFlagOp
  <2> QED
    BY <1>1, <2>2, <2>5 DEF CallEffect, Effect
<1>6. CASE c.op = "CopyOut"
  <2>1. Instruction("MTE3", Window(local[c.on]), {}, {}, Overflow(local[c.on]))
    BY <1>6 DEF Do, DoCopyOut
  <2>2. syncErrors = 0 /\ Overflow(local[c.on]) = 0
    BY <1>2, <1>3, <2>1, CleanInstruction
  <2>3. Instruction("MTE3", Granules(Tile(local[c.on])), {}, {}, 0)
    BY <1>2, <2>1, <2>2, WindowIsTile
  <2>4. /\ i.op = "CopyOut" /\ i.pipe = "MTE3" /\ i.src0 = Tile(local[c.on])
        /\ i.src1 = NoTile /\ i.dst = NoTile
    BY <1>1, <1>6 DEF Issued, DataInstr
  <2>5. MovesData(i)
    BY <2>3, <2>4, NoTileTyped DEF MovesData, IsFlagOp
  <2> QED
    BY <1>1, <2>2, <2>5 DEF CallEffect, Effect
<1> QED
  BY <1>4, <1>5, <1>6

\* A call that makes one report at least makes one.
LEMMA OneReport ==
  ASSUME RunOK, syncErrors' = 0
  PROVE  ~ ReportSyncErrors(1)
  BY NothingReported

LEMMA QueueEffect ==
  ASSUME RunOK, NEW c \in KernelCall, Do(c), syncErrors' = 0,
         c.op \in {"AllocTensor", "EnQue", "DeQue", "FreeTensor"}
  PROVE  syncErrors = 0 /\ CallEffect(c)
<1> DEFINE q == c.on
           h == local[q].handle
<1>1. q \in Queue /\ EnQueEvt[q] \in Event /\ FreeBufEvt[q] \in Event
  BY CallTyped, TPipeAssumption DEF OnQueue
<1>2. BaseOK /\ CoreTypeOK /\ PipeTypeOK /\ syncErrors \in Nat
  BY DEF RunOK, BaseOK, CoreTypeOK
<1>3. \A n : ~ Refuse(1)
  BY OneReport DEF Refuse
<1>4. CASE c.op = "AllocTensor"
  <2> DEFINE b  == buf[IdleSlot(q)]
             id == b.freeBufEvtID
  <2>1. AllocTensor(q) /\ HasIdleBuffer(q)
    BY <1>3, <1>4 DEF Do, DoAllocTensor, AllocTensorRefused, AllocTensor
  <2>2. b \in TBufType
    BY <1>1, <1>2, <2>1, HandedOut DEF RunOK, PipeTypeOK
  <2>3. id \in TEventID
    BY <2>2 DEF TBufType
  <2>4. Issued(c) = ValidId(WaitInstr(FreeBufEvt[q], id))
    BY <1>4, <2>1 DEF Issued
  <2>5. CASE id = INVALID_TEVENTID
    <3>1. UNCHANGED <<clock, view, flags, gran, syncErrors>>
      BY <2>1, <2>5 DEF AllocTensor
    <3>2. ValidId(WaitInstr(FreeBufEvt[q], id)) = <<>>
      BY <2>5, NoIdTyped DEF ValidId, WaitInstr
    <3> QED
      BY <2>4, <3>1, <3>2 DEF CallEffect, Silent
  <2>6. CASE id # INVALID_TEVENTID
    <3>1. /\ view' = ViewAfterWait(FreeBufEvt[q], id) /\ flags' = FlagsAfterWait(FreeBufEvt[q], id)
          /\ ReportSyncErrors(WaitFlagErrors(FreeBufEvt[q], id))
          /\ UNCHANGED <<clock, gran>>
      BY <2>1, <2>6 DEF AllocTensor
    <3>2. syncErrors = 0 /\ WaitFlagErrors(FreeBufEvt[q], id) = 0
      BY <3>1, FlagErrorsTyped, NothingReported
    <3> HIDE DEF id
    <3> QED
      BY <1>1, <2>4, <3>1, <3>2, WaitEffect DEF CallEffect
  <2> QED
    BY <2>5, <2>6
<1>5. CASE c.op = "EnQue"
  <2> DEFINE id == NextEventID(EnQueEvt[q])
  <2>1. CASE h = NoHandle
    <3>1. UNCHANGED <<clock, view, flags, gran, syncErrors>>
      BY <1>5, <2>1 DEF Do, DoEnQue, coreVars
    <3>2. Issued(c) = <<>>
      BY <1>5, <2>1 DEF Issued
    <3> QED
      BY <3>1, <3>2 DEF CallEffect, Silent
  <2>2. CASE h # NoHandle
    <3>1. EnQue(q, h)
      BY <1>3, <1>5, <2>2 DEF Do, DoEnQue, EnQueRefused
    <3>2. /\ buf[h].state = "OCCUPIED" /\ VacantInQue(q)
          /\ flags' = FlagsAfterSet(EnQueEvt[q], id)
          /\ ReportSyncErrors(AllocEventIDErrors(EnQueEvt[q]) + SetFlagErrors(EnQueEvt[q], id))
          /\ UNCHANGED <<clock, view, gran>>
      BY <3>1 DEF EnQue
    <3>3. Issued(c) = ValidId(SetInstr(EnQueEvt[q], id))
      BY <1>5, <2>2, <3>2 DEF Issued
    <3>4. AllocEventIDErrors(EnQueEvt[q]) \in Nat /\ SetFlagErrors(EnQueEvt[q], id) \in Nat
      BY FlagErrorsTyped DEF AllocEventIDErrors, OneIf
    <3>5. syncErrors = 0 /\ SetFlagErrors(EnQueEvt[q], id) = 0
      <4>1. PICK m \in Nat : m = AllocEventIDErrors(EnQueEvt[q]) + SetFlagErrors(EnQueEvt[q], id)
        BY <3>4
      <4>2. syncErrors = 0 /\ m = 0
        BY <3>2, <4>1, NothingReported
      <4> QED
        BY <3>4, <4>1, <4>2
    <3> HIDE DEF id
    <3> QED
      BY <1>1, <3>2, <3>3, <3>5, SetEffect DEF CallEffect
  <2> QED
    BY <2>1, <2>2
<1>6. CASE c.op = "DeQue"
  <2> DEFINE id == buf[OldestSlot(q)].enQueEvtID
  <2>1. DeQue(q)
    BY <1>3, <1>6, OneReport DEF Do, DoDeQue, DeQueEmpty, DeQueWrongState
  <2>2. /\ HasTensorInQue(q) /\ buf[OldestSlot(q)].state = "ENQUE"
        /\ view' = ViewAfterWait(EnQueEvt[q], id) /\ flags' = FlagsAfterWait(EnQueEvt[q], id)
        /\ ReportSyncErrors(WaitFlagErrors(EnQueEvt[q], id))
        /\ UNCHANGED <<clock, gran>>
    BY <2>1 DEF DeQue
  <2>3. Issued(c) = ValidId(WaitInstr(EnQueEvt[q], id))
    BY <1>6, <2>2 DEF Issued
  <2>4. syncErrors = 0 /\ WaitFlagErrors(EnQueEvt[q], id) = 0
    BY <2>2, FlagErrorsTyped, NothingReported
  <2> HIDE DEF id
  <2> QED
    BY <1>1, <2>2, <2>3, <2>4, WaitEffect DEF CallEffect
<1>7. CASE c.op = "FreeTensor"
  <2> DEFINE id == NextEventID(FreeBufEvt[q])
  <2>1. CASE h = NoHandle
    <3>1. UNCHANGED <<clock, view, flags, gran, syncErrors>>
      BY <1>7, <2>1 DEF Do, DoFreeTensor, coreVars
    <3>2. Issued(c) = <<>>
      BY <1>7, <2>1 DEF Issued
    <3> QED
      BY <3>1, <3>2 DEF CallEffect, Silent
  <2>2. CASE h # NoHandle
    <3>1. FreeTensor(q, h)
      BY <1>3, <1>7, <2>2 DEF Do, DoFreeTensor, DoubleFree
    <3>2. /\ buf[h].state # "FREE"
          /\ flags' = FlagsAfterSet(FreeBufEvt[q], id)
          /\ ReportSyncErrors(AllocEventIDErrors(FreeBufEvt[q]) + SetFlagErrors(FreeBufEvt[q], id))
          /\ UNCHANGED <<clock, view, gran>>
      BY <3>1 DEF FreeTensor
    <3>3. Issued(c) = ValidId(SetInstr(FreeBufEvt[q], id))
      BY <1>7, <2>2, <3>2 DEF Issued
    <3>4. AllocEventIDErrors(FreeBufEvt[q]) \in Nat /\ SetFlagErrors(FreeBufEvt[q], id) \in Nat
      BY FlagErrorsTyped DEF AllocEventIDErrors, OneIf
    <3>5. syncErrors = 0 /\ SetFlagErrors(FreeBufEvt[q], id) = 0
      <4>1. PICK m \in Nat : m = AllocEventIDErrors(FreeBufEvt[q]) + SetFlagErrors(FreeBufEvt[q], id)
        BY <3>4
      <4>2. syncErrors = 0 /\ m = 0
        BY <3>2, <4>1, NothingReported
      <4> QED
        BY <3>4, <4>1, <4>2
    <3> HIDE DEF id
    <3> QED
      BY <1>1, <3>2, <3>3, <3>5, SetEffect DEF CallEffect
  <2> QED
    BY <2>1, <2>2
<1> QED
  BY <1>4, <1>5, <1>6, <1>7

LEMMA OtherEffect ==
  ASSUME RunOK, NEW c \in KernelCall, Do(c), syncErrors' = 0,
         c.op \in {"InitBuffer", "InitTBuf", "Get", "AllocEventID", "ReleaseEventID"}
  PROVE  syncErrors = 0 /\ CallEffect(c)
<1>1. Issued(c) = <<>>
  BY DEF Issued
<1>2. ~ Refuse(1)
  BY OneReport DEF Refuse
<1>3. CASE c.op = "InitBuffer"
  <2>1. InitBuffer(c.on, BUFFER_NUM, TileBytes)
    BY <1>2, <1>3 DEF Do, DoInitBuffer, InitBufferRefused
  <2>2. UNCHANGED coreVars
    BY <2>1 DEF InitBuffer, CarveBuffers
  <2> QED
    BY <1>1, <2>2 DEF CallEffect, Silent, coreVars
<1>4. CASE c.op = "InitTBuf"
  <2>1. InitTBuf(TBufMem, TileBytes)
    BY <1>2, <1>4 DEF Do, DoInitTBuf, InitTBufRefused
  <2>2. UNCHANGED coreVars
    BY <2>1 DEF InitTBuf, CarveBuffers
  <2> QED
    BY <1>1, <2>2 DEF CallEffect, Silent, coreVars
<1>5. CASE c.op = "Get" \/ c.op = "ReleaseEventID"
  <2>1. UNCHANGED coreVars
    BY <1>5 DEF Do, DoGet, DoReleaseEventID
  <2> QED
    BY <1>1, <2>1 DEF CallEffect, Silent, coreVars
<1>6. CASE c.op = "AllocEventID"
  <2>1. /\ UNCHANGED <<clock, view, flags, gran>>
        /\ ReportSyncErrors(AllocEventIDErrors(c.on))
    BY <1>6 DEF Do, DoAllocEventID
  <2>2. AllocEventIDErrors(c.on) \in Nat
    BY DEF AllocEventIDErrors, OneIf
  <2>3. syncErrors = 0
    BY <2>1, <2>2, NothingReported
  <2> QED
    BY <1>1, <2>1, <2>3 DEF CallEffect, Silent
<1> QED
  BY <1>3, <1>4, <1>5, <1>6

LEMMA FlagEffect ==
  ASSUME RunOK, NEW c \in KernelCall, Do(c), syncErrors' = 0, c.op \in {"SetFlag", "WaitFlag"}
  PROVE  syncErrors = 0 /\ CallEffect(c)
<1>1. c.on \in Event
  BY CallTyped DEF OnEvent
<1>2. CASE c.op = "SetFlag"
  <2>1. SetFlag(c.on, eventVar[c.on]) /\ Issued(c) = ValidId(SetInstr(c.on, eventVar[c.on]))
    BY <1>2 DEF Do, DoSetFlag, Issued
  <2>2. syncErrors = 0 /\ SetFlagErrors(c.on, eventVar[c.on]) = 0
    BY <2>1, FlagErrorsTyped, NothingReported DEF SetFlag
  <2> QED
    BY <1>1, <2>1, <2>2, SetEffect DEF CallEffect, SetFlag
<1>3. CASE c.op = "WaitFlag"
  <2>1. WaitFlag(c.on, eventVar[c.on]) /\ Issued(c) = ValidId(WaitInstr(c.on, eventVar[c.on]))
    BY <1>3 DEF Do, DoWaitFlag, Issued
  <2>2. syncErrors = 0 /\ WaitFlagErrors(c.on, eventVar[c.on]) = 0
    BY <2>1, FlagErrorsTyped, NothingReported DEF WaitFlag
  <2> QED
    BY <1>1, <2>1, <2>2, WaitEffect DEF CallEffect, WaitFlag
<1> QED
  BY <1>2, <1>3

\* Every call of a kernel, as the clocks and the pipes see it.
LEMMA CallHasEffect ==
  ASSUME RunOK, ~ destroyed, NEW c \in KernelCall, Do(c), syncErrors' = 0
  PROVE  syncErrors = 0 /\ CallEffect(c)
<1>1. c.op \in OnQueue \cup OnEvent
  BY DEF KernelCall, OnQueue, OnEvent
<1> QED
  BY <1>1, DataEffect, QueueEffect, OtherEffect, FlagEffect DEF OnQueue, OnEvent

-----------------------------------------------------------------------------
(* The history.                                                            *)

LEMMA AppendParts ==
  ASSUME NEW S, NEW s \in Seq(S), NEW e \in S
  PROVE  /\ Append(s, e) \in Seq(S)
         /\ Len(s) \in Nat /\ Len(Append(s, e)) = Len(s) + 1
         /\ DOMAIN s = 1 .. Len(s)
         /\ DOMAIN Append(s, e) = 1 .. (Len(s) + 1)
         /\ Append(s, e)[Len(s) + 1] = e
         /\ \A n \in DOMAIN s : Append(s, e)[n] = s[n]
  OBVIOUS

LEMMA TailParts ==
  ASSUME NEW S, NEW s \in Seq(S), s # <<>>
  PROVE  /\ Tail(s) \in Seq(S)
         /\ Len(s) \in Nat \ {0} /\ Len(Tail(s)) = Len(s) - 1
         /\ DOMAIN s = 1 .. Len(s)
         /\ DOMAIN Tail(s) = 1 .. (Len(s) - 1)
         /\ Head(s) = s[1] /\ Head(s) \in S
         /\ \A n \in 1 .. (Len(s) - 1) : Tail(s)[n] = s[n + 1]
  OBVIOUS

Findings == UNION {[D -> Content] : D \in SUBSET Granule}

Notes == [at : Nat, row : [Pipe -> Nat], turn : Nat, found : Findings]
Turns == [issued : Nat, done : Nat, awaited : Nat]

HistoryTyped ==
  /\ memory \in [Granule -> Content]
  /\ result \in [Index -> Content]
  /\ notes \in [Pipe -> Seq(Notes)]
  /\ over \in [Pipe -> Nat]
  /\ turns \in [Event -> [EventId -> Turns]]
  /\ readers \in [Granule -> SUBSET Pipe]
  /\ shared \in BOOLEAN

\* One note for each instruction, in the order of the program.
NotesMatch ==
  \A p \in Pipe :
    /\ Len(notes[p]) = Len(fifo[p])
    /\ \A n \in DOMAIN fifo[p] :
         /\ notes[p][n].at < pc
         /\ DOMAIN notes[p][n].found = Sources(fifo[p][n])
    /\ \A m, n \in DOMAIN fifo[p] : m < n => notes[p][m].at < notes[p][n].at

\* A call issues to one pipe.
NotesApart ==
  \A p, q \in Pipe : p # q =>
    \A m \in DOMAIN fifo[p], n \in DOMAIN fifo[q] : notes[p][m].at # notes[q][n].at

HistoryOK == HistoryTyped /\ NotesMatch /\ NotesApart

\* Instruction i joins its pipe, with a note.
Issues(i) ==
  /\ fifo' = [p \in Pipe |-> IF Reaches(p, <<i>>) THEN Append(fifo[p], i) ELSE fifo[p]]
  /\ Execute(i)
  /\ pc' = pc + 1

\* The first instruction of pipe p leaves it, with its note.
Passes(p) ==
  /\ Busy(p)
  /\ fifo' = [fifo EXCEPT ![p] = Tail(@)]
  /\ PassOver(p)
  /\ UNCHANGED <<coreVars, pipeVars, runVars>>

LEMMA NoteDomains ==
  ASSUME FifoOK, HistoryOK, NEW p \in Pipe
  PROVE  /\ fifo[p] \in Seq(Instrs) /\ notes[p] \in Seq(Notes)
         /\ Len(notes[p]) = Len(fifo[p]) /\ Len(fifo[p]) \in Nat
         /\ DOMAIN fifo[p] = 1 .. Len(fifo[p]) /\ DOMAIN notes[p] = 1 .. Len(fifo[p])
         /\ \A n \in DOMAIN fifo[p] : notes[p][n] \in Notes
<1>1. fifo[p] \in Seq(Instrs) /\ notes[p] \in Seq(Notes) /\ Len(notes[p]) = Len(fifo[p])
  BY DEF FifoOK, HistoryOK, HistoryTyped, NotesMatch
<1> QED
  BY <1>1

LEMMA SnapshotParts ==
  ASSUME CoreTypeOK, NEW p \in Pipe
  PROVE  /\ Snapshot(p) \in [Pipe -> Nat]
         /\ Snapshot(p)[p] = clock[p]
         /\ \A q \in Pipe : q # p => Snapshot(p)[q] = view[p][q]
<1>1. view[p] \in [Pipe -> Nat] /\ clock[p] \in Nat /\ DOMAIN view[p] = Pipe
  BY DEF CoreTypeOK
<1> QED
  BY <1>1 DEF Snapshot

LEMMA NoteTyped ==
  ASSUME PipesOK, CoreTypeOK', HistoryOK, NEW i \in Instrs
  PROVE  /\ Note(i, i.pipe) \in Notes
         /\ Note(i, i.pipe).at = pc
         /\ Note(i, i.pipe).row = Snapshot(i.pipe)'
         /\ DOMAIN Note(i, i.pipe).found = Sources(i)
<1> DEFINE p == i.pipe
<1>1. p \in Pipe
  BY InstrKinds
<1>2. Snapshot(p)' \in [Pipe -> Nat]
  <2>1. (view \in [Pipe -> [Pipe -> Nat]])' /\ (clock \in [Pipe -> Nat])'
    BY DEF CoreTypeOK
  <2> QED
    BY <1>1, <2>1 DEF Snapshot
<1>3. pc \in Nat
  BY LaunchTyped DEF PipesOK, RunOK, ProgressOK
<1>4. [g \in Sources(i) |-> memory[g]] \in Findings
  <2>1. Sources(i) \in SUBSET Granule
    BY OperandGranules
  <2>2. [g \in Sources(i) |-> memory[g]] \in [Sources(i) -> Content]
    BY <2>1 DEF HistoryOK, HistoryTyped
  <2> QED
    BY <2>1, <2>2 DEF Findings
<1>5. Note(i, p).turn \in Nat
  <2>1. CASE IsFlagOp(i)
    <3>1. i.evt \in Event /\ i.id \in EventId
      BY <2>1, InstrKinds DEF FlagInstrs
    <3>2. turns[i.evt][i.id] \in Turns
      BY <3>1 DEF HistoryOK, HistoryTyped
    <3>3. turns[i.evt][i.id].issued \in Nat
      BY <3>2 DEF Turns
    <3> QED
      BY <2>1, <3>3 DEF Note, IsFlagOp
  <2>2. CASE ~ IsFlagOp(i)
    BY <2>2 DEF Note, IsFlagOp
  <2> QED
    BY <2>1, <2>2
<1>6. Note(i, p) = [at |-> pc, row |-> Snapshot(p)', turn |-> Note(i, p).turn,
                    found |-> [g \in Sources(i) |-> memory[g]]]
  BY DEF Note
<1> HIDE DEF p
<1>7. Note(i, p) \in Notes
  BY <1>2, <1>3, <1>4, <1>5, <1>6 DEF Notes
<1> QED
  BY <1>6, <1>7 DEF p

LEMMA NotesAfterIssue ==
  ASSUME PipesOK, CoreTypeOK', HistoryOK, NEW i \in Instrs, Placed(i), Issues(i)
  PROVE  /\ FifoOK'
         /\ i.pipe \in Pipe
         /\ fifo'[i.pipe] = Append(fifo[i.pipe], i)
         /\ notes'[i.pipe] = Append(notes[i.pipe], Note(i, i.pipe))
         /\ \A p \in Pipe \ {i.pipe} : fifo'[p] = fifo[p] /\ notes'[p] = notes[p]
         /\ notes' \in [Pipe -> Seq(Notes)]
<1>1. i.pipe \in Pipe
  BY InstrKinds
<1>2. /\ FifoOK' /\ fifo'[i.pipe] = Append(fifo[i.pipe], i)
      /\ \A p \in Pipe \ {i.pipe} : fifo'[p] = fifo[p]
  BY FifoAfterIssue DEF Issues, PipesOK
<1>3. notes' = [p \in Pipe |-> IF p = i.pipe THEN Append(notes[p], Note(i, p)) ELSE notes[p]]
  BY DEF Issues, Execute
<1>4. \A p \in Pipe : notes'[p] = IF p = i.pipe THEN Append(notes[p], Note(i, i.pipe)) ELSE notes[p]
  BY <1>3
<1>5. ASSUME NEW p \in Pipe PROVE notes'[p] \in Seq(Notes)
  <2>1. notes[p] \in Seq(Notes) /\ Note(i, i.pipe) \in Notes
    BY NoteTyped DEF HistoryOK, HistoryTyped
  <2>2. Append(notes[p], Note(i, i.pipe)) \in Seq(Notes)
    BY <2>1, AppendParts, Zenon
  <2> QED
    BY <1>4, <2>1, <2>2
<1>6. notes' = [p \in Pipe |-> notes'[p]]
  BY <1>3
<1> QED
  BY <1>1, <1>2, <1>4, <1>5, <1>6

\* What an instruction computes depends on its sources only.
LEMMA ComputedAgree ==
  ASSUME NEW i \in Instrs, Placed(i), ~ IsFlagOp(i), NEW f, NEW h,
         \A g \in Sources(i) : f[g] = h[g], NEW n \in DOMAIN i.dst
  PROVE  Computed(i, f, n) = Computed(i, h, n)
<1>1. /\ i.op \in {"CopyIn", "Add", "CopyOut"}
      /\ i.src0 \in Tiles /\ i.src1 \in Tiles
  BY InstrKinds DEF DataInstrs
<1>2. CASE i.op = "CopyIn"
  BY <1>2 DEF Computed
<1>3. CASE i.op = "Add"
  <2>1. CASE n \in DOMAIN i.src0 \cap DOMAIN i.src1
    <3>1. i.src0[n] \in Sources(i) /\ i.src1[n] \in Sources(i)
      BY <1>1, <2>1, TileGranules DEF Sources
    <3>2. f[i.src0[n]] = h[i.src0[n]] /\ f[i.src1[n]] = h[i.src1[n]]
      BY <3>1
    <3>3. /\ Computed(i, f, n) = Added(f[i.src0[n]], f[i.src1[n]])
          /\ Computed(i, h, n) = Added(h[i.src0[n]], h[i.src1[n]])
      BY <1>3, <2>1 DEF Computed
    <3> QED
      BY <3>2, <3>3
  <2>2. CASE n \notin DOMAIN i.src0 \cap DOMAIN i.src1
    BY <1>3, <2>2 DEF Computed
  <2> QED
    BY <2>1, <2>2
<1>4. CASE i.op = "CopyOut"
  BY <1>4 DEF Placed, NoTile
<1> QED
  BY <1>1, <1>2, <1>3, <1>4

LEMMA StoredAgree ==
  ASSUME NEW i \in Instrs, Placed(i), NEW f, NEW h, \A g \in Sources(i) : f[g] = h[g], NEW old
  PROVE  Stored(i, f, old) = Stored(i, h, old)
<1>1. ASSUME NEW g \in Granule
      PROVE  Stored(i, f, old)[g] = Stored(i, h, old)[g]
  <2>1. CASE g \in Targets(i)
    <3> DEFINE n == CHOOSE m \in DOMAIN i.dst : i.dst[m] = g
    <3>1. ~ IsFlagOp(i) /\ n \in DOMAIN i.dst
      BY <2>1 DEF Targets, Granules
    <3>2. Stored(i, f, old)[g] = Computed(i, f, n) /\ Stored(i, h, old)[g] = Computed(i, h, n)
      BY <2>1 DEF Stored
    <3> HIDE DEF n
    <3> QED
      BY <3>1, <3>2, ComputedAgree
  <2>2. CASE g \notin Targets(i)
    BY <2>2 DEF Stored
  <2> QED
    BY <2>1, <2>2
<1>2. /\ Stored(i, f, old) = [g \in Granule |-> Stored(i, f, old)[g]]
      /\ Stored(i, h, old) = [g \in Granule |-> Stored(i, h, old)[g]]
  BY DEF Stored
<1> QED
  BY <1>1, <1>2

LEMMA DeliveredAgree ==
  ASSUME NEW i \in Instrs, NEW f, NEW h, \A g \in Sources(i) : f[g] = h[g], NEW old
  PROVE  Delivered(i, f, old) = Delivered(i, h, old)
<1>1. CASE i.op = "CopyOut"
  <2>1. ~ IsFlagOp(i) /\ i.src0 \in Tiles
    BY <1>1, InstrKinds DEF IsFlagOp, DataInstrs
  <2>2. ASSUME NEW n \in DOMAIN i.src0 PROVE f[i.src0[n]] = h[i.src0[n]]
    BY <2>1, TileGranules DEF Sources
  <2> QED
    BY <1>1, <2>2 DEF Delivered
<1>2. CASE i.op # "CopyOut"
  BY <1>2 DEF Delivered
<1> QED
  BY <1>1, <1>2

LEMMA SimulatorTyped ==
  ASSUME NEW i \in Instrs, Placed(i), NEW f \in [Granule -> Content],
         NEW global \in [Index -> Content]
  PROVE  Stored(i, f, f) \in [Granule -> Content] /\ Delivered(i, f, global) \in [Index -> Content]
<1>1. PICK h : h = [g \in Sources(i) |-> f[g]]
  OBVIOUS
<1>2. h \in [Sources(i) -> Content] /\ \A g \in Sources(i) : f[g] = h[g]
  BY <1>1, OperandGranules
<1>3. Stored(i, f, f) = Stored(i, h, f) /\ Delivered(i, f, global) = Delivered(i, h, global)
  BY <1>2, StoredAgree, DeliveredAgree
<1> QED
  BY <1>2, <1>3, StoredTyped, DeliveredTyped

LEMMA HistoryTypedAfterIssue ==
  ASSUME PipesOK, CoreTypeOK', HistoryOK, NEW i \in Instrs, Placed(i), Issues(i), UNCHANGED launch
  PROVE  HistoryTyped'
<1>1. /\ memory' = Stored(i, memory, memory)
      /\ result' = Delivered(i, memory, result)
      /\ turns' = IF i.op = "SetFlag" THEN [turns EXCEPT ![i.evt][i.id].issued = @ + 1] ELSE turns
      /\ readers' = [g \in Granule |-> IF g \in Sources(i) THEN readers[g] \cup {i.pipe}
                                                           ELSE readers[g]]
      /\ shared' = (shared \/ \E g \in Granule : Shared(g)')
      /\ UNCHANGED over
  BY DEF Issues, Execute
<1>2. i.pipe \in Pipe /\ notes' \in [Pipe -> Seq(Notes)]
  BY NotesAfterIssue
<1>3. HistoryTyped /\ Index' = Index
  BY DEF HistoryOK, Index, Launch
<1>4. memory' \in [Granule -> Content] /\ result' \in [Index' -> Content]
  BY <1>1, <1>3, SimulatorTyped DEF HistoryTyped
<1>5. turns' \in [Event -> [EventId -> Turns]]
  <2>1. CASE i.op = "SetFlag"
    <3>1. i.evt \in Event /\ i.id \in EventId
      BY <2>1, InstrKinds DEF FlagInstrs, IsFlagOp
    <3>2. turns[i.evt][i.id] \in Turns
      BY <1>3, <3>1 DEF HistoryTyped
    <3> DEFINE t == [turns[i.evt][i.id] EXCEPT !.issued = @ + 1]
    <3>3. t \in Turns
      BY <3>2 DEF Turns
    <3>4. turns' = [turns EXCEPT ![i.evt][i.id] = t]
      BY <1>1, <2>1
    <3> HIDE DEF t
    <3> QED
      BY <1>3, <3>1, <3>3, <3>4 DEF HistoryTyped
  <2>2. CASE i.op # "SetFlag"
    BY <1>1, <1>3, <2>2 DEF HistoryTyped
  <2> QED
    BY <2>1, <2>2
<1>6. readers' \in [Granule -> SUBSET Pipe]
  BY <1>1, <1>2, <1>3 DEF HistoryTyped
<1>7. shared' \in BOOLEAN /\ over' \in [Pipe -> Nat]
  BY <1>1, <1>3 DEF HistoryTyped
<1> QED
  BY <1>2, <1>4, <1>5, <1>6, <1>7 DEF HistoryTyped

LEMMA NotesMatchAfterIssue ==
  ASSUME PipesOK, CoreTypeOK', HistoryOK, NEW i \in Instrs, Placed(i), Issues(i)
  PROVE  NotesMatch' /\ NotesApart'
<1> DEFINE p == i.pipe
           e == Note(i, p)
<1>1. /\ p \in Pipe
      /\ fifo'[p] = Append(fifo[p], i) /\ notes'[p] = Append(notes[p], e)
      /\ \A q \in Pipe \ {p} : fifo'[q] = fifo[q] /\ notes'[q] = notes[q]
  BY NotesAfterIssue
<1>2. e \in Notes /\ e.at = pc /\ DOMAIN e.found = Sources(i)
  BY NoteTyped
<1>3. pc \in Nat /\ pc' = pc + 1
  BY LaunchTyped DEF PipesOK, RunOK, ProgressOK, Issues
<1> HIDE DEF e, p
<1>4. ASSUME NEW q \in Pipe, NEW n \in DOMAIN fifo[q]
      PROVE  notes[q][n].at \in Nat /\ notes[q][n].at < pc
  BY NoteDomains DEF HistoryOK, NotesMatch, PipesOK, Notes
<1>5. PICK k \in Nat :
        /\ k = Len(fifo[p]) /\ k = Len(notes[p])
        /\ DOMAIN fifo[p] = 1 .. k /\ DOMAIN notes[p] = 1 .. k
        /\ DOMAIN fifo'[p] = 1 .. (k + 1)
        /\ Len(fifo'[p]) = k + 1 /\ Len(notes'[p]) = k + 1
        /\ fifo'[p][k + 1] = i /\ notes'[p][k + 1] = e
        /\ \A n \in 1 .. k : fifo'[p][n] = fifo[p][n] /\ notes'[p][n] = notes[p][n]
  <2>1. /\ fifo[p] \in Seq(Instrs) /\ notes[p] \in Seq(Notes)
        /\ Len(notes[p]) = Len(fifo[p])
    BY <1>1, NoteDomains DEF PipesOK
  <2>2. PICK s \in Seq(Instrs), t \in Seq(Notes) : s = fifo[p] /\ t = notes[p]
    BY <2>1
  <2> QED
    BY <1>1, <1>2, <2>1, <2>2, AppendParts
<1>6. ASSUME NEW q \in Pipe
      PROVE  /\ Len(notes'[q]) = Len(fifo'[q])
             /\ \A n \in DOMAIN fifo'[q] :
                  /\ notes'[q][n].at < pc'
                  /\ DOMAIN notes'[q][n].found = Sources(fifo'[q][n])
             /\ \A m, n \in DOMAIN fifo'[q] : m < n => notes'[q][m].at < notes'[q][n].at
  <2>1. CASE q = p
    <3>1. ASSUME NEW n \in 1 .. k
          PROVE  notes'[p][n].at < pc /\ notes'[p][n].at \in Nat
                 /\ DOMAIN notes'[p][n].found = Sources(fifo'[p][n])
      BY <1>1, <1>4, <1>5 DEF HistoryOK, NotesMatch
    <3>2. ASSUME NEW m \in 1 .. k, NEW n \in 1 .. k, m < n
          PROVE  notes'[p][m].at < notes'[p][n].at
      BY <1>1, <1>5, <3>2 DEF HistoryOK, NotesMatch
    <3>3. ASSUME NEW n \in 1 .. (k + 1)
          PROVE  n = k + 1 \/ n \in 1 .. k
      BY <3>3
    <3>4. ASSUME NEW n \in DOMAIN fifo'[p]
          PROVE  notes'[p][n].at < pc' /\ DOMAIN notes'[p][n].found = Sources(fifo'[p][n])
      BY <1>2, <1>3, <1>5, <3>1, <3>3
    <3>5. ASSUME NEW m \in DOMAIN fifo'[p], NEW n \in DOMAIN fifo'[p], m < n
          PROVE  notes'[p][m].at < notes'[p][n].at
      <4>1. m \in 1 .. k
        BY <1>5, <3>5
      <4>2. CASE n = k + 1
        BY <1>2, <1>5, <3>1, <4>1, <4>2
      <4>3. CASE n \in 1 .. k
        BY <3>2, <3>5, <4>1, <4>3
      <4> QED
        BY <1>5, <3>3, <4>2, <4>3
    <3> QED
      BY <1>5, <2>1, <3>4, <3>5
  <2>2. CASE q # p
    <3>1. fifo'[q] = fifo[q] /\ notes'[q] = notes[q]
      BY <1>1, <2>2
    <3>2. ASSUME NEW n \in DOMAIN fifo[q] PROVE notes[q][n].at < pc'
      BY <1>3, <1>4
    <3> QED
      BY <3>1, <3>2 DEF HistoryOK, NotesMatch
  <2> QED
    BY <2>1, <2>2
<1>7. ASSUME NEW q \in Pipe, NEW r \in Pipe, q # r,
             NEW m \in DOMAIN fifo'[q], NEW n \in DOMAIN fifo'[r]
      PROVE  notes'[q][m].at # notes'[r][n].at
  <2>1. ASSUME NEW s \in Pipe, NEW j \in DOMAIN fifo'[s]
        PROVE  \/ s = p /\ notes'[s][j].at = pc
               \/ j \in DOMAIN fifo[s] /\ notes'[s][j] = notes[s][j] /\ notes[s][j].at # pc
    <3>1. CASE s = p
      <4>1. j = k + 1 \/ j \in 1 .. k
        BY <1>5, <3>1
      <4> QED
        BY <1>1, <1>2, <1>3, <1>4, <1>5, <3>1, <4>1
    <3>2. CASE s # p
      BY <1>1, <1>3, <1>4, <3>2
    <3> QED
      BY <3>1, <3>2
  <2> QED
    BY <1>7, <2>1 DEF HistoryOK, NotesApart
<1> QED
  BY <1>6, <1>7 DEF NotesMatch, NotesApart

LEMMA HistoryOKInit == CheckedInit => HistoryOK
<1> SUFFICES ASSUME CheckedInit PROVE HistoryOK
  OBVIOUS
<1>1. /\ memory = [g \in Granule |-> Junk] /\ result = [i \in Index |-> Unwritten]
      /\ notes = [p \in Pipe |-> <<>>] /\ over = [p \in Pipe |-> 0]
      /\ turns = [e \in Event |-> [id \in EventId |-> Unraised]]
      /\ readers = [g \in Granule |-> {}] /\ shared = FALSE
      /\ fifo = [p \in Pipe |-> <<>>]
  BY DEF CheckedInit, HistoryInit, Init, HwInit, Idle, Blank
<1>2. Unraised \in Turns
  BY DEF Unraised, Turns
<1>3. HistoryTyped
  <2>1. memory \in [Granule -> Content] /\ result \in [Index -> Content]
    BY <1>1 DEF Content
  <2>2. notes \in [Pipe -> Seq(Notes)] /\ over \in [Pipe -> Nat]
    BY <1>1
  <2>3. turns \in [Event -> [EventId -> Turns]] /\ readers \in [Granule -> SUBSET Pipe]
    BY <1>1, <1>2
  <2> QED
    BY <1>1, <2>1, <2>2, <2>3 DEF HistoryTyped
<1> QED
  BY <1>1, <1>3 DEF HistoryOK, NotesMatch, NotesApart

\* The program moves on, and the history does not.
LEMMA HistoryOKQuiet ==
  ASSUME PipesOK, HistoryOK, UNCHANGED <<history, fifo, launch>>, pc' = pc \/ pc' = pc + 1
  PROVE  HistoryOK'
<1>1. pc \in Nat
  BY LaunchTyped DEF PipesOK, RunOK, ProgressOK
<1>2. UNCHANGED <<memory, result, notes, over, turns, readers, shared>> /\ Index' = Index
  BY DEF history, Index, Launch
<1>3. HistoryTyped'
  BY <1>2 DEF HistoryOK, HistoryTyped
<1>4. ASSUME NEW p \in Pipe, NEW n \in DOMAIN fifo[p] PROVE notes[p][n].at < pc'
  BY <1>1, NoteDomains DEF HistoryOK, NotesMatch, PipesOK, Notes
<1>5. NotesMatch'
  BY <1>2, <1>4 DEF HistoryOK, NotesMatch
<1>6. NotesApart'
  BY <1>2 DEF HistoryOK, NotesApart
<1> QED
  BY <1>3, <1>5, <1>6 DEF HistoryOK

LEMMA NotesAfterPass ==
  ASSUME FifoOK, HistoryOK, NEW p \in Pipe, Passes(p)
  PROVE  /\ FifoOK'
         /\ fifo'[p] = Tail(fifo[p]) /\ notes'[p] = Tail(notes[p])
         /\ \A q \in Pipe \ {p} : fifo'[q] = fifo[q] /\ notes'[q] = notes[q]
         /\ notes' \in [Pipe -> Seq(Notes)]
         /\ Head(notes[p]) \in Notes /\ Head(notes[p]) = notes[p][1]
         /\ fifo[p] # <<>> /\ notes[p] # <<>>
         /\ over' = [over EXCEPT ![p] = Head(notes[p]).row[p]]
         /\ UNCHANGED <<memory, result, readers, shared>>
<1>1. /\ FifoOK' /\ fifo'[p] = Tail(fifo[p]) /\ \A q \in Pipe \ {p} : fifo'[q] = fifo[q]
  BY FifoAfterRun DEF Passes
<1>2. fifo[p] # <<>> /\ notes[p] # <<>> /\ notes[p] \in Seq(Notes)
  BY NoteDomains DEF Passes, Busy
<1>3. notes' = [notes EXCEPT ![p] = Tail(@)]
      /\ over' = [over EXCEPT ![p] = Head(notes[p]).row[p]]
      /\ UNCHANGED <<memory, result, readers, shared>>
  BY DEF Passes, PassOver
<1>4. /\ notes'[p] = Tail(notes[p]) /\ \A q \in Pipe \ {p} : notes'[q] = notes[q]
      /\ notes' \in [Pipe -> Seq(Notes)]
  BY <1>2, <1>3, TailParts DEF HistoryOK, HistoryTyped
<1>5. Head(notes[p]) \in Notes /\ Head(notes[p]) = notes[p][1]
  BY <1>2, TailParts
<1> QED
  BY <1>1, <1>2, <1>3, <1>4, <1>5

LEMMA HistoryOKPass ==
  ASSUME PipesOK, HistoryOK, NEW p \in Pipe, Passes(p),
         turns' \in [Event -> [EventId -> Turns]]
  PROVE  HistoryOK'
<1>1. /\ fifo'[p] = Tail(fifo[p]) /\ notes'[p] = Tail(notes[p])
      /\ \A q \in Pipe \ {p} : fifo'[q] = fifo[q] /\ notes'[q] = notes[q]
      /\ notes' \in [Pipe -> Seq(Notes)]
      /\ Head(notes[p]) \in Notes /\ fifo[p] # <<>> /\ notes[p] # <<>>
      /\ over' = [over EXCEPT ![p] = Head(notes[p]).row[p]]
      /\ UNCHANGED <<memory, result, readers, shared>>
  BY NotesAfterPass DEF PipesOK
<1>2. UNCHANGED <<pc, launch>> /\ Index' = Index
  BY DEF Passes, runVars, Index, Launch
<1>3. HistoryTyped'
  <2>1. Head(notes[p]).row[p] \in Nat
    BY <1>1 DEF Notes
  <2> QED
    BY <1>1, <1>2, <2>1 DEF HistoryOK, HistoryTyped
<1>4. PICK k \in Nat :
        /\ k + 1 = Len(fifo[p]) /\ Len(fifo'[p]) = k /\ Len(notes'[p]) = k
        /\ DOMAIN fifo[p] = 1 .. (k + 1) /\ DOMAIN fifo'[p] = 1 .. k
        /\ \A n \in 1 .. k : fifo'[p][n] = fifo[p][n + 1] /\ notes'[p][n] = notes[p][n + 1]
  <2>1. /\ fifo[p] \in Seq(Instrs) /\ notes[p] \in Seq(Notes)
        /\ Len(notes[p]) = Len(fifo[p])
    BY NoteDomains DEF PipesOK
  <2>2. PICK s \in Seq(Instrs), t \in Seq(Notes) : s = fifo[p] /\ t = notes[p]
    BY <2>1
  <2>3. Len(s) \in Nat \ {0} /\ Len(s) = Len(t) /\ s # <<>> /\ t # <<>>
    BY <1>1, <2>1, <2>2, TailParts
  <2>4. PICK k \in Nat : Len(s) = k + 1 /\ k = Len(s) - 1
    BY <2>3
  <2>5. /\ DOMAIN s = 1 .. (k + 1) /\ DOMAIN Tail(s) = 1 .. k
        /\ Len(Tail(s)) = k /\ Len(Tail(t)) = k
        /\ \A n \in 1 .. k : Tail(s)[n] = s[n + 1] /\ Tail(t)[n] = t[n + 1]
    BY <2>3, <2>4, TailParts
  <2> QED
    BY <1>1, <2>2, <2>4, <2>5
<1>5. ASSUME NEW n \in 1 .. k PROVE n + 1 \in DOMAIN fifo[p]
  BY <1>4
<1>6. ASSUME NEW q \in Pipe
      PROVE  /\ Len(notes'[q]) = Len(fifo'[q])
             /\ \A n \in DOMAIN fifo'[q] :
                  /\ notes'[q][n].at < pc
                  /\ DOMAIN notes'[q][n].found = Sources(fifo'[q][n])
             /\ \A m, n \in DOMAIN fifo'[q] : m < n => notes'[q][m].at < notes'[q][n].at
  <2>1. CASE q = p
    <3>1. ASSUME NEW n \in DOMAIN fifo'[p]
          PROVE  notes'[p][n].at < pc /\ DOMAIN notes'[p][n].found = Sources(fifo'[p][n])
      BY <1>4, <1>5 DEF HistoryOK, NotesMatch
    <3>2. ASSUME NEW m \in DOMAIN fifo'[p], NEW n \in DOMAIN fifo'[p], m < n
          PROVE  notes'[p][m].at < notes'[p][n].at
      <4>1. m \in 1 .. k /\ n \in 1 .. k /\ m + 1 < n + 1
        BY <1>4, <3>2
      <4> QED
        BY <1>4, <1>5, <4>1 DEF HistoryOK, NotesMatch
    <3> QED
      BY <1>4, <2>1, <3>1, <3>2
  <2>2. CASE q # p
    BY <1>1, <2>2 DEF HistoryOK, NotesMatch
  <2> QED
    BY <2>1, <2>2
<1>7. ASSUME NEW q \in Pipe, NEW r \in Pipe, q # r,
             NEW m \in DOMAIN fifo'[q], NEW n \in DOMAIN fifo'[r]
      PROVE  notes'[q][m].at # notes'[r][n].at
  <2>1. ASSUME NEW s \in Pipe, NEW j \in DOMAIN fifo'[s]
        PROVE  \E l \in DOMAIN fifo[s] : notes'[s][j] = notes[s][l]
    <3>1. CASE s = p
      BY <1>4, <1>5, <3>1
    <3>2. CASE s # p
      BY <1>1, <3>2
    <3> QED
      BY <3>1, <3>2
  <2> QED
    BY <1>7, <2>1 DEF HistoryOK, NotesApart
<1>8. NotesMatch'
  BY <1>2, <1>6 DEF NotesMatch
<1>9. NotesApart'
  BY <1>7 DEF NotesApart
<1> QED
  BY <1>3, <1>8, <1>9 DEF HistoryOK

LEMMA HistoryOKStartBlock ==
  ASSUME PipesOK, HistoryOK, StartBlockChecked
  PROVE  HistoryOK'
<1>1. /\ memory' = [g \in Granule |-> Junk] /\ notes' = [p \in Pipe |-> <<>>]
      /\ over' = [p \in Pipe |-> 0] /\ turns' = [e \in Event |-> [id \in EventId |-> Unraised]]
      /\ readers' = [g \in Granule |-> {}]
      /\ UNCHANGED <<result, shared, launch, fifo>> /\ destroyed
  BY DEF StartBlockChecked, StartBlock, NextBlock, NextKernel, Idle, Blank
<1>2. fifo' = [p \in Pipe |-> <<>>]
  BY <1>1 DEF PipesOK, DrainedAtEnd, Drained, Busy, FifoOK
<1>3. Unraised \in Turns
  BY DEF Unraised, Turns
<1>4. HistoryTyped'
  BY <1>1, <1>3 DEF HistoryOK, HistoryTyped, Content, Index, Launch
<1> QED
  BY <1>1, <1>2, <1>4 DEF HistoryOK, NotesMatch, NotesApart

LEMMA HistoryOKStartLaunch ==
  ASSUME PipesOK, PipesOK', HistoryOK, StartLaunchChecked
  PROVE  HistoryOK'
<1>1. /\ result' = z' /\ shared' = FALSE /\ UNCHANGED <<memory, notes, over, turns, readers, fifo>>
      /\ destroyed
  BY DEF StartLaunchChecked, StartLaunch, NextLaunch, LaunchOver
<1>2. fifo = [p \in Pipe |-> <<>>]
  BY <1>1 DEF PipesOK, DrainedAtEnd, Drained, Busy, FifoOK
<1>3. result' \in [Index' -> Content]
  BY <1>1 DEF PipesOK, DataOK
<1>4. HistoryTyped'
  BY <1>1, <1>3 DEF HistoryOK, HistoryTyped
<1> QED
  BY <1>1, <1>2, <1>4 DEF HistoryOK, NotesMatch, NotesApart

-----------------------------------------------------------------------------
(* The steps.                                                              *)

\* A call of the kernel, which issues one instruction at most.
LEMMA IssueCases ==
  ASSUME PipesOK, IssueChecked
  PROVE  /\ PipesOK' /\ ~ destroyed /\ ~ destroyed'
         /\ UNCHANGED <<launch, inFlight, seen, reg, ub, z>> /\ pc' = pc + 1
         /\ \/ /\ UNCHANGED <<history, fifo>>
               /\ syncErrors' = 0 => syncErrors = 0 /\ Silent
            \/ \E i \in Instrs :
                 /\ Placed(i) /\ Issues(i)
                 /\ syncErrors' = 0 => syncErrors = 0 /\ Effect(i)
<1> DEFINE c == Kernel[pc]
           issued == Issued(c)
<1>1. Issue /\ IF issued = <<>> THEN UNCHANGED history ELSE Execute(issued[1])
  BY DEF IssueChecked
<1>2. /\ ~ destroyed /\ pc <= Len(Kernel) /\ Do(c) /\ pc' = pc + 1
      /\ UNCHANGED <<launch, inFlight, seen, reg, ub, z>>
      /\ fifo' = [p \in Pipe |-> IF Reaches(p, issued) THEN Append(fifo[p], issued[1]) ELSE fifo[p]]
  BY <1>1 DEF Issue, NextCall, InProgress
<1>3. PipesOK'
  BY <1>1, PipesOKIssue
<1>4. c \in KernelCall
  BY <1>2, LaunchTyped DEF PipesOK, RunOK
<1>5. ~ destroyed'
  BY <1>2, <1>4, CallKeepsRunOK DEF CallDone, PipesOK
<1>6. issued = <<>> \/ One(issued)
  BY <1>2, <1>4, IssuedTyped DEF PipesOK, RunOK
<1>7. syncErrors' = 0 => syncErrors = 0 /\ CallEffect(c)
  BY <1>2, <1>4, CallHasEffect DEF PipesOK
<1> HIDE DEF c
<1>8. CASE issued = <<>>
  <2>1. UNCHANGED <<history, fifo>>
    BY <1>1, <1>2, <1>8 DEF PipesOK, FifoOK, Reaches
  <2>2. CallEffect(c) => Silent
    BY <1>8 DEF CallEffect
  <2> QED
    BY <1>2, <1>3, <1>5, <1>7, <2>1, <2>2
<1>9. CASE One(issued)
  <2>1. PICK i \in Instrs : issued = <<i>> /\ Placed(i)
    BY <1>9 DEF One
  <2>2. issued[1] = i /\ issued # <<>>
    BY <2>1
  <2>3. Issues(i)
    BY <1>1, <1>2, <2>1, <2>2 DEF Issues
  <2>4. CallEffect(c) => Effect(i)
    <3>1. ASSUME NEW j, <<j>> = <<i>> PROVE j = i
      BY <3>1
    <3> QED
      BY <2>1, <2>2, <3>1 DEF CallEffect
  <2> QED
    BY <1>2, <1>3, <1>5, <1>7, <2>1, <2>3, <2>4
<1> QED
  BY <1>6, <1>8, <1>9

\* A pipe is done with its first instruction.
LEMMA PassCases ==
  ASSUME PipesOK, NEW p \in Pipe, CompleteChecked(p) \/ RaiseChecked(p) \/ AwaitChecked(p)
  PROVE  Passes(p) /\ PipesOK' /\ ~ destroyed /\ ~ destroyed' /\ UNCHANGED launch
<1>1. Complete(p) \/ Raise(p) \/ Await(p)
  BY DEF CompleteChecked, RaiseChecked, AwaitChecked
<1>2. PipesOK'
  BY <1>1, PipesOKComplete, PipesOKFlag
<1>3. Busy(p)
  BY <1>1 DEF Complete, Raise, Await, PipesOK, FlightOK
<1>4. /\ fifo' = [fifo EXCEPT ![p] = Tail(@)] /\ PassOver(p)
      /\ UNCHANGED <<coreVars, pipeVars, runVars>>
  BY DEF CompleteChecked, RaiseChecked, AwaitChecked, Complete, Raise, Await
<1>5. ~ destroyed /\ UNCHANGED <<launch, destroyed>>
  BY <1>3, <1>4 DEF PipesOK, DrainedAtEnd, Drained, runVars, pipeVars
<1> QED
  BY <1>2, <1>3, <1>4, <1>5 DEF Passes

\* The flag operation that is first on a pipe.
LEMMA FirstFlag ==
  ASSUME PipesOK, HistoryOK, NEW p \in Pipe, Busy(p), IsFlagOp(First(p))
  PROVE  /\ First(p).evt \in Event /\ First(p).id \in EventId
         /\ turns[First(p).evt][First(p).id] \in Turns
<1>1. First(p) \in FlagInstrs
  BY FirstTyped, InstrKinds DEF PipesOK
<1>2. First(p).evt \in Event /\ First(p).id \in EventId
  BY <1>1 DEF FlagInstrs
<1> QED
  BY <1>2 DEF HistoryOK, HistoryTyped

LEMMA TurnsAfterFlag ==
  ASSUME PipesOK, HistoryOK, NEW p \in Pipe, RaiseChecked(p) \/ AwaitChecked(p)
  PROVE  turns' \in [Event -> [EventId -> Turns]]
<1> DEFINE e == First(p).evt
           d == First(p).id
           n == Head(notes[p]).turn
<1>1. Busy(p) /\ IsFlagOp(First(p))
  BY DEF RaiseChecked, AwaitChecked, Raise, Await, IsFlagOp
<1>2. e \in Event /\ d \in EventId /\ turns[e][d] \in Turns
  BY <1>1, FirstFlag
<1>3. n \in Nat
  <2>1. Passes(p)
    BY PassCases
  <2>2. Head(notes[p]) \in Notes
    BY <2>1, NotesAfterPass DEF PipesOK
  <2> QED
    BY <2>2 DEF Notes
<1>4. PICK t : t = IF RaiseChecked(p) THEN [turns[e][d] EXCEPT !.done = n]
                                     ELSE [turns[e][d] EXCEPT !.awaited = n]
  OBVIOUS
<1>5. turns' = [turns EXCEPT ![e][d] = t]
  BY <1>4 DEF RaiseChecked, AwaitChecked
<1> HIDE DEF e, d, n
<1>6. t \in Turns
  BY <1>2, <1>3, <1>4 DEF Turns
<1> QED
  BY <1>2, <1>5, <1>6 DEF HistoryOK, HistoryTyped

LEMMA CheckedStepIsStep == [CheckedNext]_checkedVars => [Next]_vars
<1>1. CheckedNext => Next
  BY DEF CheckedNext, IssueChecked, StartBlockChecked, StartLaunchChecked, CompleteChecked,
         RaiseChecked, AwaitChecked, Next, Host, RunPipe
<1> QED
  BY <1>1 DEF checkedVars

LEMMA HistoryOKStep ==
  ASSUME PipesOK, HistoryOK, [CheckedNext]_checkedVars
  PROVE  HistoryOK'
<1>1. PipesOK' /\ CoreTypeOK'
  BY CheckedStepIsStep, PipesOKStep DEF PipesOK, RunOK, BaseOK
<1>2. CASE IssueChecked
  <2>1. /\ UNCHANGED launch /\ pc' = pc + 1
        /\ UNCHANGED <<history, fifo>> \/ \E i \in Instrs : Placed(i) /\ Issues(i)
    BY <1>2, IssueCases
  <2> QED
    BY <1>1, <2>1, HistoryOKQuiet, HistoryTypedAfterIssue, NotesMatchAfterIssue DEF HistoryOK
<1>3. CASE ReturnDrained /\ UNCHANGED history
  BY <1>3, HistoryOKQuiet DEF ReturnDrained, Return, runVars, hwVars
<1>4. CASE StartBlockChecked
  BY <1>4, HistoryOKStartBlock
<1>5. CASE StartLaunchChecked
  BY <1>1, <1>5, HistoryOKStartLaunch
<1>6. ASSUME NEW p \in Pipe, Start(p), UNCHANGED history PROVE HistoryOK'
  BY <1>6, HistoryOKQuiet DEF Start, runVars
<1>7. ASSUME NEW p \in Pipe, CompleteChecked(p) PROVE HistoryOK'
  <2>1. Passes(p) /\ UNCHANGED turns
    BY <1>7, PassCases DEF CompleteChecked
  <2> QED
    BY <2>1, HistoryOKPass DEF HistoryOK, HistoryTyped
<1>8. ASSUME NEW p \in Pipe, RaiseChecked(p) \/ AwaitChecked(p) PROVE HistoryOK'
  BY <1>8, PassCases, TurnsAfterFlag, HistoryOKPass
<1>9. CASE (Finished /\ UNCHANGED history) \/ UNCHANGED checkedVars
  BY <1>9, HistoryOKQuiet DEF Finished, checkedVars, vars, hwVars, runVars
<1> QED
  BY <1>2, <1>3, <1>4, <1>5, <1>6, <1>7, <1>8, <1>9 DEF CheckedNext

\* Without its history variables, CheckedPipes does what ConcurrentPipes does.
LEMMA CheckedImplementsPipes == CheckedSpec => Spec
<1>1. CheckedInit => Init
  BY DEF CheckedInit
<1> QED
  BY <1>1, CheckedStepIsStep, PTL DEF CheckedSpec, Spec

LEMMA HistoryOKAlways == CheckedSpec => [](PipesOK /\ HistoryOK)
<1>1. CheckedInit => PipesOK /\ HistoryOK
  BY PipesOKInit, HistoryOKInit DEF CheckedInit
<1>2. PipesOK /\ HistoryOK /\ [CheckedNext]_checkedVars => (PipesOK /\ HistoryOK)'
  BY CheckedStepIsStep, PipesOKStep, HistoryOKStep
<1> QED
  BY <1>1, <1>2, PTL DEF CheckedSpec

-----------------------------------------------------------------------------
(* The instructions pending, each with its note.                           *)

Entry(i, n) == [instr |-> i, note |-> n]

Entries(p) == {Entry(fifo[p][n], notes[p][n]) : n \in DOMAIN fifo[p]}

Pending == UNION {Entries(p) : p \in Pipe}

\* In the order of the program.
Before(x, y) == x.note.at < y.note.at

IsData(x) == ~ IsFlagOp(x.instr)

FirstEntry(p) == Entry(First(p), Head(notes[p]))

LEMMA EntryTyped ==
  ASSUME FifoOK, HistoryOK, NEW p \in Pipe, NEW x \in Entries(p)
  PROVE  /\ x = Entry(x.instr, x.note)
         /\ x.instr \in Instrs /\ x.instr.pipe = p /\ Placed(x.instr)
         /\ x.note \in Notes /\ x.note.at < pc
         /\ DOMAIN x.note.found = Sources(x.instr)
         /\ x.note.at \in Nat /\ x.note.turn \in Nat /\ x.note.row \in [Pipe -> Nat]
<1>1. PICK n \in DOMAIN fifo[p] : x = Entry(fifo[p][n], notes[p][n])
  BY DEF Entries
<1>2. x.instr = fifo[p][n] /\ x.note = notes[p][n]
  BY <1>1 DEF Entry
<1>3. notes[p][n] \in Notes /\ fifo[p][n] \in Instrs
  BY NoteDomains
<1>4. /\ fifo[p][n].pipe = p /\ Placed(fifo[p][n])
      /\ notes[p][n].at < pc /\ DOMAIN notes[p][n].found = Sources(fifo[p][n])
  BY DEF FifoOK, HistoryOK, NotesMatch
<1>5. x.note.at \in Nat /\ x.note.turn \in Nat /\ x.note.row \in [Pipe -> Nat]
  BY <1>2, <1>3 DEF Notes
<1> QED
  BY <1>1, <1>2, <1>3, <1>4, <1>5

\* No two instructions are at one place of the program.
LEMMA EntriesApart ==
  ASSUME FifoOK, HistoryOK, NEW p \in Pipe, NEW q \in Pipe, NEW x \in Entries(p), NEW y \in Entries(q)
  PROVE  x = y \/ Before(x, y) \/ Before(y, x)
<1>1. PICK m \in DOMAIN fifo[p] : x = Entry(fifo[p][m], notes[p][m])
  BY DEF Entries
<1>2. PICK n \in DOMAIN fifo[q] : y = Entry(fifo[q][n], notes[q][n])
  BY DEF Entries
<1>3. x.note = notes[p][m] /\ y.note = notes[q][n] /\ x.note.at \in Nat /\ y.note.at \in Nat
  BY <1>1, <1>2, EntryTyped DEF Entry
<1>4. CASE p = q
  <2>1. m \in Nat /\ n \in Nat
    BY <1>4, NoteDomains
  <2>2. m = n \/ m < n \/ n < m
    BY <2>1
  <2> QED
    BY <1>1, <1>2, <1>3, <1>4, <2>2 DEF Before, HistoryOK, NotesMatch
<1>5. CASE p # q
  <2>1. x.note.at # y.note.at
    BY <1>3, <1>5 DEF HistoryOK, NotesApart
  <2> QED
    BY <1>3, <2>1 DEF Before
<1> QED
  BY <1>4, <1>5

LEMMA EntriesAfterIssue ==
  ASSUME PipesOK, CoreTypeOK', HistoryOK, NEW i \in Instrs, Placed(i), Issues(i),
         NEW e, e = Entry(i, Note(i, i.pipe)), NEW M, M = Snapshot(i.pipe)'
  PROVE  /\ i.pipe \in Pipe
         /\ Entries(i.pipe)' = Entries(i.pipe) \cup {e}
         /\ \A q \in Pipe \ {i.pipe} : Entries(q)' = Entries(q)
         /\ e.instr = i /\ e.note \in Notes /\ \A r \in Pipe : e.note.row[r] = M[r]
         /\ \A g \in Sources(i) : e.note.found[g] = memory[g]
         /\ \A q \in Pipe : \A x \in Entries(q) : Before(x, e) /\ ~ Before(e, x)
         /\ ~ Before(e, e)
<1> DEFINE p == i.pipe
           n == Note(i, p)
<1>1. /\ p \in Pipe
      /\ fifo'[p] = Append(fifo[p], i) /\ notes'[p] = Append(notes[p], n)
      /\ \A q \in Pipe \ {p} : fifo'[q] = fifo[q] /\ notes'[q] = notes[q]
  BY NotesAfterIssue
<1>2. n \in Notes /\ n.at = pc /\ n.row = Snapshot(p)'
  BY NoteTyped
<1>3. n.found = [g \in Sources(i) |-> memory[g]]
  BY DEF Note
<1>4. e.instr = i /\ e.note = n
  BY DEF Entry
<1> HIDE DEF n, p
<1>5. Entries(p)' = Entries(p) \cup {e}
  <2>1. /\ fifo[p] \in Seq(Instrs) /\ notes[p] \in Seq(Notes)
        /\ Len(notes[p]) = Len(fifo[p])
    BY <1>1, NoteDomains DEF PipesOK
  <2>2. PICK s \in Seq(Instrs), t \in Seq(Notes) : s = fifo[p] /\ t = notes[p]
    BY <2>1
  <2>3. PICK k \in Nat : k = Len(s) /\ k = Len(t)
    BY <2>1, <2>2
  <2>4. /\ DOMAIN s = 1 .. k /\ DOMAIN Append(s, i) = 1 .. (k + 1)
        /\ Append(s, i)[k + 1] = i /\ Append(t, n)[k + 1] = n
        /\ \A j \in 1 .. k : Append(s, i)[j] = s[j] /\ Append(t, n)[j] = t[j]
    <3>1. /\ DOMAIN s = 1 .. k /\ DOMAIN Append(s, i) = 1 .. (k + 1)
          /\ Append(s, i)[k + 1] = i
          /\ \A j \in 1 .. k : Append(s, i)[j] = s[j]
      <4>1. DOMAIN s = 1 .. Len(s) /\ DOMAIN Append(s, i) = 1 .. (Len(s) + 1)
        BY AppendParts
      <4>2. Append(s, i)[Len(s) + 1] = i
        BY AppendParts
      <4>3. \A j \in DOMAIN s : Append(s, i)[j] = s[j]
        BY AppendParts
      <4> QED
        BY <2>3, <4>1, <4>2, <4>3
    <3>2. Append(t, n)[k + 1] = n /\ \A j \in 1 .. k : Append(t, n)[j] = t[j]
      <4>1. PICK m \in Notes : m = n
        BY <1>2
      <4>2. Append(t, m)[k + 1] = m /\ \A j \in 1 .. k : Append(t, m)[j] = t[j]
        BY <2>3, AppendParts
      <4> QED
        BY <4>1, <4>2
    <3> QED
      BY <3>1, <3>2
  <2>5. Entries(p) = {Entry(s[j], t[j]) : j \in 1 .. k}
    BY <2>2, <2>4 DEF Entries
  <2>6. Entries(p)' = {Entry(Append(s, i)[j], Append(t, n)[j]) : j \in 1 .. (k + 1)}
    BY <1>1, <2>2, <2>4 DEF Entries, Entry
  <2>7. \A j \in 1 .. (k + 1) : j = k + 1 \/ j \in 1 .. k
    OBVIOUS
  <2>8. Entry(Append(s, i)[k + 1], Append(t, n)[k + 1]) = e
    BY <2>4 DEF n, p
  <2>9. \A j \in 1 .. k : Entry(Append(s, i)[j], Append(t, n)[j]) = Entry(s[j], t[j])
    BY <2>4
  <2>10. k + 1 \in 1 .. (k + 1) /\ \A j \in 1 .. k : j \in 1 .. (k + 1)
    OBVIOUS
  <2> QED
    BY <2>5, <2>6, <2>7, <2>8, <2>9, <2>10
<1>6. ASSUME NEW q \in Pipe \ {p} PROVE Entries(q)' = Entries(q)
  BY <1>1, <1>6 DEF Entries, Entry
<1>7. ASSUME NEW q \in Pipe, NEW x \in Entries(q) PROVE Before(x, e) /\ ~ Before(e, x)
  <2>1. x.note.at < pc /\ x.note.at \in Nat /\ pc \in Nat
    BY EntryTyped, LaunchTyped DEF PipesOK, RunOK, ProgressOK
  <2> QED
    BY <1>2, <1>4, <2>1 DEF Before
<1>8. ~ Before(e, e)
  <2>1. e.note.at \in Nat
    BY <1>2, <1>4 DEF Notes
  <2> QED
    BY <2>1 DEF Before
<1> QED
  BY <1>1, <1>2, <1>3, <1>4, <1>5, <1>6, <1>7, <1>8 DEF p

\* The first instruction of a pipe is the oldest of the pipe.
LEMMA FirstIsOldest ==
  ASSUME FifoOK, HistoryOK, NEW p \in Pipe, Busy(p), NEW h, h = FirstEntry(p)
  PROVE  /\ h \in Entries(p) /\ h.instr = First(p) /\ h.note = Head(notes[p])
         /\ h.note = notes[p][1]
         /\ \A x \in Entries(p) : ~ Before(x, h) /\ (x = h \/ Before(h, x))
<1>1. /\ fifo[p] \in Seq(Instrs) /\ notes[p] \in Seq(Notes) /\ fifo[p] # <<>>
      /\ Len(notes[p]) = Len(fifo[p]) /\ DOMAIN fifo[p] = 1 .. Len(fifo[p])
  BY NoteDomains DEF Busy
<1>2. notes[p] # <<>>
  BY <1>1
<1>3. Head(fifo[p]) = fifo[p][1] /\ Head(notes[p]) = notes[p][1] /\ 1 \in DOMAIN fifo[p]
  BY <1>1, <1>2
<1>4. h.instr = First(p) /\ h.note = Head(notes[p]) /\ h = Entry(fifo[p][1], notes[p][1])
  BY <1>3 DEF FirstEntry, Entry, First
<1>5. h \in Entries(p)
  BY <1>3, <1>4 DEF Entries
<1>6. ASSUME NEW x \in Entries(p) PROVE ~ Before(x, h) /\ (x = h \/ Before(h, x))
  <2>1. PICK n \in DOMAIN fifo[p] : x = Entry(fifo[p][n], notes[p][n])
    BY DEF Entries
  <2>2. n = 1 \/ 1 < n
    BY <1>1
  <2>3. x.note = notes[p][n] /\ x.note.at \in Nat /\ h.note.at \in Nat
    BY <1>5, <2>1, EntryTyped DEF Entry
  <2>4. CASE n = 1
    BY <1>4, <2>1, <2>3, <2>4 DEF Before
  <2>5. CASE 1 < n
    <3>1. notes[p][1].at < notes[p][n].at
      BY <1>3, <2>5 DEF HistoryOK, NotesMatch
    <3> QED
      BY <1>3, <1>4, <2>3, <3>1 DEF Before
  <2> QED
    BY <2>2, <2>4, <2>5
<1> QED
  BY <1>3, <1>4, <1>5, <1>6

LEMMA EntriesAfterPass ==
  ASSUME FifoOK, HistoryOK, NEW p \in Pipe, Passes(p), NEW h, h = FirstEntry(p)
  PROVE  /\ Entries(p)' = Entries(p) \ {h}
         /\ \A q \in Pipe \ {p} : Entries(q)' = Entries(q)
         /\ h \in Entries(p) /\ h.instr = First(p) /\ h.note = Head(notes[p])
         /\ \A x \in Entries(p) : ~ Before(x, h) /\ (x = h \/ Before(h, x))
         /\ over' = [over EXCEPT ![p] = h.note.row[p]]
<1>1. /\ fifo'[p] = Tail(fifo[p]) /\ notes'[p] = Tail(notes[p])
      /\ \A q \in Pipe \ {p} : fifo'[q] = fifo[q] /\ notes'[q] = notes[q]
      /\ fifo[p] # <<>> /\ notes[p] # <<>>
      /\ over' = [over EXCEPT ![p] = Head(notes[p]).row[p]]
  BY NotesAfterPass
<1>2. /\ h \in Entries(p) /\ h.instr = First(p) /\ h.note = Head(notes[p]) /\ h.note = notes[p][1]
      /\ \A x \in Entries(p) : ~ Before(x, h) /\ (x = h \/ Before(h, x))
  BY FirstIsOldest DEF Passes
<1>3. PICK s \in Seq(Instrs), t \in Seq(Notes) :
        s = fifo[p] /\ t = notes[p] /\ Len(s) = Len(t) /\ s # <<>> /\ t # <<>>
  BY <1>1, NoteDomains
<1>4. PICK k \in Nat : Len(s) = k + 1 /\ k = Len(s) - 1
  <2>1. Len(s) \in Nat \ {0}
    BY <1>3, TailParts
  <2>2. Len(s) - 1 \in Nat /\ Len(s) = (Len(s) - 1) + 1
    BY <2>1
  <2> QED
    BY <2>2
<1>5. /\ DOMAIN s = 1 .. (k + 1) /\ DOMAIN Tail(s) = 1 .. k
      /\ \A n \in 1 .. k : Tail(s)[n] = s[n + 1] /\ Tail(t)[n] = t[n + 1]
  BY <1>3, <1>4, TailParts
<1>6. Entries(p) = {Entry(s[n], t[n]) : n \in 1 .. (k + 1)}
  BY <1>3, <1>5 DEF Entries
<1>7. Entries(p)' = {Entry(Tail(s)[n], Tail(t)[n]) : n \in 1 .. k}
  BY <1>1, <1>3, <1>5 DEF Entries, Entry
<1>8. h = Entry(s[1], t[1])
  BY <1>3 DEF FirstEntry, First
<1>9. ASSUME NEW n \in 1 .. k
      PROVE  Entry(s[n + 1], t[n + 1]) \in Entries(p) \ {h}
  <2>1. n + 1 \in 1 .. (k + 1) /\ 1 \in 1 .. (k + 1) /\ 1 < n + 1
    OBVIOUS
  <2>2. t[1].at < t[n + 1].at
    BY <1>3, <1>5, <2>1 DEF HistoryOK, NotesMatch
  <2>3. t[1].at \in Nat
    BY <1>2, <1>3, EntryTyped
  <2>4. t[n + 1] # t[1]
    BY <2>2, <2>3
  <2>5. Entry(s[n + 1], t[n + 1]) # h
    BY <1>8, <2>4 DEF Entry
  <2> QED
    BY <1>6, <2>1, <2>5
<1>10. ASSUME NEW x \in Entries(p) \ {h} PROVE x \in Entries(p)'
  <2>1. PICK n \in 1 .. (k + 1) : x = Entry(s[n], t[n])
    BY <1>6
  <2>2. n # 1
    BY <1>8, <2>1
  <2>3. PICK m \in 1 .. k : m + 1 = n
    <3>1. n - 1 \in 1 .. k /\ (n - 1) + 1 = n
      BY <2>2
    <3> QED
      BY <3>1
  <2> QED
    BY <1>5, <1>7, <2>1, <2>3
<1>11. Entries(p)' \subseteq Entries(p) \ {h}
  BY <1>5, <1>7, <1>9
<1>12. ASSUME NEW q \in Pipe \ {p} PROVE Entries(q)' = Entries(q)
  BY <1>1, <1>12 DEF Entries, Entry
<1> QED
  BY <1>1, <1>2, <1>10, <1>11, <1>12

-----------------------------------------------------------------------------
(* What the pipes have observed of each other.                             *)

IsRow(R) ==
  \/ \E p \in Pipe : R = Snapshot(p)
  \/ \E e \in Event, id \in EventId : flags[e][id].pending /\ R = flags[e][id].snapshot

\* What each pipe publishes, and what each raised flag carries.
Rows == {R \in [Pipe -> Nat] : IsRow(R)}

\* Nobody has observed what was not issued.
RowsSeen == \A R \in Rows, q \in Pipe : R[q] <= clock[q]

LEMMA FlagSlots ==
  ASSUME CoreTypeOK, NEW e \in Event, NEW id \in EventId
  PROVE  /\ flags[e][id] \in EventSlot
         /\ flags[e][id].snapshot \in [Pipe -> Nat]
         /\ flags[e][id].pending => flags[e][id].snapshot \in Rows
<1>1. flags[e][id] \in EventSlot
  BY DEF CoreTypeOK
<1>2. flags[e][id].snapshot \in [Pipe -> Nat]
  BY <1>1 DEF EventSlot
<1> QED
  BY <1>1, <1>2 DEF Rows, IsRow

LEMMA SnapshotIsRow ==
  ASSUME CoreTypeOK, NEW p \in Pipe
  PROVE  Snapshot(p) \in Rows
  BY SnapshotTyped DEF Rows, IsRow

LEMMA SnapshotsAlike ==
  ASSUME UNCHANGED <<clock, view>>, NEW p \in Pipe
  PROVE  Snapshot(p)' = Snapshot(p)
  BY DEF Snapshot

LEMMA RowsUnchanged ==
  ASSUME UNCHANGED <<clock, view, flags>>
  PROVE  Rows' = Rows
<1>1. \A p \in Pipe : Snapshot(p)' = Snapshot(p)
  BY SnapshotsAlike
<1> QED
  BY <1>1 DEF Rows, IsRow

\* A flag that is raised carries what its pipe publishes.
LEMMA RowsAfterSet ==
  ASSUME CoreTypeOK, NEW i \in Instrs, Placed(i), SetsFlag(i)
  PROVE  /\ i.evt \in Event /\ i.id \in EventId /\ i.pipe \in Pipe
         /\ i.pipe = EventSrcPipe[i.evt] /\ IsFlagOp(i)
         /\ Rows' \subseteq Rows
         /\ \A p \in Pipe : Snapshot(p)' = Snapshot(p)
         /\ flags'[i.evt][i.id].pending /\ flags'[i.evt][i.id].snapshot = Snapshot(i.pipe)
         /\ \A e \in Event, id \in EventId :
              (e = i.evt /\ id = i.id) \/ flags'[e][id] = flags[e][id]
<1>1. /\ i.op = "SetFlag" /\ flags' = FlagsAfterSet(i.evt, i.id) /\ UNCHANGED <<clock, view, gran>>
  BY DEF SetsFlag
<1>2. i.evt \in Event /\ i.id \in EventId /\ i.pipe \in Pipe /\ i.pipe = EventSrcPipe[i.evt]
      /\ IsFlagOp(i)
  BY <1>1, InstrKinds DEF FlagInstrs, IsFlagOp, Placed
<1>3. flags' = [flags EXCEPT ![i.evt][i.id] = [pending |-> TRUE, snapshot |-> Snapshot(i.pipe)]]
  BY <1>1, <1>2 DEF FlagsAfterSet
<1>4. /\ flags'[i.evt][i.id] = [pending |-> TRUE, snapshot |-> Snapshot(i.pipe)]
      /\ \A e \in Event, id \in EventId :
              (e = i.evt /\ id = i.id) \/ flags'[e][id] = flags[e][id]
  <2>1. flags \in [Event -> [EventId -> EventSlot]]
    BY DEF CoreTypeOK
  <2> QED
    BY <1>2, <1>3, <2>1
<1>5. \A p \in Pipe : Snapshot(p)' = Snapshot(p)
  BY <1>1, SnapshotsAlike
<1>6. flags'[i.evt][i.id].pending /\ flags'[i.evt][i.id].snapshot = Snapshot(i.pipe)
  BY <1>4
<1>7. ASSUME NEW R \in Rows' PROVE R \in Rows
  <2>1. R \in [Pipe -> Nat]
    BY DEF Rows
  <2>2. \/ \E p \in Pipe : R = Snapshot(p)
        \/ \E e \in Event, id \in EventId : flags'[e][id].pending /\ R = flags'[e][id].snapshot
    BY <1>5 DEF Rows, IsRow
  <2>3. CASE \E p \in Pipe : R = Snapshot(p)
    BY <2>1, <2>3 DEF Rows, IsRow
  <2>4. CASE \E e \in Event, id \in EventId : flags'[e][id].pending /\ R = flags'[e][id].snapshot
    <3>1. PICK e \in Event, id \in EventId : flags'[e][id].pending /\ R = flags'[e][id].snapshot
      BY <2>4
    <3>2. CASE e = i.evt /\ id = i.id
      BY <1>2, <1>6, <2>1, <3>1, <3>2 DEF Rows, IsRow
    <3>3. CASE flags'[e][id] = flags[e][id]
      BY <2>1, <3>1, <3>3 DEF Rows, IsRow
    <3> QED
      BY <1>4, <3>2, <3>3
  <2> QED
    BY <2>2, <2>3, <2>4
<1> QED
  BY <1>2, <1>4, <1>5, <1>6, <1>7

\* A pipe that has waited knows what it knew, and what the flag carried.
LEMMA RowsAfterWait ==
  ASSUME CoreTypeOK, RowsSeen, NEW i \in Instrs, Placed(i), WaitsForFlag(i),
         NEW S, S = flags[i.evt][i.id].snapshot, NEW M, M = Snapshot(i.pipe)'
  PROVE  /\ i.evt \in Event /\ i.id \in EventId /\ i.pipe \in Pipe
         /\ i.pipe = EventDstPipe[i.evt] /\ IsFlagOp(i)
         /\ S \in Rows
         /\ Rows' \subseteq Rows \cup {M}
         /\ \A p \in Pipe \ {i.pipe} : Snapshot(p)' = Snapshot(p)
         /\ \A r \in Pipe : /\ M[r] = Snapshot(i.pipe)[r] \/ M[r] = S[r]
                            /\ Snapshot(i.pipe)[r] <= M[r] /\ S[r] <= M[r]
         /\ ~ flags'[i.evt][i.id].pending
         /\ \A e \in Event, id \in EventId :
              (e = i.evt /\ id = i.id) \/ flags'[e][id] = flags[e][id]
<1> DEFINE p == i.pipe
<1>1. /\ i.op = "WaitFlag" /\ flags[i.evt][i.id].pending
      /\ view' = ViewAfterWait(i.evt, i.id) /\ flags' = FlagsAfterWait(i.evt, i.id)
      /\ UNCHANGED <<clock, gran>>
  BY DEF WaitsForFlag
<1>2. i.evt \in Event /\ i.id \in EventId /\ p \in Pipe /\ p = EventDstPipe[i.evt] /\ IsFlagOp(i)
  BY <1>1, InstrKinds DEF FlagInstrs, IsFlagOp, Placed
<1>3. S \in Rows /\ S \in [Pipe -> Nat]
  BY <1>1, <1>2, FlagSlots
<1>4. /\ ~ flags'[i.evt][i.id].pending
      /\ \A e \in Event, id \in EventId :
              (e = i.evt /\ id = i.id) \/ flags'[e][id] = flags[e][id]
  <2>1. flags \in [Event -> [EventId -> EventSlot]]
    BY DEF CoreTypeOK
  <2>2. flags' = [flags EXCEPT ![i.evt][i.id] = [flags[i.evt][i.id] EXCEPT !.pending = FALSE]]
    BY <1>1, <1>2 DEF FlagsAfterWait, Raised
  <2>3. PICK f \in EventSlot : f = flags[i.evt][i.id]
    BY <1>2, <2>1
  <2>4. ~ [f EXCEPT !.pending = FALSE].pending
    BY <2>3 DEF EventSlot
  <2>5. flags'[i.evt][i.id] = [f EXCEPT !.pending = FALSE]
    BY <1>2, <2>1, <2>2, <2>3
  <2>6. \A e \in Event, id \in EventId :
              (e = i.evt /\ id = i.id) \/ flags'[e][id] = flags[e][id]
    BY <1>2, <2>1, <2>2
  <2> QED
    BY <2>4, <2>5, <2>6
<1>5. /\ \A q \in Pipe \ {p} : view'[q] = view[q]
      /\ view'[p] = [r \in Pipe |-> Larger(S[r], view[p][r])]
      /\ DOMAIN view' = Pipe
  <2>1. view \in [Pipe -> [Pipe -> Nat]]
    BY DEF CoreTypeOK
  <2>2. view' = [view EXCEPT ![p] = [r \in Pipe |-> Larger(S[r], view[p][r])]]
    BY <1>1, <1>2 DEF ViewAfterWait, Raised
  <2> QED
    BY <1>2, <2>1, <2>2
<1>6. \A q \in Pipe \ {p} : Snapshot(q)' = Snapshot(q)
  BY <1>1, <1>5 DEF Snapshot
<1>7. M = [[r \in Pipe |-> Larger(S[r], view[p][r])] EXCEPT ![p] = clock[p]]
  BY <1>1, <1>5 DEF Snapshot
<1> HIDE DEF p
<1>8. ASSUME NEW r \in Pipe
      PROVE  /\ M[r] = Snapshot(p)[r] \/ M[r] = S[r]
             /\ Snapshot(p)[r] <= M[r] /\ S[r] <= M[r]
  <2>1. view[p][r] \in Nat /\ S[r] \in Nat /\ clock[p] \in Nat /\ S[p] <= clock[p]
    BY <1>2, <1>3 DEF CoreTypeOK, RowsSeen
  <2>2. CASE r = p
    <3>1. M[r] = clock[p] /\ Snapshot(p)[r] = clock[p]
      BY <1>2, <1>7, <2>2, SnapshotParts
    <3> QED
      BY <2>1, <2>2, <3>1
  <2>3. CASE r # p
    <3>1. M[r] = Larger(S[r], view[p][r]) /\ Snapshot(p)[r] = view[p][r]
      BY <1>2, <1>7, <2>3, SnapshotParts
    <3> QED
      BY <2>1, <3>1 DEF Larger
  <2> QED
    BY <2>2, <2>3
<1>9. ASSUME NEW R \in Rows' PROVE R \in Rows \cup {M}
  <2>1. R \in [Pipe -> Nat]
    BY DEF Rows
  <2>2. \/ R = M
        \/ \E q \in Pipe : R = Snapshot(q)
        \/ \E e \in Event, id \in EventId : flags'[e][id].pending /\ R = flags'[e][id].snapshot
    BY <1>6 DEF Rows, IsRow, p
  <2>3. CASE \E q \in Pipe : R = Snapshot(q)
    BY <2>1, <2>3 DEF Rows, IsRow
  <2>4. CASE \E e \in Event, id \in EventId : flags'[e][id].pending /\ R = flags'[e][id].snapshot
    <3>1. PICK e \in Event, id \in EventId : flags'[e][id].pending /\ R = flags'[e][id].snapshot
      BY <2>4
    <3>2. flags'[e][id] = flags[e][id]
      BY <1>4, <3>1
    <3> QED
      BY <2>1, <3>1, <3>2 DEF Rows, IsRow
  <2> QED
    BY <2>2, <2>3, <2>4
<1> QED
  BY <1>2, <1>3, <1>4, <1>6, <1>8, <1>9 DEF p

\* An instruction that moves data is the next tick of its pipe.
LEMMA RowsAfterData ==
  ASSUME CoreTypeOK, NEW i \in Instrs, MovesData(i), NEW M, M = Snapshot(i.pipe)'
  PROVE  /\ i.pipe \in Pipe
         /\ Rows' \subseteq Rows \cup {M}
         /\ UNCHANGED flags
         /\ \A p \in Pipe \ {i.pipe} : Snapshot(p)' = Snapshot(p)
         /\ clock' = [clock EXCEPT ![i.pipe] = @ + 1]
         /\ M[i.pipe] = clock[i.pipe] + 1
         /\ \A r \in Pipe \ {i.pipe} : M[r] = Snapshot(i.pipe)[r]
<1> DEFINE p == i.pipe
<1>1. /\ clock' = [clock EXCEPT ![p] = @ + 1] /\ UNCHANGED <<view, flags>>
  BY DEF MovesData, Instruction
<1>2. p \in Pipe /\ clock \in [Pipe -> Nat] /\ view[p] \in [Pipe -> Nat]
  BY InstrKinds DEF CoreTypeOK
<1>3. clock'[p] = clock[p] + 1 /\ \A q \in Pipe \ {p} : clock'[q] = clock[q]
  BY <1>1, <1>2
<1>4. \A q \in Pipe \ {p} : Snapshot(q)' = Snapshot(q)
  BY <1>1, <1>3 DEF Snapshot
<1>5. M = [view[p] EXCEPT ![p] = clock'[p]]
  BY <1>1 DEF Snapshot
<1> HIDE DEF p
<1>6. M[p] = clock[p] + 1 /\ \A r \in Pipe \ {p} : M[r] = view[p][r]
  BY <1>2, <1>3, <1>5
<1>7. \A r \in Pipe \ {p} : M[r] = Snapshot(p)[r]
  BY <1>2, <1>6, SnapshotParts
<1>8. ASSUME NEW R \in Rows' PROVE R \in Rows \cup {M}
  <2>1. R \in [Pipe -> Nat]
    BY DEF Rows
  <2>2. \/ R = M
        \/ \E q \in Pipe : R = Snapshot(q)
        \/ \E e \in Event, id \in EventId : flags[e][id].pending /\ R = flags[e][id].snapshot
    BY <1>1, <1>4 DEF Rows, IsRow, p
  <2> QED
    BY <2>1, <2>2 DEF Rows, IsRow
<1> QED
  BY <1>1, <1>2, <1>4, <1>6, <1>7, <1>8 DEF p

\* Whatever the call, pipe i.pipe publishes more than before, and no more than
\* it, or the flag it waits for, knew.
LEMMA RowsAfterIssue ==
  ASSUME CoreTypeOK, RowsSeen, NEW i \in Instrs, Placed(i), Effect(i),
         NEW M, M = Snapshot(i.pipe)'
  PROVE  /\ i.pipe \in Pipe
         /\ Rows' \subseteq Rows \cup {M}
         /\ \A p \in Pipe \ {i.pipe} : Snapshot(p)' = Snapshot(p)
         /\ \A r \in Pipe : Snapshot(i.pipe)[r] <= M[r]
         /\ \A w \in Pipe : \A c \in Nat : c <= clock[w] /\ c <= M[w] =>
              \E R \in Rows : c <= R[w] /\ \A q \in Pipe : R[q] <= M[q]
         /\ \A q \in Pipe \ {i.pipe} : clock'[q] = clock[q] /\ M[q] <= clock[q]
         /\ M[i.pipe] = clock'[i.pipe]
         /\ IsFlagOp(i) => clock'[i.pipe] = clock[i.pipe]
         /\ ~ IsFlagOp(i) => clock'[i.pipe] = clock[i.pipe] + 1
<1> DEFINE p == i.pipe
           T == Snapshot(i.pipe)
<1>1. p \in Pipe /\ T \in Rows /\ T \in [Pipe -> Nat] /\ T[p] = clock[p]
  BY InstrKinds, SnapshotIsRow, SnapshotParts
<1>2. clock \in [Pipe -> Nat]
  BY DEF CoreTypeOK
<1>3. CASE SetsFlag(i)
  <2>1. /\ Rows' \subseteq Rows /\ IsFlagOp(i) /\ \A q \in Pipe : Snapshot(q)' = Snapshot(q)
    BY <1>3, RowsAfterSet
  <2>2. M = T /\ UNCHANGED clock
    BY <1>1, <1>3, <2>1 DEF SetsFlag
  <2>3. \A q \in Pipe : T[q] <= clock[q] /\ T[q] \in Nat
    BY <1>1 DEF RowsSeen
  <2> HIDE DEF T, p
  <2>4. \A r \in Pipe : T[r] <= M[r]
    BY <2>2, <2>3
  <2> QED
    BY <1>1, <2>1, <2>2, <2>3, <2>4 DEF p, T
<1>4. CASE WaitsForFlag(i)
  <2>1. PICK S : S = flags[i.evt][i.id].snapshot
    OBVIOUS
  <2>2. /\ IsFlagOp(i) /\ S \in Rows /\ Rows' \subseteq Rows \cup {M}
        /\ \A q \in Pipe \ {p} : Snapshot(q)' = Snapshot(q)
        /\ \A r \in Pipe : (M[r] = T[r] \/ M[r] = S[r]) /\ T[r] <= M[r] /\ S[r] <= M[r]
    BY <1>4, <2>1, RowsAfterWait
  <2>3. UNCHANGED clock
    BY <1>4 DEF WaitsForFlag
  <2> HIDE DEF T, p
  <2>4. \A r \in Pipe : T[r] <= clock[r] /\ S[r] <= clock[r] /\ T[r] \in Nat /\ S[r] \in Nat
    BY <1>1, <2>2 DEF RowsSeen, Rows
  <2>5. \A r \in Pipe : M[r] <= clock[r] /\ M[r] \in Nat
    BY <2>2, <2>4
  <2>6. M[p] = clock[p]
    <3>1. T[p] <= M[p] /\ M[p] <= clock[p] /\ M[p] \in Nat /\ clock[p] \in Nat
      BY <1>1, <1>2, <2>2, <2>5
    <3> QED
      BY <1>1, <3>1
  <2>7. \A w \in Pipe : \A c \in Nat : c <= M[w] =>
          \E R \in Rows : c <= R[w] /\ \A q \in Pipe : R[q] <= M[q]
    BY <1>1, <2>2
  <2> QED
    BY <1>1, <2>2, <2>3, <2>5, <2>6, <2>7 DEF p, T
<1>5. CASE MovesData(i)
  <2>1. /\ Rows' \subseteq Rows \cup {M}
        /\ \A q \in Pipe \ {p} : Snapshot(q)' = Snapshot(q)
        /\ clock' = [clock EXCEPT ![p] = @ + 1]
        /\ M[p] = clock[p] + 1
        /\ \A r \in Pipe \ {p} : M[r] = T[r]
    BY <1>5, RowsAfterData
  <2>2. ~ IsFlagOp(i)
    BY <1>5 DEF MovesData
  <2> HIDE DEF T, p
  <2>3. clock'[p] = clock[p] + 1 /\ \A q \in Pipe \ {p} : clock'[q] = clock[q]
    BY <1>1, <1>2, <2>1
  <2>4. \A r \in Pipe : T[r] <= clock[r] /\ T[r] \in Nat /\ clock[r] \in Nat
    BY <1>1, <1>2 DEF RowsSeen
  <2>5. \A r \in Pipe : T[r] <= M[r]
    BY <1>1, <2>1, <2>4
  <2>6. \A q \in Pipe \ {p} : M[q] <= clock[q]
    BY <2>1, <2>4
  <2>7. ASSUME NEW w \in Pipe, NEW c \in Nat, c <= clock[w], c <= M[w] PROVE c <= T[w]
    <3>1. CASE w = p
      BY <1>1, <2>7, <3>1
    <3>2. CASE w # p
      BY <2>1, <2>7, <3>2
    <3> QED
      BY <3>1, <3>2
  <2> QED
    BY <1>1, <2>1, <2>2, <2>3, <2>5, <2>6, <2>7 DEF p, T
<1> QED
  BY <1>3, <1>4, <1>5 DEF Effect

LEMMA RowsSeenAfterIssue ==
  ASSUME CoreTypeOK, RowsSeen, NEW i \in Instrs, Placed(i), Effect(i)
  PROVE  RowsSeen'
<1> DEFINE p == i.pipe
<1>1. PICK M : M = Snapshot(p)'
  OBVIOUS
<1>2. /\ p \in Pipe /\ Rows' \subseteq Rows \cup {M}
      /\ \A q \in Pipe \ {p} : clock'[q] = clock[q] /\ M[q] <= clock[q]
      /\ M[p] = clock'[p] /\ (clock'[p] = clock[p] \/ clock'[p] = clock[p] + 1)
  BY <1>1, RowsAfterIssue
<1> HIDE DEF p
<1>3. clock \in [Pipe -> Nat]
  BY DEF CoreTypeOK
<1> SUFFICES ASSUME NEW R \in Rows', NEW q \in Pipe PROVE R[q] <= clock'[q]
  BY DEF RowsSeen
<1>4. clock[q] <= clock'[q] /\ clock'[q] \in Nat
  BY <1>2, <1>3
<1>5. CASE R = M
  BY <1>2, <1>4, <1>5
<1>6. CASE R \in Rows
  <2>1. R[q] <= clock[q] /\ R[q] \in Nat /\ clock[q] \in Nat
    BY <1>3, <1>6 DEF RowsSeen, Rows
  <2> QED
    BY <1>4, <2>1
<1> QED
  BY <1>2, <1>5, <1>6

-----------------------------------------------------------------------------
(* The ticks of a pipe.                                                    *)

\* Clocks only grow along a pipe.
TicksOK ==
  \A p \in Pipe :
    /\ over[p] <= clock[p]
    /\ \A x \in Entries(p) :
         /\ over[p] <= x.note.row[p] /\ x.note.row[p] <= clock[p]
         /\ IsData(x) => over[p] < x.note.row[p]
         /\ \A y \in Entries(p) : Before(x, y) =>
              /\ x.note.row[p] <= y.note.row[p]
              /\ IsData(y) => x.note.row[p] < y.note.row[p]

LEMMA TicksTyped ==
  ASSUME FifoOK, HistoryOK, CoreTypeOK, NEW p \in Pipe
  PROVE  /\ over[p] \in Nat /\ clock[p] \in Nat
         /\ \A x \in Entries(p) : x.note.row[p] \in Nat
  BY EntryTyped DEF HistoryOK, HistoryTyped, CoreTypeOK

LEMMA TicksAfterIssue ==
  ASSUME PipesOK, CoreTypeOK', HistoryOK, RowsSeen, TicksOK,
         NEW i \in Instrs, Placed(i), Issues(i), Effect(i)
  PROVE  TicksOK'
<1> DEFINE p == i.pipe
<1>1. PICK M, e : M = Snapshot(p)' /\ e = Entry(i, Note(i, p))
  OBVIOUS
<1>2. CoreTypeOK /\ FifoOK
  BY DEF PipesOK, RunOK, BaseOK
<1>3. /\ p \in Pipe
      /\ \A q \in Pipe \ {p} : clock'[q] = clock[q]
      /\ M[p] = clock'[p]
      /\ IsFlagOp(i) => clock'[p] = clock[p]
      /\ ~ IsFlagOp(i) => clock'[p] = clock[p] + 1
  BY <1>1, <1>2, RowsAfterIssue
<1>4. /\ Entries(p)' = Entries(p) \cup {e}
      /\ \A q \in Pipe \ {p} : Entries(q)' = Entries(q)
      /\ e.instr = i /\ \A r \in Pipe : e.note.row[r] = M[r]
      /\ \A x \in Entries(p) : ~ Before(e, x)
      /\ ~ Before(e, e)
  <2>1. e = Entry(i, Note(i, i.pipe)) /\ M = Snapshot(i.pipe)'
    BY <1>1
  <2>2. /\ Entries(i.pipe)' = Entries(i.pipe) \cup {e}
        /\ \A q \in Pipe \ {i.pipe} : Entries(q)' = Entries(q)
        /\ e.instr = i /\ \A r \in Pipe : e.note.row[r] = M[r]
        /\ \A q \in Pipe : \A x \in Entries(q) : Before(x, e) /\ ~ Before(e, x)
        /\ ~ Before(e, e)
    BY <2>1, EntriesAfterIssue
  <2> QED
    BY <1>1, <1>3, <2>2
<1>5. UNCHANGED over
  BY DEF Issues, Execute
<1> HIDE DEF p
<1> SUFFICES ASSUME NEW q \in Pipe
             PROVE  /\ over[q] <= clock'[q]
                    /\ \A x \in Entries(q)' :
                         /\ over[q] <= x.note.row[q] /\ x.note.row[q] <= clock'[q]
                         /\ IsData(x) => over[q] < x.note.row[q]
                         /\ \A y \in Entries(q)' : Before(x, y) =>
                              /\ x.note.row[q] <= y.note.row[q]
                              /\ IsData(y) => x.note.row[q] < y.note.row[q]
  BY <1>5 DEF TicksOK, IsData, Before
<1>6. /\ over[q] \in Nat /\ clock[q] \in Nat /\ over[q] <= clock[q]
      /\ \A x \in Entries(q) :
           /\ x.note.row[q] \in Nat
           /\ over[q] <= x.note.row[q] /\ x.note.row[q] <= clock[q]
           /\ IsData(x) => over[q] < x.note.row[q]
           /\ \A y \in Entries(q) : Before(x, y) =>
                /\ x.note.row[q] <= y.note.row[q]
                /\ IsData(y) => x.note.row[q] < y.note.row[q]
  BY <1>2, TicksTyped DEF TicksOK
<1>7. CASE q # p
  BY <1>3, <1>4, <1>6, <1>7
<1>8. CASE q = p
  <2>1. /\ clock'[q] \in Nat /\ clock[q] <= clock'[q] /\ e.note.row[q] = clock'[q]
        /\ IsData(e) => clock[q] < clock'[q]
    BY <1>3, <1>4, <1>6, <1>8 DEF IsData
  <2>2. ASSUME NEW x \in Entries(q)
        PROVE  /\ over[q] <= x.note.row[q] /\ x.note.row[q] <= clock'[q]
               /\ x.note.row[q] <= e.note.row[q]
               /\ IsData(e) => x.note.row[q] < e.note.row[q]
    <3>1. x.note.row[q] \in Nat /\ x.note.row[q] <= clock[q] /\ over[q] <= x.note.row[q]
      BY <1>6
    <3> QED
      BY <1>6, <2>1, <3>1
  <2>3. over[q] <= e.note.row[q] /\ (IsData(e) => over[q] < e.note.row[q])
        /\ e.note.row[q] <= clock'[q] /\ over[q] <= clock'[q]
    BY <1>6, <2>1
  <2>4. Entries(q)' = Entries(q) \cup {e}
    BY <1>4, <1>8
  <2> QED
    BY <1>4, <1>6, <1>8, <2>2, <2>3, <2>4
<1> QED
  BY <1>7, <1>8

LEMMA TicksAfterPass ==
  ASSUME FifoOK, HistoryOK, CoreTypeOK, TicksOK, NEW p \in Pipe, Passes(p)
  PROVE  TicksOK'
<1>1. PICK h : h = FirstEntry(p)
  OBVIOUS
<1>2. /\ Entries(p)' = Entries(p) \ {h}
      /\ \A q \in Pipe \ {p} : Entries(q)' = Entries(q)
      /\ h \in Entries(p)
      /\ \A x \in Entries(p) : x = h \/ Before(h, x)
      /\ over' = [over EXCEPT ![p] = h.note.row[p]]
  BY <1>1, EntriesAfterPass
<1>3. over \in [Pipe -> Nat] /\ UNCHANGED clock
  BY DEF HistoryOK, HistoryTyped, Passes, coreVars
<1>4. over'[p] = h.note.row[p] /\ \A q \in Pipe \ {p} : over'[q] = over[q]
  BY <1>2, <1>3
<1> SUFFICES ASSUME NEW q \in Pipe
             PROVE  /\ over'[q] <= clock[q]
                    /\ \A x \in Entries(q)' :
                         /\ over'[q] <= x.note.row[q] /\ x.note.row[q] <= clock[q]
                         /\ IsData(x) => over'[q] < x.note.row[q]
                         /\ \A y \in Entries(q)' : Before(x, y) =>
                              /\ x.note.row[q] <= y.note.row[q]
                              /\ IsData(y) => x.note.row[q] < y.note.row[q]
  BY <1>3 DEF TicksOK, IsData, Before
<1>5. CASE q = p
  BY <1>2, <1>4, <1>5 DEF TicksOK
<1>6. CASE q # p
  BY <1>2, <1>4, <1>6 DEF TicksOK
<1> QED
  BY <1>5, <1>6

-----------------------------------------------------------------------------
(* Granules carry ticks that were issued.                                  *)

GranulesSeen ==
  \A g \in Granule :
    /\ gran[g].writer # NoPipe => gran[g].clock <= clock[gran[g].writer]
    /\ gran[g].reader # NoPipe => gran[g].readClock <= clock[gran[g].reader]

\* What an instruction leaves in the granules.
LEMMA GranulesAfterData ==
  ASSUME CoreTypeOK, checkMode = "Report", NEW i \in Instrs, MovesData(i), NEW g \in Granule
  PROVE  /\ g \in Targets(i) => /\ gran'[g].writer = i.pipe /\ gran'[g].clock = clock[i.pipe] + 1
                                /\ gran'[g].reader = NoPipe
         /\ g \notin Targets(i) => gran'[g].writer = gran[g].writer /\ gran'[g].clock = gran[g].clock
         /\ g \notin Targets(i) /\ g \in Sources(i) =>
              gran'[g].reader = i.pipe /\ gran'[g].readClock = clock[i.pipe] + 1
         /\ g \notin Targets(i) /\ g \notin Sources(i) => gran'[g] = gran[g]
<1> DEFINE t == clock[i.pipe] + 1
           s0 == Granules(i.src0)
           s1 == Granules(i.src1)
           d == Granules(i.dst)
<1>1. gran' = RecordWrite(AfterSrc1(i.pipe, s0, s1), i.pipe, d, t)
  BY DEF MovesData, Instruction
<1>2. Sources(i) = s0 \cup s1 /\ Targets(i) = d
  BY DEF MovesData, Sources, Targets
<1>3. gran[g] \in GranuleInfo
  BY DEF CoreTypeOK
<1> HIDE DEF t, s0, s1, d
<1>4. PICK r \in GranuleInfo : r = gran[g]
  BY <1>3
<1>5. AfterSrc1(i.pipe, s0, s1)[g] =
        IF g \in s0 \cup s1 THEN [r EXCEPT !.reader = i.pipe, !.readClock = t] ELSE r
  BY <1>4 DEF AfterSrc1, AfterSrc0, RecordRead, GranuleInfo, t
<1>6. gran'[g] = IF g \in d
                   THEN [writer |-> i.pipe, clock |-> t, reader |-> NoPipe, readClock |-> 0]
                   ELSE AfterSrc1(i.pipe, s0, s1)[g]
  BY <1>1 DEF RecordWrite
<1> QED
  BY <1>2, <1>4, <1>5, <1>6 DEF GranuleInfo, t

LEMMA GranulesSeenAfterIssue ==
  ASSUME PipesOK, GranulesSeen, NEW i \in Instrs, Placed(i), Effect(i)
  PROVE  GranulesSeen'
<1>1. CoreTypeOK /\ checkMode = "Report" /\ clock \in [Pipe -> Nat] /\ i.pipe \in Pipe
  BY InstrKinds DEF PipesOK, RunOK, BaseOK, ProgressOK, CoreTypeOK
<1>2. CASE SetsFlag(i) \/ WaitsForFlag(i)
  BY <1>2 DEF SetsFlag, WaitsForFlag, GranulesSeen
<1>3. CASE MovesData(i)
  <2>1. /\ clock'[i.pipe] = clock[i.pipe] + 1
        /\ \A q \in Pipe : clock'[q] \in Nat /\ clock[q] \in Nat /\ clock[q] <= clock'[q]
    BY <1>1, <1>3 DEF MovesData, Instruction
  <2> SUFFICES ASSUME NEW g \in Granule
               PROVE  /\ gran'[g].writer # NoPipe => gran'[g].clock <= clock'[gran'[g].writer]
                      /\ gran'[g].reader # NoPipe => gran'[g].readClock <= clock'[gran'[g].reader]
    BY DEF GranulesSeen
  <2>2. /\ gran[g].writer # NoPipe => gran[g].writer \in Pipe /\ gran[g].clock <= clock[gran[g].writer]
        /\ gran[g].reader # NoPipe =>
             gran[g].reader \in Pipe /\ gran[g].readClock <= clock[gran[g].reader]
        /\ gran[g].clock \in Nat /\ gran[g].readClock \in Nat
    BY <1>1 DEF CoreTypeOK, GranuleInfo, GranulesSeen
  <2>3. /\ gran[g].writer # NoPipe => gran[g].clock <= clock'[gran[g].writer]
        /\ gran[g].reader # NoPipe => gran[g].readClock <= clock'[gran[g].reader]
    BY <2>1, <2>2
  <2> QED
    BY <1>1, <1>3, <2>1, <2>3, GranulesAfterData
<1> QED
  BY <1>2, <1>3 DEF Effect

-----------------------------------------------------------------------------
(* The raises of a flag, and the waits for it, one by one.                 *)

SetOf(x, e, id)  == x.instr.op = "SetFlag" /\ x.instr.evt = e /\ x.instr.id = id
WaitOf(x, e, id) == x.instr.op = "WaitFlag" /\ x.instr.evt = e /\ x.instr.id = id

\* The operations of a flag that are pending.
Sets(e, id)  == {x \in Entries(EventSrcPipe[e]) : SetOf(x, e, id)}
Waits(e, id) == {x \in Entries(EventDstPipe[e]) : WaitOf(x, e, id)}

\* The waits issued for a flag.
Waited(e, id) == IF flags[e][id].pending THEN turns[e][id].issued - 1 ELSE turns[e][id].issued

InTurn(S) == \A x, y \in S : Before(x, y) => x.note.turn < y.note.turn

\* r: how often the register is raised; t: the turns; w: the waits issued;
\* S, W: the raises and waits pending.
TurnsHold(r, t, w, S, W) ==
  /\ r + t.awaited <= t.done /\ t.done <= t.issued /\ t.awaited <= w
  /\ InTurn(S) /\ \A x \in S : t.done < x.note.turn /\ x.note.turn <= t.issued
  /\ InTurn(W) /\ \A x \in W : t.awaited < x.note.turn /\ x.note.turn <= w
  /\ \A x \in W : \/ x.note.turn = t.awaited + 1
                  \/ \E y \in W : Before(y, x) /\ y.note.turn + 1 = x.note.turn
  /\ w = t.awaited \/ \E y \in W : y.note.turn = w

TurnsOK ==
  \A e \in Event, id \in EventId :
    TurnsHold(reg[e][id], turns[e][id], Waited(e, id), Sets(e, id), Waits(e, id))

LEMMA TurnAfterSet ==
  ASSUME NEW r \in Nat, NEW t \in Turns, NEW u \in Turns, NEW S, NEW W,
         TurnsHold(r, t, t.issued, S, W),
         u.issued = t.issued + 1, u.done = t.done, u.awaited = t.awaited,
         NEW e, e.note.turn = u.issued, \A x \in S : ~ Before(e, x), ~ Before(e, e),
         \A x \in S : x.note.turn \in Nat
  PROVE  TurnsHold(r, u, t.issued, S \cup {e}, W)
<1>1. t.issued \in Nat /\ t.done \in Nat /\ t.awaited \in Nat
  BY DEF Turns
<1>2. PICK i \in Nat, d \in Nat, a \in Nat : i = t.issued /\ d = t.done /\ a = t.awaited
  BY <1>1
<1>3. u.issued = i + 1 /\ u.done = d /\ u.awaited = a /\ e.note.turn = i + 1
  BY <1>2
<1>4. \A x \in S : d < x.note.turn /\ x.note.turn <= i + 1 /\ x.note.turn < i + 1
  BY <1>2 DEF TurnsHold
<1>5. d < i + 1 /\ d <= i + 1 /\ r + a <= d
  BY <1>2 DEF TurnsHold
<1>6. InTurn(S \cup {e})
  BY <1>3, <1>4 DEF TurnsHold, InTurn
<1>7. \A x \in S \cup {e} : u.done < x.note.turn /\ x.note.turn <= u.issued
  BY <1>3, <1>4, <1>5
<1>8. /\ r + u.awaited <= u.done /\ u.done <= u.issued /\ u.awaited <= t.issued
      /\ InTurn(W)
      /\ \A x \in W : u.awaited < x.note.turn /\ x.note.turn <= t.issued
      /\ \A x \in W : \/ x.note.turn = u.awaited + 1
                      \/ \E y \in W : Before(y, x) /\ y.note.turn + 1 = x.note.turn
      /\ t.issued = u.awaited \/ \E y \in W : y.note.turn = t.issued
  BY <1>2, <1>3, <1>5 DEF TurnsHold
<1> QED
  BY <1>6, <1>7, <1>8 DEF TurnsHold

LEMMA TurnAfterWait ==
  ASSUME NEW r \in Nat, NEW t \in Turns, NEW S, NEW W,
         TurnsHold(r, t, t.issued - 1, S, W),
         NEW e, e.note.turn = t.issued, ~ Before(e, e),
         \A x \in W : Before(x, e) /\ ~ Before(e, x) /\ x.note.turn \in Nat
  PROVE  TurnsHold(r, t, t.issued, S, W \cup {e})
<1>1. t.issued \in Nat /\ t.done \in Nat /\ t.awaited \in Nat
  BY DEF Turns
<1>2. PICK i \in Nat, a \in Nat : i = t.issued /\ a = t.awaited
  BY <1>1
<1>3. a <= i - 1 /\ \A x \in W : a < x.note.turn /\ x.note.turn <= i - 1
  BY <1>2 DEF TurnsHold
<1>4. a <= i /\ a < i /\ \A x \in W : x.note.turn <= i /\ x.note.turn < i
  BY <1>3
<1>5. InTurn(W \cup {e})
  BY <1>2, <1>4 DEF TurnsHold, InTurn
<1>6. \A x \in W \cup {e} : a < x.note.turn /\ x.note.turn <= i
  BY <1>2, <1>3, <1>4
<1>7. i = a + 1 \/ \E y \in W : y.note.turn + 1 = i
  <2>1. i - 1 = a \/ \E y \in W : y.note.turn = i - 1
    BY <1>2 DEF TurnsHold
  <2> QED
    BY <2>1
<1>8. \A x \in W \cup {e} : \/ x.note.turn = a + 1
                            \/ \E y \in W \cup {e} : Before(y, x) /\ y.note.turn + 1 = x.note.turn
  <2>1. ASSUME NEW x \in W
        PROVE  \/ x.note.turn = a + 1
               \/ \E y \in W : Before(y, x) /\ y.note.turn + 1 = x.note.turn
    BY <1>2 DEF TurnsHold
  <2>2. \/ e.note.turn = a + 1
        \/ \E y \in W : Before(y, e) /\ y.note.turn + 1 = e.note.turn
    BY <1>2, <1>7
  <2> QED
    BY <2>1, <2>2
<1>9. \E y \in W \cup {e} : y.note.turn = i
  BY <1>2
<1>10. r + t.awaited <= t.done /\ t.done <= t.issued /\ InTurn(S)
       /\ \A x \in S : t.done < x.note.turn /\ x.note.turn <= t.issued
  BY DEF TurnsHold
<1> QED
  BY <1>2, <1>4, <1>5, <1>6, <1>8, <1>9, <1>10 DEF TurnsHold

LEMMA TurnAfterRaise ==
  ASSUME NEW r \in Nat, NEW n \in Nat, n <= r + 1, NEW t \in Turns, NEW u \in Turns, NEW w, NEW S, NEW W,
         TurnsHold(r, t, w, S, W),
         NEW h \in S, \A x \in S : (x = h \/ Before(h, x)) /\ x.note.turn \in Nat,
         u.issued = t.issued, u.done = h.note.turn, u.awaited = t.awaited
  PROVE  TurnsHold(n, u, w, S \ {h}, W)
<1>1. t.issued \in Nat /\ t.done \in Nat /\ t.awaited \in Nat /\ h.note.turn \in Nat
  BY DEF Turns
<1>2. PICK i \in Nat, d \in Nat, a \in Nat, k \in Nat :
        i = t.issued /\ d = t.done /\ a = t.awaited /\ k = h.note.turn
  BY <1>1
<1>3. u.issued = i /\ u.done = k /\ u.awaited = a
  BY <1>2
<1>4. r + a <= d /\ d < k /\ k <= i
  BY <1>2 DEF TurnsHold
<1>5. n + a <= k
  BY <1>4
<1>6. \A x \in S \ {h} : k < x.note.turn /\ x.note.turn <= i
  BY <1>2 DEF TurnsHold, InTurn
<1>7. InTurn(S \ {h}) /\ InTurn(W)
  BY DEF TurnsHold, InTurn
<1>8. /\ a <= w
      /\ \A x \in W : a < x.note.turn /\ x.note.turn <= w
      /\ \A x \in W : \/ x.note.turn = a + 1
                      \/ \E y \in W : Before(y, x) /\ y.note.turn + 1 = x.note.turn
      /\ w = a \/ \E y \in W : y.note.turn = w
  BY <1>2 DEF TurnsHold
<1> QED
  BY <1>3, <1>4, <1>5, <1>6, <1>7, <1>8 DEF TurnsHold

\* The first wait awaits the next raise, which has been done.
LEMMA FirstWait ==
  ASSUME NEW r \in Nat, r > 0, NEW t \in Turns, NEW w, NEW S, NEW W, TurnsHold(r, t, w, S, W),
         NEW h \in W, \A x \in W : ~ Before(x, h)
  PROVE  h.note.turn = t.awaited + 1 /\ h.note.turn <= t.done
<1>1. t.done \in Nat /\ t.awaited \in Nat
  BY DEF Turns
<1>2. h.note.turn = t.awaited + 1 /\ r + t.awaited <= t.done
  BY DEF TurnsHold
<1> QED
  BY <1>1, <1>2

LEMMA TurnAfterAwait ==
  ASSUME NEW r \in Nat, r > 0, NEW t \in Turns, NEW u \in Turns, NEW w \in Int, NEW S, NEW W,
         TurnsHold(r, t, w, S, W),
         NEW h \in W, \A x \in W : (x = h \/ Before(h, x)) /\ ~ Before(x, h) /\ x.note.turn \in Nat,
         u.issued = t.issued, u.done = t.done, u.awaited = h.note.turn
  PROVE  TurnsHold(r - 1, u, w, S, W \ {h})
<1>1. t.issued \in Nat /\ t.done \in Nat /\ t.awaited \in Nat /\ h.note.turn \in Nat
  BY DEF Turns
<1>2. PICK a \in Nat, k \in Nat : a = t.awaited /\ k = h.note.turn
  BY <1>1
<1>3. k = a + 1
  BY <1>2, FirstWait
<1>4. (r - 1) + k <= t.done /\ k <= w
  BY <1>1, <1>2, <1>3 DEF TurnsHold
<1>5. \A x \in W \ {h} : k < x.note.turn /\ x.note.turn <= w
  BY <1>2 DEF TurnsHold, InTurn
<1>6. InTurn(S) /\ InTurn(W \ {h})
  BY DEF TurnsHold, InTurn
<1>7. ASSUME NEW x \in W \ {h}
      PROVE  \/ x.note.turn = k + 1
             \/ \E y \in W \ {h} : Before(y, x) /\ y.note.turn + 1 = x.note.turn
  <2>1. x.note.turn # a + 1
    BY <1>3, <1>5
  <2>2. PICK y \in W : Before(y, x) /\ y.note.turn + 1 = x.note.turn
    BY <1>2, <2>1 DEF TurnsHold
  <2> QED
    BY <1>2, <2>2
<1>8. w = k \/ \E y \in W \ {h} : y.note.turn = w
  <2>1. w # a
    BY <1>3, <1>4
  <2>2. PICK y \in W : y.note.turn = w
    BY <1>2, <2>1 DEF TurnsHold
  <2> QED
    BY <1>2, <2>2
<1>9. t.done <= t.issued /\ \A x \in S : t.done < x.note.turn /\ x.note.turn <= t.issued
  BY DEF TurnsHold
<1> QED
  BY <1>2, <1>4, <1>5, <1>6, <1>7, <1>8, <1>9 DEF TurnsHold

LEMMA SetsAfterIssue ==
  ASSUME PipesOK, CoreTypeOK', HistoryOK, NEW i \in Instrs, Placed(i), Issues(i),
         NEW n, n = Entry(i, Note(i, i.pipe)), NEW e \in Event, NEW id \in EventId
  PROVE  /\ SetOf(n, e, id) => Sets(e, id)' = Sets(e, id) \cup {n} /\ i.pipe = EventSrcPipe[e]
         /\ ~ SetOf(n, e, id) => Sets(e, id)' = Sets(e, id)
         /\ WaitOf(n, e, id) => Waits(e, id)' = Waits(e, id) \cup {n} /\ i.pipe = EventDstPipe[e]
         /\ ~ WaitOf(n, e, id) => Waits(e, id)' = Waits(e, id)
<1>1. /\ Entries(i.pipe)' = Entries(i.pipe) \cup {n}
      /\ \A q \in Pipe \ {i.pipe} : Entries(q)' = Entries(q)
      /\ n.instr = i
  BY EntriesAfterIssue
<1>2. EventSrcPipe[e] \in Pipe /\ EventDstPipe[e] \in Pipe
  BY SyncCoreAssumption
<1>3. /\ SetOf(n, e, id) => i.pipe = EventSrcPipe[e]
      /\ WaitOf(n, e, id) => i.pipe = EventDstPipe[e]
  BY <1>1 DEF SetOf, WaitOf, Placed
<1>4. /\ Sets(e, id)' = {x \in Entries(EventSrcPipe[e])' : SetOf(x, e, id)}
      /\ Waits(e, id)' = {x \in Entries(EventDstPipe[e])' : WaitOf(x, e, id)}
  BY DEF Sets, Waits, SetOf, WaitOf
<1>5. Sets(e, id)' = {x \in Entries(EventSrcPipe[e]) : SetOf(x, e, id)}
                       \cup {x \in {n} : SetOf(n, e, id)}
  BY <1>1, <1>2, <1>3, <1>4
<1>6. Waits(e, id)' = {x \in Entries(EventDstPipe[e]) : WaitOf(x, e, id)}
                        \cup {x \in {n} : WaitOf(n, e, id)}
  BY <1>1, <1>2, <1>3, <1>4
<1> QED
  BY <1>3, <1>5, <1>6 DEF Sets, Waits

LEMMA SetsAfterPass ==
  ASSUME FifoOK, HistoryOK, NEW p \in Pipe, Passes(p), NEW h, h = FirstEntry(p),
         NEW e \in Event, NEW id \in EventId
  PROVE  /\ Sets(e, id)' = Sets(e, id) \ {h}
         /\ Waits(e, id)' = Waits(e, id) \ {h}
         /\ SetOf(h, e, id) => h \in Sets(e, id) /\ p = EventSrcPipe[e]
         /\ WaitOf(h, e, id) => h \in Waits(e, id) /\ p = EventDstPipe[e]
<1>1. /\ Entries(p)' = Entries(p) \ {h}
      /\ \A q \in Pipe \ {p} : Entries(q)' = Entries(q)
      /\ h \in Entries(p)
  BY EntriesAfterPass
<1>2. EventSrcPipe[e] \in Pipe /\ EventDstPipe[e] \in Pipe
  BY SyncCoreAssumption
<1>3. h.instr.pipe = p /\ Placed(h.instr)
  BY <1>1, EntryTyped
<1>4. /\ SetOf(h, e, id) => p = EventSrcPipe[e]
      /\ WaitOf(h, e, id) => p = EventDstPipe[e]
  BY <1>3 DEF SetOf, WaitOf, Placed
<1>5. /\ Sets(e, id)' = {x \in Entries(EventSrcPipe[e])' : SetOf(x, e, id)}
      /\ Waits(e, id)' = {x \in Entries(EventDstPipe[e])' : WaitOf(x, e, id)}
  BY DEF Sets, Waits, SetOf, WaitOf
<1>6. Sets(e, id)' = Sets(e, id) \ {h}
  BY <1>1, <1>2, <1>4, <1>5 DEF Sets
<1>7. Waits(e, id)' = Waits(e, id) \ {h}
  BY <1>1, <1>2, <1>4, <1>5 DEF Waits
<1> QED
  BY <1>1, <1>4, <1>6, <1>7 DEF Sets, Waits

LEMMA FlagEntriesTyped ==
  ASSUME FifoOK, HistoryOK, NEW e \in Event, NEW id \in EventId
  PROVE  /\ \A x \in Sets(e, id) : x \in Entries(EventSrcPipe[e]) /\ x.note.turn \in Nat
         /\ \A x \in Waits(e, id) : x \in Entries(EventDstPipe[e]) /\ x.note.turn \in Nat
         /\ EventSrcPipe[e] \in Pipe /\ EventDstPipe[e] \in Pipe
         /\ turns[e][id] \in Turns
<1>1. EventSrcPipe[e] \in Pipe /\ EventDstPipe[e] \in Pipe
  BY SyncCoreAssumption
<1>2. turns[e][id] \in Turns
  BY DEF HistoryOK, HistoryTyped
<1> QED
  BY <1>1, <1>2, EntryTyped DEF Sets, Waits

LEMMA NoteTurn ==
  ASSUME NEW i, NEW e, e = Entry(i, Note(i, i.pipe))
  PROVE  /\ i.op = "SetFlag" => e.note.turn = turns[i.evt][i.id].issued + 1
         /\ i.op = "WaitFlag" => e.note.turn = turns[i.evt][i.id].issued
  BY DEF Entry, Note

LEMMA TurnsAfterIssue ==
  ASSUME PipesOK, CoreTypeOK', HistoryOK, RowsSeen, TurnsOK, UNCHANGED reg,
         NEW i \in Instrs, Placed(i), Issues(i), Effect(i)
  PROVE  TurnsOK'
<1>1. PICK n : n = Entry(i, Note(i, i.pipe))
  OBVIOUS
<1>2. CoreTypeOK /\ FifoOK
  BY DEF PipesOK, RunOK, BaseOK
<1>3. /\ i.pipe \in Pipe /\ n.instr = i /\ ~ Before(n, n)
      /\ \A q \in Pipe : \A x \in Entries(q) : Before(x, n) /\ ~ Before(n, x)
  BY <1>1, EntriesAfterIssue
<1>4. turns' = IF i.op = "SetFlag" THEN [turns EXCEPT ![i.evt][i.id].issued = @ + 1] ELSE turns
  BY DEF Issues, Execute
<1>5. turns \in [Event -> [EventId -> Turns]]
  BY DEF HistoryOK, HistoryTyped
<1> SUFFICES ASSUME NEW e \in Event, NEW id \in EventId
             PROVE  TurnsHold(reg[e][id], turns'[e][id], Waited(e, id)', Sets(e, id)', Waits(e, id)')
  BY DEF TurnsOK, TurnsHold, InTurn, Before
<1>6. /\ SetOf(n, e, id) => Sets(e, id)' = Sets(e, id) \cup {n}
      /\ ~ SetOf(n, e, id) => Sets(e, id)' = Sets(e, id)
      /\ WaitOf(n, e, id) => Waits(e, id)' = Waits(e, id) \cup {n}
      /\ ~ WaitOf(n, e, id) => Waits(e, id)' = Waits(e, id)
  BY <1>1, SetsAfterIssue
<1>7. /\ \A x \in Sets(e, id) : x \in Entries(EventSrcPipe[e]) /\ x.note.turn \in Nat
      /\ \A x \in Waits(e, id) : x \in Entries(EventDstPipe[e]) /\ x.note.turn \in Nat
      /\ EventSrcPipe[e] \in Pipe /\ EventDstPipe[e] \in Pipe
  BY <1>2, FlagEntriesTyped
<1>8. PICK t \in Turns : t = turns[e][id]
  BY <1>5
<1>9. PICK r \in Nat : r = reg[e][id]
  BY ConcurrentPipesAssumption DEF PipesOK, DataOK
<1>10. PICK S, W : S = Sets(e, id) /\ W = Waits(e, id)
  OBVIOUS
<1>11. TurnsHold(r, t, Waited(e, id), S, W)
  BY <1>8, <1>9, <1>10 DEF TurnsOK
<1>12. Waited(e, id)' = IF flags'[e][id].pending THEN turns'[e][id].issued - 1
                                                 ELSE turns'[e][id].issued
  BY DEF Waited
<1>13. CASE SetOf(n, e, id)
  <2>1. i.op = "SetFlag" /\ i.evt = e /\ i.id = id /\ ~ WaitOf(n, e, id)
    BY <1>3, <1>13 DEF SetOf, WaitOf
  <2>2. SetsFlag(i) /\ ~ flags[e][id].pending
    BY <2>1 DEF Effect, SetsFlag, WaitsForFlag, MovesData, IsFlagOp
  <2>3. flags'[e][id].pending
    BY <1>2, <2>1, <2>2, RowsAfterSet
  <2>4. PICK u \in Turns : u = [t EXCEPT !.issued = @ + 1]
    <3>1. [t EXCEPT !.issued = @ + 1] \in Turns
      BY DEF Turns
    <3> QED
      BY <3>1
  <2>5. turns'[e][id] = u
    BY <1>4, <1>5, <1>8, <2>1, <2>4
  <2>6. u.issued = t.issued + 1 /\ u.done = t.done /\ u.awaited = t.awaited /\ t.issued \in Nat
    BY <2>4 DEF Turns
  <2>7. Waited(e, id) = t.issued /\ Waited(e, id)' = t.issued
    <3>1. Waited(e, id) = t.issued
      BY <1>8, <2>2 DEF Waited
    <3>2. Waited(e, id)' = (t.issued + 1) - 1
      BY <1>12, <2>3, <2>5, <2>6
    <3> QED
      BY <2>6, <3>1, <3>2
  <2>8. n.note.turn = u.issued
    BY <1>1, <1>8, <2>1, <2>6, NoteTurn
  <2>9. TurnsHold(r, u, t.issued, S \cup {n}, W)
    BY <1>3, <1>7, <1>10, <1>11, <2>6, <2>7, <2>8, TurnAfterSet
  <2> QED
    BY <1>6, <1>9, <1>10, <1>13, <2>1, <2>5, <2>7, <2>9
<1>14. CASE WaitOf(n, e, id)
  <2>1. i.op = "WaitFlag" /\ i.evt = e /\ i.id = id /\ ~ SetOf(n, e, id)
    BY <1>3, <1>14 DEF SetOf, WaitOf
  <2>2. WaitsForFlag(i) /\ flags[e][id].pending
    BY <2>1 DEF Effect, SetsFlag, WaitsForFlag, MovesData, IsFlagOp
  <2>3. ~ flags'[e][id].pending
    <3>1. PICK s, M : s = flags[i.evt][i.id].snapshot /\ M = Snapshot(i.pipe)'
      OBVIOUS
    <3> QED
      BY <1>2, <2>1, <2>2, <3>1, RowsAfterWait
  <2>4. turns'[e][id] = t
    BY <1>4, <1>8, <2>1
  <2>5. Waited(e, id) = t.issued - 1 /\ Waited(e, id)' = t.issued
    BY <1>8, <1>12, <2>2, <2>3, <2>4 DEF Waited
  <2>6. n.note.turn = t.issued
    BY <1>1, <1>8, <2>1, NoteTurn
  <2>7. TurnsHold(r, t, t.issued, S, W \cup {n})
    BY <1>3, <1>7, <1>10, <1>11, <2>5, <2>6, TurnAfterWait
  <2> QED
    BY <1>6, <1>9, <1>10, <1>14, <2>1, <2>4, <2>5, <2>7
<1>15. CASE ~ SetOf(n, e, id) /\ ~ WaitOf(n, e, id)
  <2>1. turns'[e][id] = t
    <3>1. i.op = "SetFlag" => ~ (i.evt = e /\ i.id = id)
      BY <1>3, <1>15 DEF SetOf
    <3>2. i.op = "SetFlag" => i.evt \in Event /\ i.id \in EventId
      BY InstrKinds DEF IsFlagOp, FlagInstrs
    <3> QED
      BY <1>4, <1>5, <1>8, <3>1, <3>2
  <2>2. flags'[e][id] = flags[e][id]
    <3>1. CASE SetsFlag(i)
      <4>1. ~ (e = i.evt /\ id = i.id)
        BY <1>3, <1>15, <3>1 DEF SetsFlag, SetOf
      <4> QED
        BY <1>2, <3>1, <4>1, RowsAfterSet
    <3>2. CASE WaitsForFlag(i)
      <4>1. ~ (e = i.evt /\ id = i.id)
        BY <1>3, <1>15, <3>2 DEF WaitsForFlag, WaitOf
      <4>2. PICK s, M : s = flags[i.evt][i.id].snapshot /\ M = Snapshot(i.pipe)'
        OBVIOUS
      <4> QED
        BY <1>2, <3>2, <4>1, <4>2, RowsAfterWait
    <3>3. CASE MovesData(i)
      BY <3>3 DEF MovesData, Instruction
    <3> QED
      BY <3>1, <3>2, <3>3 DEF Effect
  <2>3. Waited(e, id)' = Waited(e, id)
    BY <1>8, <2>1, <2>2 DEF Waited
  <2> QED
    BY <1>6, <1>8, <1>9, <1>10, <1>11, <1>15, <2>1, <2>3
<1> QED
  BY <1>13, <1>14, <1>15

LEMMA TurnsAfterComplete ==
  ASSUME PipesOK, HistoryOK, TurnsOK, NEW p \in Pipe, CompleteChecked(p)
  PROVE  TurnsOK'
<1>1. PICK h : h = FirstEntry(p)
  OBVIOUS
<1>2. Passes(p) /\ UNCHANGED <<turns, reg, flags>> /\ ~ IsFlagOp(First(p))
  BY PassCases DEF CompleteChecked, Complete, PipesOK, FlightOK, Passes, coreVars
<1>3. h.instr = First(p)
  BY <1>1, <1>2, EntriesAfterPass DEF PipesOK
<1> SUFFICES ASSUME NEW e \in Event, NEW id \in EventId
             PROVE  TurnsHold(reg[e][id], turns[e][id], Waited(e, id), Sets(e, id)', Waits(e, id)')
  BY <1>2 DEF TurnsOK, TurnsHold, InTurn, Before, Waited
<1>4. Sets(e, id)' = Sets(e, id) \ {h} /\ Waits(e, id)' = Waits(e, id) \ {h}
  BY <1>1, <1>2, SetsAfterPass DEF PipesOK
<1>5. h \notin Sets(e, id) /\ h \notin Waits(e, id)
  BY <1>2, <1>3 DEF Sets, Waits, SetOf, WaitOf, IsFlagOp
<1>6. Sets(e, id)' = Sets(e, id) /\ Waits(e, id)' = Waits(e, id)
  BY <1>4, <1>5
<1> QED
  BY <1>6 DEF TurnsOK

LEMMA TurnsAfterFlagOp ==
  ASSUME PipesOK, HistoryOK, TurnsOK, NEW p \in Pipe, RaiseChecked(p) \/ AwaitChecked(p)
  PROVE  TurnsOK'
<1>1. PICK h, i : h = FirstEntry(p) /\ i = First(p)
  OBVIOUS
<1>2. Passes(p) /\ UNCHANGED flags /\ Busy(p) /\ IsFlagOp(i) /\ FifoOK
  BY <1>1, PassCases DEF RaiseChecked, AwaitChecked, Raise, Await, Passes, coreVars, IsFlagOp, PipesOK
<1>3. /\ h.instr = i /\ h.note = Head(notes[p])
      /\ \A x \in Entries(p) : ~ Before(x, h) /\ (x = h \/ Before(h, x))
  BY <1>1, <1>2, EntriesAfterPass DEF PipesOK
<1>4. i.evt \in Event /\ i.id \in EventId
  BY <1>1, <1>2, FirstFlag
<1>5. turns \in [Event -> [EventId -> Turns]] /\ reg \in [Event -> [EventId -> 0 .. FLAG_MAX]]
  BY DEF HistoryOK, HistoryTyped, PipesOK, DataOK
<1>6. FLAG_MAX \in Nat
  BY ConcurrentPipesAssumption
<1> SUFFICES ASSUME NEW e \in Event, NEW id \in EventId
             PROVE  TurnsHold(reg'[e][id], turns'[e][id], Waited(e, id)', Sets(e, id)', Waits(e, id)')
  BY DEF TurnsOK, TurnsHold, InTurn, Before
<1>7. /\ Sets(e, id)' = Sets(e, id) \ {h}
      /\ Waits(e, id)' = Waits(e, id) \ {h}
      /\ SetOf(h, e, id) => h \in Sets(e, id) /\ p = EventSrcPipe[e]
      /\ WaitOf(h, e, id) => h \in Waits(e, id) /\ p = EventDstPipe[e]
  BY <1>1, <1>2, SetsAfterPass
<1>8. /\ \A x \in Sets(e, id) : x \in Entries(EventSrcPipe[e]) /\ x.note.turn \in Nat
      /\ \A x \in Waits(e, id) : x \in Entries(EventDstPipe[e]) /\ x.note.turn \in Nat
  BY <1>2, FlagEntriesTyped
<1>9. PICK t \in Turns, r \in Nat : t = turns[e][id] /\ r = reg[e][id]
  BY <1>5, <1>6
<1>10. PICK S, W : S = Sets(e, id) /\ W = Waits(e, id)
  OBVIOUS
<1>11. PICK w \in Int : w = Waited(e, id)
  BY <1>9 DEF Waited, Turns
<1>12. TurnsHold(r, t, w, S, W)
  BY <1>9, <1>10, <1>11 DEF TurnsOK
<1>13. \/ /\ i.op = "SetFlag"
          /\ turns' = [turns EXCEPT ![i.evt][i.id].done = Head(notes[p]).turn]
          /\ reg' = [reg EXCEPT ![i.evt][i.id] = Min({@ + 1, FLAG_MAX})]
       \/ /\ i.op = "WaitFlag"
          /\ turns' = [turns EXCEPT ![i.evt][i.id].awaited = Head(notes[p]).turn]
          /\ reg' = [reg EXCEPT ![i.evt][i.id] = @ - 1]
  BY <1>1 DEF RaiseChecked, AwaitChecked, Raise, Await
<1>20. turns'[e][id].issued = t.issued
  <2>1. ASSUME NEW v, turns' = [turns EXCEPT ![i.evt][i.id].done = v]
        PROVE  turns'[e][id].issued = t.issued
    BY <1>5, <1>9, <2>1 DEF Turns
  <2>2. ASSUME NEW v, turns' = [turns EXCEPT ![i.evt][i.id].awaited = v]
        PROVE  turns'[e][id].issued = t.issued
    BY <1>5, <1>9, <2>2 DEF Turns
  <2> QED
    BY <1>13, <2>1, <2>2
<1>14. Waited(e, id)' = w
  BY <1>2, <1>9, <1>11, <1>20 DEF Waited
<1>15. h \in S => SetOf(h, e, id)
  BY <1>10 DEF Sets
<1>16. h \in W => WaitOf(h, e, id)
  BY <1>10 DEF Waits
<1>17. CASE SetOf(h, e, id)
  <2>1. i.op = "SetFlag" /\ i.evt = e /\ i.id = id /\ h \notin W
    BY <1>3, <1>16, <1>17 DEF SetOf, WaitOf
  <2>2. /\ reg' = [reg EXCEPT ![i.evt][i.id] = Min({@ + 1, FLAG_MAX})]
        /\ turns' = [turns EXCEPT ![i.evt][i.id].done = Head(notes[p]).turn]
    BY <1>1, <2>1 DEF RaiseChecked, AwaitChecked, Raise, Await
  <2>3. PICK u \in Turns : u = [t EXCEPT !.done = h.note.turn]
    <3>1. h.note.turn \in Nat
      BY <1>7, <1>8, <1>17
    <3>2. [t EXCEPT !.done = h.note.turn] \in Turns
      BY <3>1 DEF Turns
    <3> QED
      BY <3>2
  <2>4. turns'[e][id] = u
    BY <1>3, <1>5, <1>9, <2>1, <2>2, <2>3
  <2>5. u.issued = t.issued /\ u.done = h.note.turn /\ u.awaited = t.awaited
    BY <2>3 DEF Turns
  <2>6. PICK n \in Nat : n = reg'[e][id] /\ n <= r + 1
    <3>1. {r + 1, FLAG_MAX} \in SUBSET Nat
      BY <1>6
    <3>2. Min({r + 1, FLAG_MAX}) \in {r + 1, FLAG_MAX} /\ Min({r + 1, FLAG_MAX}) <= r + 1
      BY <3>1, MinIsLeast
    <3>3. Min({r + 1, FLAG_MAX}) \in Nat
      BY <3>1, <3>2
    <3>4. reg'[e][id] = Min({r + 1, FLAG_MAX})
      BY <1>5, <1>9, <2>1, <2>2
    <3> QED
      BY <3>2, <3>3, <3>4
  <2>7. TurnsHold(n, u, w, S \ {h}, W)
    <3>1. h \in S /\ \A x \in S : (x = h \/ Before(h, x)) /\ x.note.turn \in Nat
      BY <1>3, <1>7, <1>8, <1>10, <1>17
    <3> QED
      BY <1>12, <2>5, <2>6, <3>1, TurnAfterRaise
  <2>8. W \ {h} = W
    BY <2>1
  <2> QED
    BY <1>7, <1>10, <1>14, <2>4, <2>6, <2>7, <2>8
<1>18. CASE WaitOf(h, e, id)
  <2>1. i.op = "WaitFlag" /\ i.evt = e /\ i.id = id /\ h \notin S
    BY <1>3, <1>15, <1>18 DEF SetOf, WaitOf
  <2>2. /\ reg' = [reg EXCEPT ![i.evt][i.id] = @ - 1] /\ reg[i.evt][i.id] > 0
        /\ turns' = [turns EXCEPT ![i.evt][i.id].awaited = Head(notes[p]).turn]
    BY <1>1, <2>1 DEF RaiseChecked, AwaitChecked, Raise, Await
  <2>3. PICK u \in Turns : u = [t EXCEPT !.awaited = h.note.turn]
    <3>1. h.note.turn \in Nat
      BY <1>7, <1>8, <1>18
    <3>2. [t EXCEPT !.awaited = h.note.turn] \in Turns
      BY <3>1 DEF Turns
    <3> QED
      BY <3>2
  <2>4. turns'[e][id] = u
    BY <1>3, <1>5, <1>9, <2>1, <2>2, <2>3
  <2>5. u.issued = t.issued /\ u.done = t.done /\ u.awaited = h.note.turn
    BY <2>3 DEF Turns
  <2>6. reg'[e][id] = r - 1 /\ r > 0
    BY <1>5, <1>9, <2>1, <2>2
  <2>7. TurnsHold(r - 1, u, w, S, W \ {h})
    <3>1. h \in W /\ \A x \in W : (x = h \/ Before(h, x)) /\ ~ Before(x, h) /\ x.note.turn \in Nat
      BY <1>3, <1>7, <1>8, <1>10, <1>18
    <3> QED
      BY <1>12, <2>5, <2>6, <3>1, TurnAfterAwait
  <2>8. S \ {h} = S
    BY <2>1
  <2> QED
    BY <1>7, <1>10, <1>14, <2>4, <2>6, <2>7, <2>8
<1>19. CASE ~ SetOf(h, e, id) /\ ~ WaitOf(h, e, id)
  <2>1. i.op \in {"SetFlag", "WaitFlag"} /\ ~ (i.evt = e /\ i.id = id)
    BY <1>2, <1>3, <1>19 DEF SetOf, WaitOf, IsFlagOp
  <2>2. turns'[e][id] = turns[e][id] /\ reg'[e][id] = reg[e][id]
    <3>1. ASSUME NEW v, turns' = [turns EXCEPT ![i.evt][i.id].done = v]
          PROVE  turns'[e][id] = turns[e][id]
      BY <1>4, <1>5, <2>1, <3>1
    <3>2. ASSUME NEW v, turns' = [turns EXCEPT ![i.evt][i.id].awaited = v]
          PROVE  turns'[e][id] = turns[e][id]
      BY <1>4, <1>5, <2>1, <3>2
    <3>3. reg'[e][id] = reg[e][id]
      BY <1>4, <1>5, <1>13, <2>1
    <3> QED
      BY <1>13, <3>1, <3>2, <3>3
  <2>3. S \ {h} = S /\ W \ {h} = W
    BY <1>15, <1>16, <1>19
  <2> QED
    BY <1>7, <1>9, <1>10, <1>12, <1>14, <2>2, <2>3
<1> QED
  BY <1>17, <1>18, <1>19

-----------------------------------------------------------------------------
(* Where what a pipe publishes comes from.                                 *)

\* What the row of x says of pipe r is over, or an instruction before it on the
\* pipe says it, or x is the tick, or it comes with the flag that x waits for.
Backed(p, x, r) ==
  \/ x.note.row[r] <= over[r]
  \/ \E y \in Entries(p) : Before(y, x) /\ x.note.row[r] <= y.note.row[r]
  \/ IsData(x) /\ r = p
  \/ /\ x.instr.op = "WaitFlag"
     /\ \E y \in Sets(x.instr.evt, x.instr.id) :
          y.note.turn = x.note.turn /\ x.note.row[r] <= y.note.row[r]

Announced(p, r) ==
  Snapshot(p)[r] <= over[r] \/ \E y \in Entries(p) : Snapshot(p)[r] <= y.note.row[r]

Carried(e, id, r) ==
  flags[e][id].pending =>
    \/ flags[e][id].snapshot[r] <= over[r]
    \/ \E y \in Sets(e, id) : /\ y.note.turn = turns[e][id].issued
                              /\ flags[e][id].snapshot[r] <= y.note.row[r]

RowsBacked ==
  /\ \A p, r \in Pipe : Announced(p, r) /\ \A x \in Entries(p) : Backed(p, x, r)
  /\ \A e \in Event, id \in EventId, r \in Pipe : Carried(e, id, r)

\* Only a SetFlag that is issued counts as a raise.
LEMMA TurnsIssued ==
  ASSUME HistoryOK, NEW i \in Instrs, Placed(i), Issues(i), NEW e \in Event, NEW id \in EventId
  PROVE  /\ ~ (i.op = "SetFlag" /\ i.evt = e /\ i.id = id) => turns'[e][id] = turns[e][id]
         /\ i.op = "SetFlag" /\ i.evt = e /\ i.id = id =>
              turns'[e][id].issued = turns[e][id].issued + 1
<1>1. turns \in [Event -> [EventId -> Turns]]
  BY DEF HistoryOK, HistoryTyped
<1>2. turns' = IF i.op = "SetFlag" THEN [turns EXCEPT ![i.evt][i.id].issued = @ + 1] ELSE turns
  BY DEF Issues, Execute
<1>3. CASE i.op = "SetFlag" /\ i.evt = e /\ i.id = id
  BY <1>1, <1>2, <1>3 DEF Turns
<1>4. CASE ~ (i.op = "SetFlag" /\ i.evt = e /\ i.id = id)
  BY <1>1, <1>2, <1>4
<1> QED
  BY <1>3, <1>4

LEMMA TurnsIssuedStay ==
  ASSUME HistoryOK, NEW p \in Pipe, CompleteChecked(p) \/ RaiseChecked(p) \/ AwaitChecked(p),
         NEW e \in Event, NEW id \in EventId
  PROVE  turns'[e][id].issued = turns[e][id].issued
<1>1. turns \in [Event -> [EventId -> Turns]]
  BY DEF HistoryOK, HistoryTyped
<1>2. PICK i : i = First(p)
  OBVIOUS
<1>3. \/ turns' = turns
      \/ turns' = [turns EXCEPT ![i.evt][i.id].done = Head(notes[p]).turn]
      \/ turns' = [turns EXCEPT ![i.evt][i.id].awaited = Head(notes[p]).turn]
  BY <1>2 DEF CompleteChecked, RaiseChecked, AwaitChecked
<1>4. ASSUME NEW v, turns' = [turns EXCEPT ![i.evt][i.id].done = v]
      PROVE  turns'[e][id].issued = turns[e][id].issued
  BY <1>1, <1>4 DEF Turns
<1>5. ASSUME NEW v, turns' = [turns EXCEPT ![i.evt][i.id].awaited = v]
      PROVE  turns'[e][id].issued = turns[e][id].issued
  BY <1>1, <1>5 DEF Turns
<1> QED
  BY <1>3, <1>4, <1>5

LEMMA NoteBacked ==
  ASSUME PipesOK, CoreTypeOK', HistoryOK, RowsSeen, RowsBacked,
         NEW i \in Instrs, Placed(i), Issues(i), Effect(i),
         NEW e, e = Entry(i, Note(i, i.pipe)), NEW r \in Pipe
  PROVE  Backed(i.pipe, e, r)'
<1>1. PICK p : p = i.pipe
  OBVIOUS
<1>2. PICK M : M = Snapshot(i.pipe)'
  OBVIOUS
<1>3. CoreTypeOK
  BY DEF PipesOK, RunOK, ProgressOK, BaseOK, CoreTypeOK
<1>4. /\ p \in Pipe
      /\ Entries(p)' = Entries(p) \cup {e}
      /\ e.instr = i /\ e.note.row[r] = M[r]
      /\ \A x \in Entries(p) : Before(x, e)
  BY <1>1, <1>2, EntriesAfterIssue
<1>5. UNCHANGED over
  BY DEF Issues, Execute
<1>6. ASSUME M[r] = Snapshot(p)[r]
      PROVE  Backed(p, e, r)'
  <2>1. Announced(p, r)
    BY <1>4 DEF RowsBacked
  <2>2. CASE Snapshot(p)[r] <= over[r]
    BY <1>4, <1>5, <1>6, <2>2 DEF Backed
  <2>3. CASE \E y \in Entries(p) : Snapshot(p)[r] <= y.note.row[r]
    BY <1>4, <1>6, <2>3 DEF Backed, Before
  <2> QED
    BY <2>1, <2>2, <2>3 DEF Announced
<1>7. CASE SetsFlag(i)
  BY <1>1, <1>2, <1>3, <1>4, <1>6, <1>7, RowsAfterSet
<1>8. CASE WaitsForFlag(i)
  <2>1. PICK S : S = flags[i.evt][i.id].snapshot
    OBVIOUS
  <2>2. /\ i.evt \in Event /\ i.id \in EventId
        /\ M[r] = Snapshot(p)[r] \/ M[r] = S[r]
    BY <1>1, <1>2, <1>3, <1>8, <2>1, RowsAfterWait
  <2>3. CASE M[r] = S[r]
    <3>1. i.op = "WaitFlag" /\ flags[i.evt][i.id].pending
      BY <1>8 DEF WaitsForFlag
    <3>2. Carried(i.evt, i.id, r)
      BY <2>2 DEF RowsBacked
    <3>3. CASE S[r] <= over[r]
      BY <1>1, <1>4, <1>5, <2>3, <3>3 DEF Backed
    <3>4. CASE \E y \in Sets(i.evt, i.id) : y.note.turn = turns[i.evt][i.id].issued /\ S[r] <= y.note.row[r]
      <4>1. Sets(i.evt, i.id)' = Sets(i.evt, i.id)
        BY <1>4, <2>2, <3>1, SetsAfterIssue DEF SetOf
      <4>2. e.note.turn = turns[i.evt][i.id].issued
        BY <3>1, NoteTurn
      <4> QED
        BY <1>1, <1>4, <2>3, <3>1, <3>4, <4>1, <4>2 DEF Backed
    <3> QED
      BY <2>1, <3>1, <3>2, <3>3, <3>4 DEF Carried
  <2> QED
    BY <1>1, <1>6, <2>2, <2>3
<1>9. CASE MovesData(i)
  <2>1. CASE r = p
    BY <1>1, <1>4, <1>9, <2>1 DEF Backed, IsData, MovesData
  <2>2. CASE r # p
    BY <1>1, <1>2, <1>3, <1>6, <1>9, <2>2, RowsAfterData
  <2> QED
    BY <2>1, <2>2
<1> QED
  BY <1>7, <1>8, <1>9 DEF Effect

LEMMA RowsBackedAfterIssue ==
  ASSUME PipesOK, CoreTypeOK', HistoryOK, RowsSeen, RowsBacked,
         NEW i \in Instrs, Placed(i), Issues(i), Effect(i)
  PROVE  RowsBacked'
<1>1. PICK n : n = Entry(i, Note(i, i.pipe))
  OBVIOUS
<1>2. PICK M : M = Snapshot(i.pipe)'
  OBVIOUS
<1>3. CoreTypeOK
  BY DEF PipesOK, RunOK, ProgressOK, BaseOK, CoreTypeOK
<1>4. /\ i.pipe \in Pipe
      /\ Entries(i.pipe)' = Entries(i.pipe) \cup {n}
      /\ \A q \in Pipe \ {i.pipe} : Entries(q)' = Entries(q)
      /\ n.instr = i /\ \A r \in Pipe : n.note.row[r] = M[r]
  BY <1>1, <1>2, EntriesAfterIssue
<1>5. UNCHANGED over
  BY DEF Issues, Execute
<1>6. \A p \in Pipe \ {i.pipe} : Snapshot(p)' = Snapshot(p)
  BY <1>3, RowsAfterIssue
<1>7. ASSUME NEW e \in Event, NEW id \in EventId
      PROVE  Sets(e, id) \subseteq Sets(e, id)'
  BY <1>1, SetsAfterIssue
<1>8. ASSUME NEW p \in Pipe, NEW r \in Pipe, NEW x \in Entries(p)', x # n \/ p # i.pipe
      PROVE  Backed(p, x, r)'
  <2>1. x \in Entries(p) /\ Entries(p) \subseteq Entries(p)'
    BY <1>4, <1>8
  <2>2. Backed(p, x, r)
    BY <2>1 DEF RowsBacked
  <2>3. ASSUME x.instr.op = "WaitFlag"
        PROVE  x.instr.evt \in Event /\ x.instr.id \in EventId
    BY <2>1, <2>3, EntryTyped, InstrKinds DEF PipesOK, FlagInstrs, IsFlagOp
  <2> QED
    BY <1>5, <1>7, <2>1, <2>2, <2>3 DEF Backed, Before
<1>9. ASSUME NEW r \in Pipe
      PROVE  Backed(i.pipe, n, r)'
  BY <1>1, <1>9, NoteBacked, Zenon
<1>10. ASSUME NEW p \in Pipe, NEW r \in Pipe
       PROVE  Announced(p, r)'
  <2>1. CASE p = i.pipe
    <3>1. M[r] <= n.note.row[r]
      <4>1. n.note.row \in [Pipe -> Nat]
        BY <1>1, <1>2, EntriesAfterIssue DEF Notes
      <4> QED
        BY <1>4, <4>1
    <3> QED
      BY <1>2, <1>4, <2>1, <3>1 DEF Announced
  <2>2. CASE p # i.pipe
    BY <1>4, <1>5, <1>6, <2>2 DEF RowsBacked, Announced
  <2> QED
    BY <2>1, <2>2
<1>11. ASSUME NEW e \in Event, NEW id \in EventId, NEW r \in Pipe
       PROVE  Carried(e, id, r)'
  <2>1. CASE i.op = "SetFlag" /\ i.evt = e /\ i.id = id
    <3>1. SetsFlag(i)
      BY <2>1 DEF Effect, WaitsForFlag, MovesData, IsFlagOp
    <3>2. flags'[e][id].snapshot[r] = Snapshot(i.pipe)[r] /\ Snapshot(i.pipe)' = Snapshot(i.pipe)
      BY <1>3, <2>1, <3>1, RowsAfterSet
    <3>3. n \in Sets(e, id)' /\ n.note.turn = turns'[e][id].issued
      <4>1. Sets(e, id)' = Sets(e, id) \cup {n}
        BY <1>1, <1>4, <2>1, SetsAfterIssue DEF SetOf
      <4>2. turns'[e][id].issued = turns[e][id].issued + 1
        BY <2>1, TurnsIssued
      <4>3. n.note.turn = turns[e][id].issued + 1
        BY <1>1, <2>1, NoteTurn
      <4> QED
        BY <4>1, <4>2, <4>3
    <3>4. Snapshot(i.pipe)[r] \in Nat
      BY <1>3, <1>4, SnapshotParts
    <3> QED
      BY <1>2, <1>4, <3>2, <3>3, <3>4 DEF Carried
  <2>2. CASE ~ (i.op = "SetFlag" /\ i.evt = e /\ i.id = id)
    <3>1. turns'[e][id] = turns[e][id]
      BY <2>2, TurnsIssued
    <3>2. flags'[e][id].pending => flags'[e][id] = flags[e][id]
      <4>1. CASE SetsFlag(i)
        <5>1. i.op = "SetFlag"
          BY <4>1 DEF SetsFlag
        <5>2. (e = i.evt /\ id = i.id) \/ flags'[e][id] = flags[e][id]
          BY <1>3, <4>1, RowsAfterSet
        <5> QED
          BY <2>2, <5>1, <5>2
      <4>2. CASE WaitsForFlag(i)
        <5>1. PICK S : S = flags[i.evt][i.id].snapshot
          OBVIOUS
        <5>2. /\ ~ flags'[i.evt][i.id].pending
              /\ (e = i.evt /\ id = i.id) \/ flags'[e][id] = flags[e][id]
          BY <1>2, <1>3, <4>2, <5>1, RowsAfterWait
        <5> QED
          BY <5>2
      <4>3. CASE MovesData(i)
        BY <4>3 DEF MovesData, Instruction
      <4> QED
        BY <4>1, <4>2, <4>3 DEF Effect
    <3>3. Carried(e, id, r)
      BY DEF RowsBacked
    <3> QED
      BY <1>5, <1>7, <3>1, <3>2, <3>3 DEF Carried
  <2> QED
    BY <2>1, <2>2
<1> QED
  BY <1>8, <1>9, <1>10, <1>11 DEF RowsBacked

\* What the first instruction of a pipe published is over once it is.
LEMMA FirstIsOver ==
  ASSUME PipesOK, HistoryOK, TicksOK, TurnsOK, RowsBacked, NEW p \in Pipe,
         CompleteChecked(p) \/ RaiseChecked(p) \/ AwaitChecked(p),
         NEW h, h = FirstEntry(p), NEW r \in Pipe
  PROVE  over[r] <= over'[r] /\ h.note.row[r] <= over'[r]
<1>1. Passes(p) /\ FifoOK /\ CoreTypeOK
  BY PassCases DEF PipesOK, RunOK, ProgressOK, BaseOK, CoreTypeOK
<1>2. /\ h \in Entries(p) /\ h.instr = First(p)
      /\ \A x \in Entries(p) : ~ Before(x, h)
      /\ over' = [over EXCEPT ![p] = h.note.row[p]]
  BY <1>1, EntriesAfterPass
<1>3. over \in [Pipe -> Nat] /\ h.note.row \in [Pipe -> Nat]
  BY <1>1, <1>2, EntryTyped DEF HistoryOK, HistoryTyped
<1>4. over[p] <= h.note.row[p]
  BY <1>2 DEF TicksOK
<1>5. over[r] <= over'[r]
  BY <1>2, <1>3, <1>4
<1>6. CASE r = p
  BY <1>2, <1>3, <1>5, <1>6
<1>7. CASE r # p
  <2>1. over'[r] = over[r]
    BY <1>2, <1>3, <1>7
  <2>2. Backed(p, h, r)
    BY <1>2 DEF RowsBacked
  <2>3. ~ (\E y \in Entries(p) : Before(y, h)) /\ ~ (IsData(h) /\ r = p)
    BY <1>2, <1>7
  <2>4. ASSUME h.instr.op = "WaitFlag", NEW y \in Sets(h.instr.evt, h.instr.id),
               y.note.turn = h.note.turn
        PROVE  FALSE
    <3>1. PICK e, id : e = h.instr.evt /\ id = h.instr.id
      OBVIOUS
    <3>2. AwaitChecked(p) /\ reg[e][id] > 0
      BY <1>2, <2>4, <3>1 DEF CompleteChecked, Complete, RaiseChecked, Raise, AwaitChecked, Await,
                              PipesOK, FlightOK, IsFlagOp
    <3>3. e \in Event /\ id \in EventId
      BY <1>1, <1>2, <2>4, <3>1, EntryTyped, InstrKinds DEF FlagInstrs, IsFlagOp
    <3>4. h \in Waits(e, id) /\ \A x \in Waits(e, id) : ~ Before(x, h)
      <4>1. p = EventDstPipe[e]
        BY <1>1, <1>2, <2>4, <3>1, EntryTyped DEF Placed
      <4> QED
        BY <1>2, <2>4, <3>1, <4>1 DEF Waits, WaitOf
    <3>5. PICK t \in Turns, k \in Nat : t = turns[e][id] /\ k = reg[e][id]
      <4>1. reg \in [Event -> [EventId -> 0 .. FLAG_MAX]] /\ FLAG_MAX \in Nat
        BY ConcurrentPipesAssumption DEF PipesOK, DataOK
      <4>2. reg[e][id] \in Nat
        BY <3>3, <4>1
      <4> QED
        BY <1>1, <3>3, <4>2, FlagEntriesTyped
    <3>6. PICK S, W, w : S = Sets(e, id) /\ W = Waits(e, id) /\ w = Waited(e, id)
      OBVIOUS
    <3>7. TurnsHold(k, t, w, S, W)
      BY <3>3, <3>5, <3>6 DEF TurnsOK
    <3>8. h.note.turn <= t.done
      BY <3>2, <3>4, <3>5, <3>6, <3>7, FirstWait
    <3>9. t.done < y.note.turn
      BY <2>4, <3>1, <3>6, <3>7 DEF TurnsHold
    <3>10. h.note.turn \in Nat /\ t.done \in Nat
      BY <1>1, <1>2, EntryTyped DEF Turns
    <3> QED
      BY <2>4, <3>8, <3>9, <3>10
  <2> QED
    BY <1>5, <2>1, <2>2, <2>3, <2>4 DEF Backed
<1> QED
  BY <1>6, <1>7, <1>5

LEMMA RowsBackedAfterPass ==
  ASSUME PipesOK, HistoryOK, TicksOK, TurnsOK, RowsBacked, NEW p \in Pipe,
         CompleteChecked(p) \/ RaiseChecked(p) \/ AwaitChecked(p)
  PROVE  RowsBacked'
<1>1. PICK h : h = FirstEntry(p)
  OBVIOUS
<1>2. Passes(p) /\ FifoOK /\ CoreTypeOK
  BY PassCases DEF PipesOK, RunOK, ProgressOK, BaseOK, CoreTypeOK
<1>3. UNCHANGED <<clock, view, flags>>
  BY <1>2 DEF Passes, coreVars
<1>4. \A q \in Pipe : Entries(q)' = Entries(q) \ {h}
  <2>1. ASSUME NEW q \in Pipe, q # p
        PROVE  h \notin Entries(q)
    BY <1>1, <1>2, <2>1, EntriesAfterPass, EntryTyped
  <2> QED
    BY <1>1, <1>2, <2>1, EntriesAfterPass
<1>5. ASSUME NEW r \in Pipe
      PROVE  /\ over[r] \in Nat /\ over'[r] \in Nat
             /\ over[r] <= over'[r] /\ h.note.row[r] <= over'[r]
  <2>1. over[r] <= over'[r] /\ h.note.row[r] <= over'[r]
    BY <1>1, FirstIsOver
  <2>2. over \in [Pipe -> Nat] /\ h.note.row \in [Pipe -> Nat]
    BY <1>1, <1>2, EntriesAfterPass, EntryTyped DEF HistoryOK, HistoryTyped
  <2>3. over' = [over EXCEPT ![p] = h.note.row[p]]
    BY <1>1, <1>2, EntriesAfterPass
  <2> QED
    BY <2>1, <2>2, <2>3
<1>6. ASSUME NEW e \in Event, NEW id \in EventId
      PROVE  Sets(e, id)' = Sets(e, id) \ {h}
  BY <1>1, <1>2, SetsAfterPass
<1>7. ASSUME NEW q \in Pipe, NEW r \in Pipe, NEW y \in Entries(q), NEW n \in Nat, n <= y.note.row[r]
      PROVE  n <= over'[r] \/ (y # h /\ y \in Entries(q)')
  <2>1. CASE y = h
    <3>1. h.note.row[r] \in Nat
      BY <1>2, <1>7, <2>1, EntryTyped
    <3> QED
      BY <1>5, <1>7, <2>1, <3>1
  <2> QED
    BY <1>4, <2>1
<1>8. ASSUME NEW q \in Pipe, NEW r \in Pipe
      PROVE  Announced(q, r)'
  <2>1. PICK n \in Nat : n = Snapshot(q)[r]
    BY <1>2, SnapshotParts
  <2>2. Snapshot(q)'[r] = n
    BY <1>3, <2>1, SnapshotsAlike
  <2>3. n <= over[r] \/ \E y \in Entries(q) : n <= y.note.row[r]
    BY <2>1 DEF RowsBacked, Announced
  <2>4. n <= over'[r] \/ \E y \in Entries(q)' : n <= y.note.row[r]
    BY <1>5, <1>7, <2>3
  <2> QED
    BY <2>2, <2>4 DEF Announced
<1>9. ASSUME NEW q \in Pipe, NEW r \in Pipe, NEW x \in Entries(q)'
      PROVE  Backed(q, x, r)'
  <2>1. x \in Entries(q)
    BY <1>4
  <2>2. PICK n \in Nat : n = x.note.row[r]
    BY <1>2, <2>1, EntryTyped
  <2>3. Backed(q, x, r)
    BY <2>1 DEF RowsBacked
  <2>4. CASE n <= over[r]
    BY <1>5, <2>2, <2>4 DEF Backed
  <2>5. CASE \E y \in Entries(q) : Before(y, x) /\ n <= y.note.row[r]
    <3>1. PICK y \in Entries(q) : Before(y, x) /\ n <= y.note.row[r]
      BY <2>5
    <3>2. n <= over'[r] \/ y \in Entries(q)'
      BY <1>7, <3>1
    <3>3. Before(y, x)'
      BY <3>1 DEF Before
    <3> QED
      BY <2>2, <3>1, <3>2, <3>3 DEF Backed
  <2>6. CASE IsData(x) /\ r = q
    BY <2>6 DEF Backed, IsData, IsFlagOp
  <2>7. ASSUME x.instr.op = "WaitFlag", NEW y \in Sets(x.instr.evt, x.instr.id),
               y.note.turn = x.note.turn, n <= y.note.row[r]
        PROVE  Backed(q, x, r)'
    <3>1. x.instr.evt \in Event /\ x.instr.id \in EventId
      BY <1>2, <2>1, <2>7, EntryTyped, InstrKinds DEF FlagInstrs, IsFlagOp
    <3>2. y \in Entries(EventSrcPipe[x.instr.evt]) /\ EventSrcPipe[x.instr.evt] \in Pipe
      BY <1>2, <2>7, <3>1, FlagEntriesTyped
    <3>3. n <= over'[r] \/ y # h
      BY <1>7, <2>7, <3>2
    <3>4. y # h => y \in Sets(x.instr.evt, x.instr.id)'
      BY <1>6, <2>7, <3>1
    <3> QED
      BY <2>2, <2>7, <3>3, <3>4 DEF Backed
  <2> QED
    BY <2>2, <2>3, <2>4, <2>5, <2>6, <2>7 DEF Backed
<1>10. ASSUME NEW e \in Event, NEW id \in EventId, NEW r \in Pipe
       PROVE  Carried(e, id, r)'
  <2>1. flags' = flags /\ turns'[e][id].issued = turns[e][id].issued
    BY <1>3, TurnsIssuedStay
  <2>2. CASE flags[e][id].pending
    <3>1. PICK n \in Nat : n = flags[e][id].snapshot[r]
      BY <1>2, FlagSlots
    <3>2. n <= over[r] \/ \E y \in Sets(e, id) : y.note.turn = turns[e][id].issued /\ n <= y.note.row[r]
      BY <2>2, <3>1 DEF RowsBacked, Carried
    <3>3. CASE n <= over[r]
      BY <1>5, <2>1, <3>1, <3>3 DEF Carried
    <3>4. ASSUME NEW y \in Sets(e, id), y.note.turn = turns[e][id].issued, n <= y.note.row[r]
          PROVE  Carried(e, id, r)'
      <4>1. y \in Entries(EventSrcPipe[e]) /\ EventSrcPipe[e] \in Pipe
        BY <1>2, <3>4, FlagEntriesTyped
      <4>2. n <= over'[r] \/ y # h
        BY <1>7, <3>4, <4>1
      <4>3. y # h => y \in Sets(e, id)'
        BY <1>6, <3>4
      <4> QED
        BY <2>1, <3>1, <3>4, <4>2, <4>3 DEF Carried
    <3> QED
      BY <3>2, <3>3, <3>4
  <2> QED
    BY <2>1, <2>2 DEF Carried
<1> QED
  BY <1>8, <1>9, <1>10 DEF RowsBacked

-----------------------------------------------------------------------------
(* What the marks on the granules guard.                                   *)

\* Whoever has observed tick c of pipe w has observed tick t of pipe q.
Covers(w, c, q, t) == \A R \in Rows : c <= R[w] => t <= R[q]

WriterCovers(g, q, t) ==
  gran[g].writer # NoPipe /\ Covers(gran[g].writer, gran[g].clock, q, t)

\* The mark of x, an instruction of pipe q, on granule g: whoever has observed
\* the last write of g has observed x; a reader may have left its own mark.
Marked(x, q, g) ==
  /\ g \in Targets(x.instr) => WriterCovers(g, q, x.note.row[q])
  /\ g \in Sources(x.instr) =>
       /\ q \in readers[g]
       /\ \/ Shared(g)
          \/ WriterCovers(g, q, x.note.row[q])
          \/ gran[g].reader = q /\ x.note.row[q] <= gran[g].readClock

MarksOK == \A q \in Pipe : \A x \in Entries(q), g \in Granule : Marked(x, q, g)

\* Two instructions that may not change places.
Conflict(x, y, g) ==
  \/ g \in Targets(x.instr) /\ g \in Sources(y.instr) \cup Targets(y.instr)
  \/ g \in Sources(x.instr) /\ g \in Targets(y.instr) /\ ~ Shared(g)

\* The later one has observed the tick of the earlier one.
PairsOK ==
  \A p, q \in Pipe : p # q =>
    \A x \in Entries(q), y \in Entries(p), g \in Granule :
      Before(x, y) /\ Conflict(x, y, g) => x.note.row[q] <= y.note.row[q]

\* What a call that is not reported found on the granules it touches.
LEMMA AccessPassed ==
  ASSUME RunOK, NEW i \in Instrs, MovesData(i), syncErrors' = 0, NEW g \in Granule
  PROVE  /\ g \in Sources(i) \cup Targets(i) =>
              ~ NotYetObserved(i.pipe, gran[g].writer, gran[g].clock)
         /\ g \in Targets(i) \ Sources(i) =>
              ~ NotYetObserved(i.pipe, gran[g].reader, gran[g].readClock)
<1>1. PICK p, s0, s1, d : /\ p = i.pipe /\ s0 = Granules(i.src0) /\ s1 = Granules(i.src1)
                          /\ d = Granules(i.dst)
  OBVIOUS
<1>2. p \in Pipe /\ Instruction(p, s0, s1, d, 0) /\ Sources(i) = s0 \cup s1 /\ Targets(i) = d
  BY <1>1, InstrKinds DEF MovesData, Sources, Targets
<1>3. PICK n \in Nat : n = 0
  OBVIOUS
<1>4. Instruction(p, s0, s1, d, n)
  BY <1>2, <1>3
<1>5. /\ TouchErrors(p, s0, s1, d)[1] = 0
      /\ TouchErrors(p, s0, s1, d)[2] = 0
      /\ TouchErrors(p, s0, s1, d)[3] = 0
  BY <1>2, <1>4, CleanInstruction
<1>6. gran \in [Granule -> GranuleInfo]
  BY DEF RunOK, ProgressOK, BaseOK, CoreTypeOK
<1>7. g \in s0 => ~ NotYetObserved(p, gran[g].writer, gran[g].clock)
  <2>1. CheckAccess(gran, p, s0, FALSE) = 0
    BY <1>5 DEF TouchErrors
  <2> QED
    BY <2>1 DEF CheckAccess, OneIf
<1>8. PICK A : A = AfterSrc0(p, s0)
  OBVIOUS
<1>9. A[g].writer = gran[g].writer /\ A[g].clock = gran[g].clock /\ A[g] \in GranuleInfo
      /\ (g \notin s0 => A[g] = gran[g])
  <2>1. PICK k \in Nat : k = clock[p] + 1
    BY <1>2 DEF RunOK, ProgressOK, BaseOK, CoreTypeOK
  <2>2. A[g] = IF g \in s0 THEN [gran[g] EXCEPT !.reader = p, !.readClock = k] ELSE gran[g]
    BY <1>8, <2>1 DEF AfterSrc0, RecordRead
  <2> QED
    BY <1>2, <1>6, <2>1, <2>2 DEF GranuleInfo
<1>10. g \in s1 => ~ NotYetObserved(p, gran[g].writer, gran[g].clock)
  <2>1. CheckAccess(A, p, s1, FALSE) = 0
    BY <1>5, <1>8 DEF TouchErrors
  <2> QED
    BY <1>9, <2>1 DEF CheckAccess, OneIf
<1>11. PICK B : B = AfterSrc1(p, s0, s1)
  OBVIOUS
<1>12. B[g].writer = gran[g].writer /\ B[g].clock = gran[g].clock
       /\ (g \notin s0 \cup s1 => B[g] = gran[g])
  <2>1. PICK k \in Nat : k = clock[p] + 1
    BY <1>2 DEF RunOK, ProgressOK, BaseOK, CoreTypeOK
  <2>2. B[g] = IF g \in s1 THEN [A[g] EXCEPT !.reader = p, !.readClock = k] ELSE A[g]
    BY <1>8, <1>11, <2>1 DEF AfterSrc1, RecordRead
  <2> QED
    BY <1>2, <1>9, <2>1, <2>2 DEF GranuleInfo
<1>13. g \in d => /\ ~ NotYetObserved(p, B[g].writer, B[g].clock)
                  /\ ~ NotYetObserved(p, B[g].reader, B[g].readClock)
  <2>1. CheckAccess(B, p, d, TRUE) = 0
    BY <1>5, <1>11 DEF TouchErrors
  <2> QED
    BY <2>1 DEF CheckAccess, OneIf
<1> QED
  BY <1>1, <1>2, <1>7, <1>10, <1>12, <1>13

\* Who is not reported has observed the last writer.
LEMMA WriterObserved ==
  ASSUME CoreTypeOK, GranulesSeen, NEW p \in Pipe, NEW g \in Granule, NEW q \in Pipe, NEW t \in Nat,
         WriterCovers(g, q, t), ~ NotYetObserved(p, gran[g].writer, gran[g].clock)
  PROVE  t <= Snapshot(p)[q]
<1>1. PICK w \in Pipe, c \in Nat : w = gran[g].writer /\ c = gran[g].clock
  BY DEF CoreTypeOK, GranuleInfo, WriterCovers
<1>2. Covers(w, c, q, t)
  BY <1>1 DEF WriterCovers
<1>3. c <= Snapshot(p)[w]
  <2>1. CASE w = p
    BY <1>1, <2>1, SnapshotParts DEF GranulesSeen, WriterCovers
  <2>2. CASE w # p
    <3>1. ~ (view[p][w] < c)
      BY <1>1, <2>2, SyncCoreAssumption DEF NotYetObserved
    <3>2. view[p][w] \in Nat /\ Snapshot(p)[w] = view[p][w]
      BY <2>2, SnapshotParts DEF CoreTypeOK
    <3> QED
      BY <3>1, <3>2
  <2> QED
    BY <2>1, <2>2
<1> QED
  BY <1>2, <1>3, SnapshotIsRow DEF Covers

\* Readers only come in addition, as long as the block lasts.
LEMMA ReadersAfterIssue ==
  ASSUME HistoryOK, NEW i \in Instrs, Issues(i), NEW g \in Granule
  PROVE  /\ g \notin Sources(i) => readers'[g] = readers[g]
         /\ g \in Sources(i) => readers'[g] = readers[g] \cup {i.pipe}
         /\ Shared(g) => Shared(g)'
<1>1. readers' = [a \in Granule |-> IF a \in Sources(i) THEN readers[a] \cup {i.pipe} ELSE readers[a]]
  BY DEF Issues, Execute
<1>2. /\ g \notin Sources(i) => readers'[g] = readers[g]
      /\ g \in Sources(i) => readers'[g] = readers[g] \cup {i.pipe}
  BY <1>1
<1>3. readers[g] \subseteq readers'[g]
  BY <1>2
<1> QED
  BY <1>2, <1>3 DEF Shared

\* An instruction that is not reported has observed all those that it may not
\* overtake.
LEMMA OrderAccepted ==
  ASSUME PipesOK, HistoryOK, GranulesSeen, MarksOK, NEW i \in Instrs, Placed(i), Issues(i),
         MovesData(i), syncErrors' = 0,
         NEW e, e.instr = i, NEW q \in Pipe, q # i.pipe, NEW x \in Entries(q), NEW g \in Granule,
         Conflict(x, e, g)'
  PROVE  x.note.row[q] <= Snapshot(i.pipe)[q]
<1>1. PICK p : p = i.pipe
  OBVIOUS
<1>2. PICK t \in Nat : t = x.note.row[q]
  BY EntryTyped DEF PipesOK
<1>3. CoreTypeOK /\ RunOK /\ p \in Pipe
  BY <1>1, InstrKinds DEF PipesOK, RunOK, ProgressOK, BaseOK, CoreTypeOK
<1>4. Marked(x, q, g)
  BY DEF MarksOK
<1>5. CASE WriterCovers(g, q, t) /\ g \in Sources(i) \cup Targets(i)
  <2>1. ~ NotYetObserved(p, gran[g].writer, gran[g].clock)
    BY <1>1, <1>3, <1>5, AccessPassed
  <2> QED
    BY <1>1, <1>2, <1>3, <1>5, <2>1, WriterObserved
<1>6. CASE g \in Sources(x.instr) /\ g \in Targets(i) /\ ~ Shared(g)'
  <2>1. ~ Shared(g) /\ g \notin Sources(i)
    <3>1. q \in readers[g]
      BY <1>4, <1>6 DEF Marked
    <3> QED
      BY <1>3, <1>6, <3>1, ReadersAfterIssue DEF Shared
  <2>2. CASE gran[g].reader = q /\ t <= gran[g].readClock
    <3>1. PICK c \in Nat : c = gran[g].readClock
      BY <1>3 DEF CoreTypeOK, GranuleInfo
    <3>2. ~ NotYetObserved(p, gran[g].reader, c)
      BY <1>1, <1>3, <1>6, <2>1, <3>1, AccessPassed
    <3>3. ~ (view[p][q] < c)
      BY <1>1, <2>2, <3>2, SyncCoreAssumption DEF NotYetObserved
    <3>4. view[p][q] \in Nat /\ Snapshot(p)[q] = view[p][q]
      BY <1>1, <1>3, SnapshotParts DEF CoreTypeOK
    <3> QED
      BY <1>1, <1>2, <2>2, <3>1, <3>3, <3>4
  <2> QED
    BY <1>2, <1>4, <1>5, <1>6, <2>1, <2>2 DEF Marked
<1> QED
  BY <1>2, <1>4, <1>5, <1>6 DEF Conflict, Marked

\* A row that is added knows no more than another did.
LEMMA CoversAfterIssue ==
  ASSUME CoreTypeOK, RowsSeen, NEW i \in Instrs, Placed(i), Effect(i), CoreTypeOK',
         NEW w \in Pipe, NEW c \in Nat, c <= clock[w], NEW q \in Pipe, NEW t \in Nat,
         Covers(w, c, q, t)
  PROVE  Covers(w, c, q, t)'
<1>1. PICK M : M = Snapshot(i.pipe)'
  OBVIOUS
<1>2. /\ Rows' \subseteq Rows \cup {M} /\ i.pipe \in Pipe
      /\ c <= M[w] => \E R \in Rows : c <= R[w] /\ \A r \in Pipe : R[r] <= M[r]
  BY <1>1, RowsAfterIssue
<1> SUFFICES ASSUME NEW R \in Rows', c <= R[w] PROVE t <= R[q]
  BY DEF Covers
<1>3. CASE R \in Rows
  BY <1>3 DEF Covers
<1>4. CASE R = M
  <2>1. PICK O \in Rows : c <= O[w] /\ O[q] <= M[q]
    BY <1>2, <1>4
  <2>2. O[q] \in Nat /\ R[q] \in Nat
    BY DEF Rows
  <2>3. t <= O[q]
    BY <2>1 DEF Covers
  <2> QED
    BY <1>4, <2>1, <2>2, <2>3
<1> QED
  BY <1>2, <1>3, <1>4

\* Only the pipe that writes has observed its write.
LEMMA CoversAfterWrite ==
  ASSUME CoreTypeOK, RowsSeen, NEW i \in Instrs, MovesData(i), CoreTypeOK',
         NEW k, k = clock[i.pipe] + 1,
         NEW M, M = Snapshot(i.pipe)', NEW q \in Pipe, NEW t, t <= M[q]
  PROVE  Covers(i.pipe, k, q, t)'
<1>1. PICK p : p = i.pipe
  OBVIOUS
<1>2. p \in Pipe /\ Rows' \subseteq Rows \cup {M}
  BY <1>1, RowsAfterData
<1>3. ASSUME NEW R \in Rows', k <= R[p]
      PROVE  t <= R[q]
  <2>1. CASE R \in Rows
    <3>1. R[p] <= clock[p] /\ R[p] \in Nat /\ clock[p] \in Nat
      BY <1>2, <2>1 DEF RowsSeen, Rows, CoreTypeOK
    <3> QED
      BY <1>1, <1>3, <3>1
  <2> QED
    BY <1>2, <2>1
<1> QED
  BY <1>1, <1>3 DEF Covers

LEMMA MarksAfterFlag ==
  ASSUME PipesOK, CoreTypeOK', HistoryOK, RowsSeen, GranulesSeen, MarksOK,
         NEW i \in Instrs, Placed(i), Issues(i), Effect(i), IsFlagOp(i)
  PROVE  MarksOK'
<1>1. PICK n : n = Entry(i, Note(i, i.pipe))
  OBVIOUS
<1>2. PICK M : M = Snapshot(i.pipe)'
  OBVIOUS
<1>3. CoreTypeOK
  BY DEF PipesOK, RunOK, ProgressOK, BaseOK, CoreTypeOK
<1>4. /\ \A q \in Pipe : Entries(q)' \subseteq Entries(q) \cup {n}
      /\ n.instr = i
  BY <1>1, <1>2, EntriesAfterIssue
<1>5. UNCHANGED gran
  BY DEF Effect, SetsFlag, WaitsForFlag, MovesData
<1>6. Sources(i) = {} /\ Targets(i) = {}
  BY DEF Sources, Targets
<1> SUFFICES ASSUME NEW q \in Pipe, NEW x \in Entries(q)', NEW g \in Granule
             PROVE  Marked(x, q, g)'
  BY DEF MarksOK
<1>7. UNCHANGED readers[g]
  BY <1>6, ReadersAfterIssue
<1>8. CASE x = n
  BY <1>4, <1>6, <1>8 DEF Marked, Sources, Targets, IsFlagOp
<1>9. CASE x \in Entries(q)
  <2>1. Marked(x, q, g)
    BY <1>9 DEF MarksOK
  <2>2. PICK t \in Nat : t = x.note.row[q]
    BY <1>9, EntryTyped DEF PipesOK
  <2>3. ASSUME WriterCovers(g, q, t)
        PROVE  WriterCovers(g, q, t)'
    <3>1. PICK w \in Pipe, c \in Nat : w = gran[g].writer /\ c = gran[g].clock
      BY <1>3, <2>3 DEF CoreTypeOK, GranuleInfo, WriterCovers
    <3>2. Covers(w, c, q, t) /\ c <= clock[w]
      BY <2>3, <3>1 DEF WriterCovers, GranulesSeen
    <3>3. Covers(w, c, q, t)'
      BY <1>3, <3>2, CoversAfterIssue
    <3> QED
      BY <1>5, <2>3, <3>1, <3>3 DEF WriterCovers
  <2>4. Shared(g)' = Shared(g)
    BY <1>7 DEF Shared
  <2> QED
    BY <1>5, <1>7, <2>1, <2>2, <2>3, <2>4 DEF Marked
<1> QED
  BY <1>4, <1>8, <1>9

\* The instruction that is issued marks what it touches.
LEMMA NoteMarked ==
  ASSUME PipesOK, CoreTypeOK', HistoryOK, RowsSeen,
         NEW i \in Instrs, Placed(i), Issues(i), MovesData(i),
         NEW e, e = Entry(i, Note(i, i.pipe)), NEW g \in Granule
  PROVE  Marked(e, i.pipe, g)'
<1>1. PICK p : p = i.pipe
  OBVIOUS
<1>2. PICK M : M = Snapshot(i.pipe)'
  OBVIOUS
<1>3. CoreTypeOK /\ checkMode = "Report"
  BY DEF PipesOK, RunOK, ProgressOK, BaseOK, CoreTypeOK
<1>4. PICK k : k = clock[i.pipe] + 1
  OBVIOUS
<1>5. /\ p \in Pipe /\ e.instr = i /\ \A r \in Pipe : e.note.row[r] = M[r]
  BY <1>1, <1>2, EntriesAfterIssue
<1>6. M[p] = k /\ k \in Nat
  <2>1. M[p] = clock[p] + 1
    BY <1>1, <1>2, <1>3, RowsAfterData
  <2>2. clock[p] \in Nat
    BY <1>3, <1>5 DEF CoreTypeOK
  <2> QED
    BY <1>1, <1>4, <2>1, <2>2
<1>7. g \in Targets(i) => WriterCovers(g, p, k)'
  <2>1. HAVE g \in Targets(i)
  <2>2. gran'[g].writer = p /\ gran'[g].clock = k
    BY <1>1, <1>3, <1>4, <2>1, GranulesAfterData
  <2>3. Covers(p, k, p, k)'
    BY DEF Covers
  <2>4. p # NoPipe
    BY <1>5, SyncCoreAssumption
  <2> QED
    BY <2>2, <2>3, <2>4 DEF WriterCovers
<1>8. g \in Sources(i) => p \in readers'[g]
  BY <1>1, ReadersAfterIssue
<1>9. g \in Sources(i) /\ g \notin Targets(i) => gran'[g].reader = p /\ gran'[g].readClock = k
  BY <1>1, <1>3, <1>4, GranulesAfterData
<1>10. e.note.row[p] = k /\ e.instr = i /\ k <= k
  BY <1>5, <1>6
<1>11. Marked(e, p, g)'
  BY <1>7, <1>8, <1>9, <1>10 DEF Marked, Sources, Targets, IsFlagOp
<1> QED
  BY <1>1, <1>11

\* The earlier ones keep their marks, or the one that is issued has observed
\* them and marks what it writes in their place.
LEMMA MarkKept ==
  ASSUME PipesOK, CoreTypeOK', HistoryOK, RowsSeen, GranulesSeen, TicksOK, MarksOK,
         NEW i \in Instrs, Placed(i), Issues(i), MovesData(i), syncErrors' = 0,
         NEW q \in Pipe, NEW x \in Entries(q), NEW g \in Granule
  PROVE  Marked(x, q, g)'
<1>1. PICK p, M : p = i.pipe /\ M = Snapshot(i.pipe)'
  OBVIOUS
<1>2. PICK e : e = Entry(i, Note(i, i.pipe))
  OBVIOUS
<1>3. CoreTypeOK /\ checkMode = "Report" /\ Effect(i)
  BY DEF PipesOK, RunOK, ProgressOK, BaseOK, CoreTypeOK, Effect
<1>4. PICK k : k = clock[i.pipe] + 1
  OBVIOUS
<1>5. p \in Pipe /\ e.instr = i /\ M[p] = k /\ \A r \in Pipe \ {p} : M[r] = Snapshot(p)[r]
  BY <1>1, <1>2, <1>3, <1>4, RowsAfterData DEF Entry
<1>6. k \in Nat /\ clock[p] \in Nat /\ clock[p] <= k
  BY <1>1, <1>3, <1>4, <1>5 DEF CoreTypeOK
<1>7. PICK t \in Nat : t = x.note.row[q]
  BY EntryTyped DEF PipesOK
<1>8. t <= clock[q]
  BY <1>7 DEF TicksOK
<1>9. Marked(x, q, g)
  BY DEF MarksOK
<1>10. /\ g \notin Sources(i) => readers'[g] = readers[g]
       /\ g \in Sources(i) => readers'[g] = readers[g] \cup {p}
       /\ Shared(g) => Shared(g)'
  BY <1>1, ReadersAfterIssue
<1>11. CASE g \in Targets(i)
  <2>1. gran'[g].writer = p /\ gran'[g].clock = k /\ p # NoPipe
    BY <1>1, <1>3, <1>4, <1>5, <1>11, GranulesAfterData, SyncCoreAssumption
  <2>2. ASSUME g \in Targets(x.instr) \/ (g \in Sources(x.instr) /\ ~ Shared(g)')
        PROVE  WriterCovers(g, q, t)'
    <3>1. t <= M[q]
      <4>1. CASE q = p
        BY <1>5, <1>6, <1>8, <4>1
      <4>2. CASE q # p
        <5>1. Conflict(x, e, g)'
          BY <1>5, <1>11, <2>2 DEF Conflict, Targets, Sources, IsFlagOp
        <5>2. t <= Snapshot(p)[q]
          BY <1>1, <1>3, <1>5, <1>7, <4>2, <5>1, OrderAccepted
        <5> QED
          BY <1>5, <4>2, <5>2
      <4> QED
        BY <4>1, <4>2
    <3>2. Covers(p, k, q, t)'
      BY <1>1, <1>3, <1>4, <3>1, CoversAfterWrite
    <3> QED
      BY <2>1, <3>2 DEF WriterCovers
  <2> QED
    BY <1>7, <1>9, <1>10, <2>2 DEF Marked, Targets, Sources, IsFlagOp
<1>12. CASE g \notin Targets(i)
  <2>1. gran'[g].writer = gran[g].writer /\ gran'[g].clock = gran[g].clock
    BY <1>3, <1>12, GranulesAfterData
  <2>2. ASSUME WriterCovers(g, q, t)
        PROVE  WriterCovers(g, q, t)'
    <3>1. PICK w \in Pipe, c \in Nat : w = gran[g].writer /\ c = gran[g].clock
      BY <1>3, <2>2 DEF CoreTypeOK, GranuleInfo, WriterCovers
    <3>2. Covers(w, c, q, t) /\ c <= clock[w]
      BY <2>2, <3>1 DEF WriterCovers, GranulesSeen
    <3>3. Covers(w, c, q, t)'
      BY <1>3, <3>2, CoversAfterIssue
    <3> QED
      BY <2>1, <2>2, <3>1, <3>3 DEF WriterCovers
  <2>3. CASE g \notin Sources(i)
    <3>1. gran'[g] = gran[g]
      BY <1>3, <1>12, <2>3, GranulesAfterData
    <3> QED
      BY <1>7, <1>9, <1>10, <2>2, <2>3, <3>1 DEF Marked, Targets, Sources, IsFlagOp
  <2>4. CASE g \in Sources(i)
    <3>1. gran'[g].reader = p /\ gran'[g].readClock = k
      BY <1>1, <1>3, <1>4, <1>12, <2>4, GranulesAfterData
    <3>2. ASSUME g \in Sources(x.instr)
          PROVE  Shared(g)' \/ (q = p /\ t <= k)
      <4>1. p \in readers'[g] /\ q \in readers'[g]
        BY <1>9, <1>10, <2>4, <3>2 DEF Marked
      <4>2. q # p => Shared(g)'
        BY <4>1, <1>5 DEF Shared
      <4> QED
        BY <1>6, <1>8, <4>2
    <3>3. q \in readers[g] => q \in readers'[g]
      BY <1>10
    <3> QED
      BY <1>7, <1>9, <2>2, <3>1, <3>2, <3>3 DEF Marked, Targets, Sources, IsFlagOp
  <2> QED
    BY <2>3, <2>4
<1> QED
  BY <1>11, <1>12

LEMMA MarksAfterIssue ==
  ASSUME PipesOK, CoreTypeOK', HistoryOK, RowsSeen, GranulesSeen, TicksOK, MarksOK,
         NEW i \in Instrs, Placed(i), Issues(i), Effect(i), syncErrors' = 0
  PROVE  MarksOK'
<1>1. CASE IsFlagOp(i)
  BY <1>1, MarksAfterFlag
<1>2. CASE MovesData(i)
  <2>1. PICK n : n = Entry(i, Note(i, i.pipe))
    OBVIOUS
  <2>2. PICK M : M = Snapshot(i.pipe)'
    OBVIOUS
  <2>3. \A q \in Pipe : /\ q = i.pipe => Entries(q)' = Entries(q) \cup {n}
                        /\ q # i.pipe => Entries(q)' = Entries(q)
    BY <2>1, <2>2, EntriesAfterIssue
  <2>4. ASSUME NEW q \in Pipe, NEW x \in Entries(q)', NEW g \in Granule
        PROVE  Marked(x, q, g)'
    <3>1. CASE x \in Entries(q)
      BY <1>2, <3>1, MarkKept
    <3>2. CASE x = n /\ q = i.pipe
      BY <1>2, <2>1, <3>2, NoteMarked, Zenon
    <3> QED
      BY <2>3, <2>4, <3>1, <3>2
  <2> QED
    BY <2>4 DEF MarksOK
<1> QED
  BY <1>1, <1>2 DEF Effect, SetsFlag, WaitsForFlag, IsFlagOp

LEMMA PairsAfterIssue ==
  ASSUME PipesOK, CoreTypeOK', HistoryOK, RowsSeen, GranulesSeen, MarksOK, PairsOK,
         NEW i \in Instrs, Placed(i), Issues(i), Effect(i), syncErrors' = 0
  PROVE  PairsOK'
<1>1. PICK n, M : n = Entry(i, Note(i, i.pipe)) /\ M = Snapshot(i.pipe)'
  OBVIOUS
<1>2. /\ i.pipe \in Pipe
      /\ Entries(i.pipe)' = Entries(i.pipe) \cup {n}
      /\ \A q \in Pipe \ {i.pipe} : Entries(q)' = Entries(q)
      /\ n.instr = i /\ \A r \in Pipe : n.note.row[r] = M[r]
      /\ \A q \in Pipe : \A x \in Entries(q) : ~ Before(n, x)
      /\ ~ Before(n, n)
  BY <1>1, EntriesAfterIssue
<1> SUFFICES ASSUME NEW p \in Pipe, NEW q \in Pipe, p # q,
                    NEW x \in Entries(q)', NEW y \in Entries(p)', NEW g \in Granule,
                    Before(x, y), Conflict(x, y, g)'
             PROVE  x.note.row[q] <= y.note.row[q]
  BY DEF PairsOK, Before
<1>3. x \in Entries(q)
  BY <1>2
<1>4. CASE y \in Entries(p)
  <2>1. Conflict(x, y, g)
    BY ReadersAfterIssue DEF Conflict, Sources, Targets, IsFlagOp
  <2> QED
    BY <1>3, <1>4, <2>1 DEF PairsOK
<1>5. CASE y = n /\ p = i.pipe
  <2>1. MovesData(i)
    BY <1>2, <1>5 DEF Effect, SetsFlag, WaitsForFlag, IsFlagOp, Conflict, Sources, Targets
  <2>2. x.note.row[q] <= Snapshot(p)[q]
    BY <1>2, <1>3, <1>5, <2>1, OrderAccepted
  <2>3. CoreTypeOK
    BY DEF PipesOK, RunOK, ProgressOK, BaseOK, CoreTypeOK
  <2>4. M[q] = Snapshot(p)[q]
    BY <1>1, <1>5, <2>1, <2>3, RowsAfterData
  <2> QED
    BY <1>2, <1>5, <2>2, <2>4
<1> QED
  BY <1>2, <1>4, <1>5

LEMMA MarksAndPairsAfterPass ==
  ASSUME PipesOK, HistoryOK, MarksOK, PairsOK, NEW p \in Pipe, Passes(p)
  PROVE  MarksOK' /\ PairsOK'
<1>1. PICK h : h = FirstEntry(p)
  OBVIOUS
<1>2. \A q \in Pipe : Entries(q)' \subseteq Entries(q)
  BY <1>1, EntriesAfterPass DEF PipesOK
<1>3. UNCHANGED <<clock, view, flags, gran, readers>>
  BY DEF Passes, PassOver, coreVars
<1>4. Rows' = Rows
  BY <1>3, RowsUnchanged
<1>5. \A w, c, q, t : Covers(w, c, q, t) => Covers(w, c, q, t)'
  BY <1>4 DEF Covers
<1>6. MarksOK'
  BY <1>2, <1>3, <1>5 DEF MarksOK, Marked, WriterCovers, Shared, Sources, Targets, IsFlagOp
<1>7. PairsOK'
  BY <1>2, <1>3 DEF PairsOK, Conflict, Before, Shared, Sources, Targets, IsFlagOp
<1> QED
  BY <1>6, <1>7

-----------------------------------------------------------------------------
(* The order the clocks accept.                                            *)

OrderOK ==
  TicksOK /\ RowsSeen /\ GranulesSeen /\ TurnsOK /\ RowsBacked /\ MarksOK /\ PairsOK

\* A kernel in progress of which nothing has been reported.
Running == ~ destroyed /\ syncErrors = 0

\* Nothing is pending.
Empty == \A p \in Pipe : fifo[p] = <<>>

LEMMA NoEntries == Empty => \A p \in Pipe : Entries(p) = {}
<1> SUFFICES ASSUME Empty, NEW p \in Pipe PROVE Entries(p) = {}
  OBVIOUS
<1>1. DOMAIN fifo[p] = {}
  <2>1. fifo[p] = <<>>
    BY DEF Empty
  <2>2. DOMAIN <<>> = {}
    OBVIOUS
  <2> QED
    BY <2>1, <2>2, Zenon
<1> QED
  BY <1>1 DEF Entries

LEMMA NoEntriesAfter == Empty' => (\A p \in Pipe : Entries(p) = {})'
  BY NoEntries, PTL

\* A block begins.
Cleared ==
  /\ CoreTypeOK
  /\ clock = Fresh.clock /\ view = Fresh.view /\ flags = Fresh.flags /\ gran = Fresh.gran
  /\ reg = Idle.reg /\ over = Blank.over /\ turns = Blank.turns
  /\ Empty

LEMMA OrderOKStart == Cleared => OrderOK
<1> SUFFICES ASSUME Cleared PROVE OrderOK
  OBVIOUS
<1> USE DEF Cleared
<1>1. \A p \in Pipe : Entries(p) = {}
  BY NoEntries DEF Empty
<1>2. /\ \A p \in Pipe : clock[p] = 0 /\ over[p] = 0
      /\ \A p, q \in Pipe : view[p][q] = 0
      /\ \A e \in Event, id \in EventId : ~ flags[e][id].pending
      /\ \A g \in Granule : gran[g].writer = NoPipe /\ gran[g].reader = NoPipe
  BY DEF Fresh, Blank, Lowered, Untouched
<1>3. \A p, q \in Pipe : Snapshot(p)[q] = 0
  BY <1>2, SnapshotParts
<1>4. \A e \in Event, id \in EventId : reg[e][id] = 0 /\ turns[e][id] = Unraised
  BY DEF Idle, Blank
<1>5. TicksOK /\ GranulesSeen /\ MarksOK /\ PairsOK
  BY <1>1, <1>2 DEF TicksOK, GranulesSeen, MarksOK, PairsOK
<1>6. RowsSeen
  BY <1>2, <1>3 DEF RowsSeen, Rows, IsRow
<1>7. TurnsOK
  <2> SUFFICES ASSUME NEW e \in Event, NEW id \in EventId
               PROVE  TurnsHold(reg[e][id], turns[e][id], Waited(e, id), Sets(e, id), Waits(e, id))
    BY DEF TurnsOK
  <2>1. Sets(e, id) = {} /\ Waits(e, id) = {}
    BY <1>1, SyncCoreAssumption DEF Sets, Waits
  <2>2. Waited(e, id) = 0
    BY <1>2, <1>4 DEF Waited, Unraised
  <2>3. TurnsHold(0, Unraised, 0, {}, {})
    BY DEF TurnsHold, Unraised, InTurn
  <2> QED
    BY <1>4, <2>1, <2>2, <2>3
<1>8. RowsBacked
  BY <1>1, <1>2, <1>3 DEF RowsBacked, Announced, Carried
<1> QED
  BY <1>5, <1>6, <1>7, <1>8 DEF OrderOK

LEMMA OrderOKStartAfter == Cleared' => OrderOK'
  BY OrderOKStart, PTL

LEMMA OrderOKIssue ==
  ASSUME PipesOK, PipesOK', HistoryOK, OrderOK, UNCHANGED reg, syncErrors' = 0,
         NEW i \in Instrs, Placed(i), Issues(i), Effect(i)
  PROVE  OrderOK'
<1>1. CoreTypeOK /\ CoreTypeOK'
  BY DEF PipesOK, RunOK, ProgressOK, BaseOK, CoreTypeOK
<1>2. TicksOK' /\ RowsSeen' /\ GranulesSeen'
  BY <1>1, TicksAfterIssue, RowsSeenAfterIssue, GranulesSeenAfterIssue DEF OrderOK
<1>3. TurnsOK' /\ RowsBacked'
  BY <1>1, TurnsAfterIssue, RowsBackedAfterIssue DEF OrderOK
<1>4. MarksOK' /\ PairsOK'
  BY <1>1, MarksAfterIssue, PairsAfterIssue DEF OrderOK
<1> QED
  BY <1>2, <1>3, <1>4 DEF OrderOK

LEMMA OrderOKPass ==
  ASSUME PipesOK, HistoryOK, OrderOK, NEW p \in Pipe,
         CompleteChecked(p) \/ RaiseChecked(p) \/ AwaitChecked(p)
  PROVE  OrderOK'
<1>1. Passes(p) /\ FifoOK /\ CoreTypeOK
  BY PassCases DEF PipesOK, RunOK, ProgressOK, BaseOK, CoreTypeOK
<1>2. TicksOK'
  BY <1>1, TicksAfterPass DEF OrderOK
<1>3. UNCHANGED <<clock, view, flags, gran>>
  BY <1>1 DEF Passes, coreVars
<1>4. RowsSeen' /\ GranulesSeen'
  BY <1>3, RowsUnchanged DEF OrderOK, RowsSeen, GranulesSeen
<1>5. TurnsOK'
  BY TurnsAfterComplete, TurnsAfterFlagOp DEF OrderOK
<1>6. RowsBacked'
  BY RowsBackedAfterPass DEF OrderOK
<1>7. MarksOK' /\ PairsOK'
  BY <1>1, MarksAndPairsAfterPass DEF OrderOK
<1> QED
  BY <1>2, <1>4, <1>5, <1>6, <1>7 DEF OrderOK

LEMMA OrderOKQuiet ==
  ASSUME FifoOK, HistoryOK, OrderOK, UNCHANGED <<clock, view, flags, gran, reg, fifo, history>>
  PROVE  OrderOK'
<1>1. Rows' = Rows
  BY RowsUnchanged
<1>2. \A p \in Pipe : Entries(p)' = Entries(p) /\ Snapshot(p)' = Snapshot(p)
  BY SnapshotsAlike DEF Entries, history
<1>3. \A e \in Event, id \in EventId :
        /\ Sets(e, id)' = Sets(e, id) /\ Waits(e, id)' = Waits(e, id)
        /\ Waited(e, id)' = Waited(e, id)
  BY <1>2, SyncCoreAssumption DEF Sets, Waits, Waited, SetOf, WaitOf, history
<1>4. TicksOK' /\ RowsSeen' /\ GranulesSeen'
  BY <1>1, <1>2 DEF OrderOK, TicksOK, RowsSeen, GranulesSeen, IsData, IsFlagOp, Before, history
<1>5. TurnsOK'
  BY <1>3 DEF OrderOK, TurnsOK, TurnsHold, InTurn, Before, history
<1>6. RowsBacked'
  <2>1. \A p, r \in Pipe : Announced(p, r)' 
    BY <1>2 DEF OrderOK, RowsBacked, Announced, history
  <2>2. \A e \in Event, id \in EventId, r \in Pipe : Carried(e, id, r)'
    BY <1>3 DEF OrderOK, RowsBacked, Carried, history
  <2>3. \A p, r \in Pipe : \A x \in Entries(p)' : Backed(p, x, r)'
    <3> SUFFICES ASSUME NEW p \in Pipe, NEW r \in Pipe, NEW x \in Entries(p)
                 PROVE  Backed(p, x, r)'
      BY <1>2
    <3>1. Backed(p, x, r)
      BY DEF OrderOK, RowsBacked
    <3>2. x.instr.op = "WaitFlag" => x.instr.evt \in Event /\ x.instr.id \in EventId
      BY EntryTyped, InstrKinds DEF FlagInstrs, IsFlagOp
    <3> QED
      BY <1>2, <1>3, <3>1, <3>2 DEF Backed, Before, IsData, IsFlagOp, history
  <2> QED
    BY <2>1, <2>2, <2>3 DEF RowsBacked
<1>7. MarksOK' /\ PairsOK'
  BY <1>1, <1>2 DEF OrderOK, MarksOK, Marked, PairsOK, Conflict, WriterCovers, Covers, Shared, Before,
                    Sources, Targets, IsFlagOp, history
<1> QED
  BY <1>4, <1>5, <1>6, <1>7 DEF OrderOK

LEMMA OrderStep ==
  ASSUME PipesOK, HistoryOK, Running => OrderOK, [CheckedNext]_checkedVars
  PROVE  Running' => OrderOK'
<1>1. PipesOK' /\ CoreTypeOK' /\ FifoOK
  BY CheckedStepIsStep, PipesOKStep DEF PipesOK, RunOK, BaseOK
<1>2. CASE IssueChecked
  <2> SUFFICES ASSUME Running' PROVE OrderOK'
    OBVIOUS
  <2>1. ~ destroyed /\ UNCHANGED reg /\ syncErrors' = 0
    BY <1>2, IssueCases DEF Running
  <2>2. CASE UNCHANGED <<history, fifo>> /\ syncErrors = 0 /\ Silent
    BY <1>1, <2>1, <2>2, OrderOKQuiet DEF Running, Silent
  <2>3. CASE \E i \in Instrs : Placed(i) /\ Issues(i) /\ syncErrors = 0 /\ Effect(i)
    BY <1>1, <2>1, <2>3, OrderOKIssue DEF Running
  <2> QED
    BY <1>2, <2>1, <2>2, <2>3, IssueCases
<1>3. CASE ReturnDrained \/ StartLaunch
  BY <1>3 DEF ReturnDrained, Return, Destroy, StartLaunch, NextLaunch, LaunchOver, pipeVars, Running
<1>4. CASE StartBlockChecked
  <2>1. /\ clock' = Fresh.clock /\ view' = Fresh.view /\ flags' = Fresh.flags /\ gran' = Fresh.gran
        /\ reg' = Idle.reg /\ over' = Blank.over /\ turns' = Blank.turns
    BY <1>4 DEF StartBlockChecked, StartBlock, NextBlock, NextKernel, KernelLaunch
  <2>2. \A p \in Pipe : fifo'[p] = <<>>
    BY <1>4 DEF PipesOK, DrainedAtEnd, Drained, Busy,
                StartBlockChecked, StartBlock, NextBlock, NextKernel
  <2>3. OrderOK'
    BY <1>1, <2>1, <2>2, OrderOKStartAfter DEF Cleared, Empty
  <2> QED
    BY <2>3
<1>5. ASSUME NEW p \in Pipe, Start(p), UNCHANGED history
      PROVE  Running' => OrderOK'
  BY <1>1, <1>5, OrderOKQuiet DEF Start, coreVars, pipeVars, Running
<1>6. ASSUME NEW p \in Pipe, CompleteChecked(p) \/ RaiseChecked(p) \/ AwaitChecked(p)
      PROVE  Running' => OrderOK'
  BY <1>6, PassCases, OrderOKPass DEF Running, Passes, coreVars
<1>7. CASE UNCHANGED <<vars, history>>
  BY <1>1, <1>7, OrderOKQuiet DEF vars, coreVars, pipeVars, hwVars, Running
<1> QED
  BY <1>2, <1>3, <1>4, <1>5, <1>6, <1>7 DEF CheckedNext, StartLaunchChecked, Finished, checkedVars

LEMMA OrderAlways == CheckedSpec => [](PipesOK /\ HistoryOK /\ (Running => OrderOK))
<1>1. CheckedInit => PipesOK /\ HistoryOK /\ OrderOK
  <2> SUFFICES ASSUME CheckedInit PROVE PipesOK /\ HistoryOK /\ OrderOK
    OBVIOUS
  <2>1. PipesOK /\ HistoryOK
    BY PipesOKInit, HistoryOKInit DEF CheckedInit
  <2>2. CoreTypeOK
    BY <2>1 DEF PipesOK, RunOK, ProgressOK, BaseOK, CoreTypeOK
  <2>3. /\ clock = Fresh.clock /\ view = Fresh.view /\ flags = Fresh.flags /\ gran = Fresh.gran
        /\ reg = Idle.reg /\ over = Blank.over /\ turns = Blank.turns
        /\ \A p \in Pipe : fifo[p] = <<>>
    BY DEF CheckedInit, Init, RunInit, CoreInit, HwInit, HistoryInit, Idle
  <2> QED
    BY <2>1, <2>2, <2>3, OrderOKStart DEF Cleared, Empty
<1>2. PipesOK /\ HistoryOK /\ (Running => OrderOK) /\ [CheckedNext]_checkedVars
        => (PipesOK /\ HistoryOK /\ (Running => OrderOK))'
  BY CheckedStepIsStep, PipesOKStep, HistoryOKStep, OrderStep
<1> QED
  BY <1>1, <1>2, PTL DEF CheckedSpec

\* An instruction that can start has waited for all those it may not overtake:
\* what they published is over, and an instruction that is over has left its pipe.
LEMMA OrderAtHead ==
  ASSUME PipesOK, HistoryOK, OrderOK, NEW p \in Pipe, Busy(p), ~ IsFlagOp(First(p)),
         NEW q \in Pipe, p # q,
         NEW h, h = FirstEntry(p), NEW x \in Entries(q), NEW g \in Granule, Before(x, h)
  PROVE  ~ Conflict(x, h, g)
<1> SUFFICES ASSUME Conflict(x, h, g) PROVE FALSE
  OBVIOUS
<1>1. FifoOK /\ CoreTypeOK
  BY DEF PipesOK, RunOK, ProgressOK, BaseOK, CoreTypeOK
<1>2. /\ h \in Entries(p) /\ h.instr = First(p)
      /\ \A y \in Entries(p) : ~ Before(y, h)
  BY <1>1, FirstIsOldest
<1>3. x.note.row[q] <= h.note.row[q]
  BY <1>1, <1>2 DEF OrderOK, PairsOK
<1>4. h.note.row[q] <= over[q]
  <2>1. Backed(p, h, q)
    BY <1>1, <1>2 DEF OrderOK, RowsBacked
  <2>2. h.instr.op # "WaitFlag"
    BY <1>1, <1>2 DEF IsFlagOp
  <2> QED
    BY <1>2, <2>1, <2>2 DEF Backed
<1>5. over[q] < x.note.row[q]
  <2>1. IsData(x)
    BY DEF Conflict, IsData, Sources, Targets
  <2> QED
    BY <2>1 DEF OrderOK, TicksOK
<1>6. over[q] \in Nat /\ x.note.row[q] \in Nat /\ h.note.row[q] \in Nat
  BY <1>1, <1>2, EntryTyped DEF HistoryOK, HistoryTyped
<1> QED
  BY <1>3, <1>4, <1>5, <1>6

LEMMA AcceptedOrder ==
  ASSUME PipesOK, HistoryOK, Running => OrderOK
  PROVE  AcceptedOrderIsKept
<1> SUFFICES ASSUME syncErrors = 0, NEW p \in inFlight, NEW q \in Pipe, p # q,
                    NEW n \in DOMAIN fifo[q], NEW g \in Granule, notes[q][n].at < notes[p][1].at
             PROVE  /\ g \in Targets(fifo[q][n]) => g \notin Sources(First(p)) \cup Targets(First(p))
                    /\ g \in Sources(fifo[q][n]) /\ g \in Targets(First(p)) => Shared(g)
  BY DEF AcceptedOrderIsKept
<1>1. p \in Pipe /\ Busy(p) /\ ~ IsFlagOp(First(p)) /\ FifoOK
  BY DEF PipesOK, FlightOK
<1>2. OrderOK
  BY <1>1 DEF PipesOK, DrainedAtEnd, Drained, Running
<1>3. PICK h : h = FirstEntry(p)
  OBVIOUS
<1>4. PICK x \in Entries(q) : x.instr = fifo[q][n] /\ x.note = notes[q][n]
  <2>1. Entry(fifo[q][n], notes[q][n]) \in Entries(q)
    BY DEF Entries
  <2> QED
    BY <2>1 DEF Entry
<1>5. h.instr = First(p) /\ h.note = notes[p][1]
  BY <1>1, <1>3, FirstIsOldest
<1>6. Before(x, h)
  BY <1>4, <1>5 DEF Before
<1>7. ~ Conflict(x, h, g)
  BY <1>1, <1>2, <1>3, <1>6, OrderAtHead
<1> QED
  BY <1>4, <1>5, <1>7 DEF Conflict

\* AcceptedOrderIsKept, for any main program, any kernels and any events: what
\* the clocks accept happens in order on the pipes.
THEOREM OrderIsKept == CheckedSpec => []AcceptedOrderIsKept
<1>1. PipesOK /\ HistoryOK /\ (Running => OrderOK) => AcceptedOrderIsKept
  BY AcceptedOrder
<1> QED
  BY <1>1, OrderAlways, PTL

-----------------------------------------------------------------------------
(* What the pipes compute.                                                 *)

Writers(g) == {x \in Pending : g \in Targets(x.instr)}

\* The writers of g that y comes after.
Earlier(g, y) == {x \in Writers(g) : Before(x, y)}

IsLatest(x, W) == x \in W /\ \A y \in W : ~ Before(x, y)

\* What x will leave in granule g: what it left in the simulator's.
Yields(x, g) ==
  Computed(x.instr, x.note.found, CHOOSE n \in DOMAIN x.instr.dst : x.instr.dst[n] = g)

HasStarted(x) == x.instr.pipe \in inFlight /\ x = FirstEntry(x.instr.pipe)

\* A granule holds what the simulator's does, or will when its last writer is done.
WrittenOK(g) ==
  /\ Writers(g) = {} => ub[g] = memory[g]
  /\ \A x \in Writers(g) : IsLatest(x, Writers(g)) => Yields(x, g) = memory[g]

\* An instruction finds what it found on the simulator, or will when the last
\* writer before it is done.
ReadOK(y, g) ==
  /\ Earlier(g, y) = {} =>
       /\ g \notin Targets(y.instr) \/ ~ HasStarted(y) => ub[g] = y.note.found[g]
       /\ HasStarted(y) => seen[y.instr.pipe][g] = y.note.found[g]
  /\ \A x \in Earlier(g, y) : IsLatest(x, Earlier(g, y)) => Yields(x, g) = y.note.found[g]

ValuesOK ==
  \A g \in Granule :
    WrittenOK(g) /\ \A y \in Pending : g \in Sources(y.instr) => ReadOK(y, g)

\* No granule was read by two pipes in this block.
Unshared == \A g \in Granule : ~ Shared(g)

SharedOK == ~ destroyed /\ ~ shared => Unshared

LEMMA SharedStep ==
  ASSUME PipesOK, SharedOK, [CheckedNext]_checkedVars
  PROVE  SharedOK'
<1>1. CASE IssueChecked
  <2>1. ~ destroyed
    BY <1>1, IssueCases
  <2>2. UNCHANGED history \/ \E i \in Instrs : Execute(i)
    BY <1>1, IssueCases DEF Issues
  <2> QED
    BY <2>1, <2>2 DEF SharedOK, Unshared, Shared, Execute, history
<1>2. CASE ReturnDrained \/ StartLaunch
  BY <1>2 DEF ReturnDrained, Return, Destroy, StartLaunch, NextLaunch, LaunchOver, pipeVars, SharedOK
<1>3. CASE StartBlockChecked
  BY <1>3 DEF StartBlockChecked, Blank, SharedOK, Unshared, Shared
<1>4. CASE UNCHANGED <<readers, shared, destroyed>>
  BY <1>4 DEF SharedOK, Unshared, Shared
<1>5. ASSUME NEW p \in Pipe, Start(p) /\ UNCHANGED history
      PROVE  UNCHANGED <<readers, shared, destroyed>>
  BY <1>5 DEF Start, pipeVars, history
<1>6. ASSUME NEW p \in Pipe, CompleteChecked(p) \/ RaiseChecked(p) \/ AwaitChecked(p)
      PROVE  UNCHANGED <<readers, shared, destroyed>>
  BY <1>6, PassCases DEF Passes, PassOver, pipeVars
<1>7. ASSUME UNCHANGED <<vars, history>>
      PROVE  UNCHANGED <<readers, shared, destroyed>>
  BY <1>7 DEF vars, pipeVars, history
<1> QED
  BY <1>1, <1>2, <1>3, <1>4, <1>5, <1>6, <1>7
     DEF CheckedNext, StartLaunchChecked, Finished, checkedVars

LEMMA PendingTyped ==
  ASSUME FifoOK, HistoryOK, NEW x \in Pending
  PROVE  /\ x \in Entries(x.instr.pipe) /\ x.instr.pipe \in Pipe
         /\ x.instr \in Instrs /\ Placed(x.instr)
         /\ Sources(x.instr) \subseteq Granule /\ Targets(x.instr) \subseteq Granule
<1>1. PICK p \in Pipe : x \in Entries(p)
  BY DEF Pending
<1> QED
  BY <1>1, EntryTyped, OperandGranules

\* Of two pending instructions one comes first.
LEMMA PendingApart ==
  ASSUME FifoOK, HistoryOK, NEW x \in Pending, NEW y \in Pending
  PROVE  /\ x = y \/ Before(x, y) \/ Before(y, x)
         /\ ~ (Before(x, y) /\ Before(y, x)) /\ ~ Before(x, x)
<1>1. x.note.at \in Nat /\ y.note.at \in Nat
  BY PendingTyped, EntryTyped
<1>2. x = y \/ Before(x, y) \/ Before(y, x)
  BY PendingTyped, EntriesApart
<1> QED
  BY <1>1, <1>2 DEF Before

\* Nothing that the first instruction of a pipe depends on is pending, and
\* nothing that depends on what it overwrites.
LEMMA NothingOvertaken ==
  ASSUME PipesOK, HistoryOK, OrderOK, Unshared, NEW p \in Pipe, Busy(p), ~ IsFlagOp(First(p)),
         NEW h, h = FirstEntry(p), NEW x \in Pending, NEW g \in Granule,
         \/ g \in Targets(x.instr) /\ g \in Sources(h.instr) \cup Targets(h.instr)
         \/ g \in Sources(x.instr) /\ g \in Targets(h.instr)
  PROVE  ~ Before(x, h)
<1>1. FifoOK
  BY DEF PipesOK
<1>2. x \in Entries(x.instr.pipe) /\ x.instr.pipe \in Pipe
  BY <1>1, PendingTyped
<1>3. CASE x.instr.pipe = p
  BY <1>1, <1>2, <1>3, FirstIsOldest
<1>4. CASE x.instr.pipe # p
  <2>1. Conflict(x, h, g)
    BY DEF Conflict, Unshared
  <2> QED
    BY <1>2, <1>4, <2>1, OrderAtHead
<1> QED
  BY <1>3, <1>4

\* An instruction that is issued joins those pending, and has not started.
LEMMA PendingAfterIssue ==
  ASSUME PipesOK, CoreTypeOK', HistoryOK, NEW i \in Instrs, Placed(i), Issues(i),
         UNCHANGED inFlight, NEW e, e = Entry(i, Note(i, i.pipe))
  PROVE  /\ Pending' = Pending \cup {e} /\ e.instr = i /\ e \notin Pending
         /\ \A x \in Pending : Before(x, e) /\ ~ Before(e, x)
         /\ ~ Before(e, e)
         /\ \A g \in Sources(i) : e.note.found[g] = memory[g]
         /\ ~ HasStarted(e)'
         /\ \A x \in Pending : HasStarted(x)' = HasStarted(x)
<1>1. PICK M : M = Snapshot(i.pipe)'
  OBVIOUS
<1>2. /\ i.pipe \in Pipe
      /\ Entries(i.pipe)' = Entries(i.pipe) \cup {e}
      /\ \A q \in Pipe \ {i.pipe} : Entries(q)' = Entries(q)
      /\ e.instr = i
      /\ \A g \in Sources(i) : e.note.found[g] = memory[g]
      /\ \A q \in Pipe : \A x \in Entries(q) : Before(x, e) /\ ~ Before(e, x)
      /\ ~ Before(e, e)
  BY <1>1, EntriesAfterIssue
<1>3. \A x \in Pending : Before(x, e) /\ ~ Before(e, x)
  BY <1>2 DEF Pending
<1>4. Pending' = Pending \cup {e}
  <2>1. ASSUME NEW x \in Pending' PROVE x \in Pending \cup {e}
    BY <1>2 DEF Pending
  <2>2. ASSUME NEW x \in Pending PROVE x \in Pending'
    BY <1>2 DEF Pending
  <2>3. e \in Pending'
    BY <1>2 DEF Pending
  <2> QED
    BY <2>1, <2>2, <2>3
<1>5. ASSUME NEW q \in Pipe, q \in inFlight
      PROVE  FirstEntry(q)' = FirstEntry(q) /\ FirstEntry(q) \in Entries(q)
  <2>1. Busy(q) /\ FifoOK
    BY <1>5 DEF PipesOK, FlightOK
  <2>2. FirstEntry(q) \in Entries(q)
    BY <2>1, FirstIsOldest, Zenon
  <2>3. /\ fifo[q] \in Seq(Instrs) /\ notes[q] \in Seq(Notes) /\ Len(notes[q]) = Len(fifo[q])
        /\ fifo[q] # <<>> /\ notes[q] # <<>>
    <3>1. /\ fifo[q] \in Seq(Instrs) /\ notes[q] \in Seq(Notes) /\ Len(notes[q]) = Len(fifo[q])
      BY <2>1, NoteDomains
    <3> QED
      BY <2>1, <3>1, EmptySeq DEF Busy
  <2>4. CASE q = i.pipe
    <3>1. fifo'[q] = Append(fifo[q], i) /\ notes'[q] = Append(notes[q], Note(i, q)) /\ Note(i, q) \in Notes
      BY <2>4, NotesAfterIssue, NoteTyped
    <3>2. Head(fifo'[q]) = Head(fifo[q])
      BY <2>3, <3>1
    <3>3. Head(notes'[q]) = Head(notes[q])
      BY <2>3, <3>1
    <3> QED
      BY <2>2, <3>2, <3>3 DEF FirstEntry, First
  <2>5. CASE q # i.pipe
    <3>1. fifo'[q] = fifo[q] /\ notes'[q] = notes[q]
      BY <2>5, NotesAfterIssue
    <3> QED
      BY <2>2, <3>1 DEF FirstEntry, First
  <2> QED
    BY <2>4, <2>5
<1>6. ~ HasStarted(e)'
  <2> SUFFICES ASSUME i.pipe \in inFlight, e = FirstEntry(i.pipe)' PROVE FALSE
    BY <1>2 DEF HasStarted
  <2> QED
    BY <1>2, <1>5
<1>7. ASSUME NEW x \in Pending
      PROVE  HasStarted(x)' = HasStarted(x)
  <2>1. x.instr.pipe \in Pipe
    BY PendingTyped DEF PipesOK
  <2> QED
    BY <1>5, <2>1 DEF HasStarted
<1> QED
  BY <1>2, <1>3, <1>4, <1>6, <1>7

LEMMA WritersAfterIssue ==
  ASSUME PipesOK, CoreTypeOK', HistoryOK, NEW i \in Instrs, Placed(i), Issues(i),
         UNCHANGED inFlight, NEW e, e = Entry(i, Note(i, i.pipe)), NEW g \in Granule
  PROVE  /\ g \in Targets(i) => Writers(g)' = Writers(g) \cup {e}
         /\ g \notin Targets(i) => Writers(g)' = Writers(g)
         /\ \A y \in Pending : Earlier(g, y)' = Earlier(g, y)
         /\ Earlier(g, e)' = Writers(g)
<1>1. /\ Pending' = Pending \cup {e} /\ e.instr = i /\ e \notin Pending
      /\ \A x \in Pending : Before(x, e) /\ ~ Before(e, x)
      /\ ~ Before(e, e)
  BY PendingAfterIssue
<1>2. Writers(g)' = {x \in Pending \cup {e} : g \in Targets(x.instr)}
  BY <1>1 DEF Writers, Targets, IsFlagOp
<1>3. /\ g \in Targets(i) => Writers(g)' = Writers(g) \cup {e}
      /\ g \notin Targets(i) => Writers(g)' = Writers(g)
  BY <1>1, <1>2 DEF Writers
<1>4. \A y : Earlier(g, y)' = {x \in Writers(g)' : Before(x, y)}
  BY DEF Earlier, Before
<1>5. \A y \in Pending : Earlier(g, y)' = Earlier(g, y)
  BY <1>1, <1>3, <1>4 DEF Earlier
<1>6. Earlier(g, e)' = Writers(g)
  <2>1. Writers(g) \subseteq Pending
    BY DEF Writers
  <2> QED
    BY <1>1, <1>3, <1>4, <2>1
<1> QED
  BY <1>3, <1>5, <1>6

\* What the simulator makes of an instruction is what it yields.
LEMMA MemoryAfterIssue ==
  ASSUME PipesOK, CoreTypeOK', HistoryOK, NEW i \in Instrs, Placed(i), Issues(i),
         UNCHANGED inFlight, NEW e, e = Entry(i, Note(i, i.pipe)), NEW g \in Granule
  PROVE  memory'[g] = IF g \in Targets(i) THEN Yields(e, g) ELSE memory[g]
<1>1. e.instr = i /\ \A a \in Sources(i) : e.note.found[a] = memory[a]
  BY PendingAfterIssue
<1>2. PICK n : n = CHOOSE m \in DOMAIN i.dst : i.dst[m] = g
  OBVIOUS
<1>3. memory'[g] = IF g \in Targets(i) THEN Computed(i, memory, n) ELSE memory[g]
  BY <1>2 DEF Issues, Execute, Stored
<1>4. g \in Targets(i) => Computed(i, memory, n) = Computed(i, e.note.found, n)
  <2> SUFFICES ASSUME g \in Targets(i) PROVE Computed(i, memory, n) = Computed(i, e.note.found, n)
    OBVIOUS
  <2>1. ~ IsFlagOp(i) /\ n \in DOMAIN i.dst
    BY <1>2 DEF Targets, Granules
  <2>2. PICK f, k : f = memory /\ k = e.note.found
    OBVIOUS
  <2>3. \A a \in Sources(i) : f[a] = k[a]
    BY <1>1, <2>2
  <2>4. Computed(i, f, n) = Computed(i, k, n)
    BY <2>1, <2>3, ComputedAgree
  <2> QED
    BY <2>2, <2>4
<1> QED
  BY <1>1, <1>2, <1>3, <1>4 DEF Yields

LEMMA ValuesAfterIssue ==
  ASSUME PipesOK, CoreTypeOK', HistoryOK, ValuesOK, NEW i \in Instrs, Placed(i), Issues(i),
         UNCHANGED <<inFlight, seen, ub>>
  PROVE  ValuesOK'
<1>1. PICK e : e = Entry(i, Note(i, i.pipe))
  OBVIOUS
<1>2. /\ Pending' = Pending \cup {e} /\ e.instr = i /\ e \notin Pending
      /\ \A x \in Pending : Before(x, e) /\ ~ Before(e, x)
      /\ ~ Before(e, e)
      /\ \A g \in Sources(i) : e.note.found[g] = memory[g]
      /\ ~ HasStarted(e)'
      /\ \A x \in Pending : HasStarted(x)' = HasStarted(x)
  BY <1>1, PendingAfterIssue
<1> SUFFICES ASSUME NEW g \in Granule
             PROVE  WrittenOK(g)' /\ \A y \in Pending' : g \in Sources(y.instr) => ReadOK(y, g)'
  BY DEF ValuesOK, Sources, IsFlagOp
<1>3. /\ g \in Targets(i) => Writers(g)' = Writers(g) \cup {e}
      /\ g \notin Targets(i) => Writers(g)' = Writers(g)
      /\ \A y \in Pending : Earlier(g, y)' = Earlier(g, y)
      /\ Earlier(g, e)' = Writers(g)
  BY <1>1, WritersAfterIssue
<1>4. memory'[g] = IF g \in Targets(i) THEN Yields(e, g) ELSE memory[g]
  BY <1>1, MemoryAfterIssue
<1>5. Writers(g) \subseteq Pending
  BY DEF Writers
<1>6. WrittenOK(g) /\ \A y \in Pending : g \in Sources(y.instr) => ReadOK(y, g)
  BY DEF ValuesOK
<1>7. WrittenOK(g)'
  <2>1. CASE g \in Targets(i)
    <3>1. ASSUME NEW x \in Writers(g)', IsLatest(x, Writers(g)')
          PROVE  x = e
      BY <1>2, <1>3, <1>5, <2>1, <3>1 DEF IsLatest
    <3> QED
      BY <1>3, <1>4, <2>1, <3>1 DEF WrittenOK, IsLatest, Before
  <2>2. CASE g \notin Targets(i)
    BY <1>3, <1>4, <1>6, <2>2 DEF WrittenOK, IsLatest, Before
  <2> QED
    BY <2>1, <2>2
<1>8. ASSUME NEW y \in Pending, g \in Sources(y.instr)
      PROVE  ReadOK(y, g)'
  <2>1. Earlier(g, y)' = Earlier(g, y) /\ HasStarted(y)' = HasStarted(y) /\ ReadOK(y, g)
    BY <1>2, <1>3, <1>6, <1>8
  <2> QED
    BY <2>1 DEF ReadOK, IsLatest, Before, Targets, IsFlagOp
<1>9. ASSUME g \in Sources(i)
      PROVE  ReadOK(e, g)'
  <2>1. e.note.found[g] = memory[g]
    BY <1>2, <1>9
  <2> QED
    BY <1>2, <1>3, <1>6, <2>1 DEF ReadOK, WrittenOK, IsLatest, Before
<1> QED
  BY <1>2, <1>7, <1>8, <1>9

LEMMA ValuesAfterStart ==
  ASSUME PipesOK, HistoryOK, OrderOK, Unshared, ValuesOK, NEW p \in Pipe, Start(p), UNCHANGED history
  PROVE  ValuesOK'
<1>1. PICK h, i : h = FirstEntry(p) /\ i = First(p)
  OBVIOUS
<1>2. Busy(p) /\ ~ IsFlagOp(First(p)) /\ p \notin inFlight /\ FifoOK
  BY DEF Start, PipesOK
<1>3. h \in Entries(p) /\ h.instr = i /\ h \in Pending /\ i.pipe = p
  BY <1>1, <1>2, FirstIsOldest, EntryTyped DEF Pending
<1>4. /\ \A q \in Pipe : Entries(q)' = Entries(q) /\ FirstEntry(q)' = FirstEntry(q)
      /\ Pending' = Pending
  BY DEF Start, Entries, Pending, FirstEntry, First, history
<1>5. \A g : Writers(g)' = Writers(g) /\ \A y : Earlier(g, y)' = Earlier(g, y)
  BY <1>4 DEF Writers, Earlier, Before, Targets, IsFlagOp
<1>6. HasStarted(h)' /\ ~ HasStarted(h)
  BY <1>1, <1>2, <1>3, <1>4 DEF HasStarted, Start
<1>7. ASSUME NEW y \in Pending, y # h
      PROVE  /\ HasStarted(y)' = HasStarted(y)
             /\ HasStarted(y) => y.instr.pipe # p /\ y.instr.pipe \in Pipe
  <2>1. y.instr.pipe \in Pipe
    BY <1>2, <1>7, PendingTyped
  <2> QED
    BY <1>1, <1>2, <1>4, <1>7, <2>1 DEF HasStarted, Start
<1>8. \A g \in Granule : ub'[g] = IF g \in Targets(i) THEN Junk ELSE ub[g]
  BY <1>1 DEF Start
<1>9. /\ \A g \in Sources(i) : seen'[p][g] = ub[g]
      /\ \A q \in Pipe \ {p} : seen'[q] = seen[q]
  BY <1>1 DEF Start, PipesOK, FlightOK
<1> SUFFICES ASSUME NEW g \in Granule
             PROVE  WrittenOK(g)' /\ \A y \in Pending : g \in Sources(y.instr) => ReadOK(y, g)'
  BY <1>4 DEF ValuesOK, Sources, IsFlagOp
<1>10. WrittenOK(g) /\ \A y \in Pending : g \in Sources(y.instr) => ReadOK(y, g)
  BY DEF ValuesOK
<1>11. WrittenOK(g)'
  <2>1. g \in Targets(i) => Writers(g) # {}
    BY <1>3 DEF Writers
  <2>2. memory' = memory
    BY DEF history
  <2> QED
    BY <1>5, <1>8, <1>10, <2>1, <2>2 DEF WrittenOK, IsLatest, Before
<1>12. ASSUME NEW y \in Pending, g \in Sources(y.instr)
       PROVE  ReadOK(y, g)'
  <2>1. ReadOK(y, g)
    BY <1>10, <1>12
  <2>2. CASE y = h
    <3>1. y.instr.pipe = p /\ y.instr = i
      BY <1>3, <2>2
    <3> QED
      BY <1>5, <1>6, <1>8, <1>9, <1>12, <2>1, <2>2, <3>1
         DEF ReadOK, IsLatest, Before, Sources, Targets, IsFlagOp
  <2>3. CASE y # h
    <3>1. Earlier(g, y) = {} => g \notin Targets(i)
      <4> SUFFICES ASSUME Earlier(g, y) = {}, g \in Targets(i) PROVE FALSE
        OBVIOUS
      <4>1. h \in Writers(g)
        BY <1>3 DEF Writers
      <4>2. ~ Before(h, y)
        BY <4>1 DEF Earlier
      <4>3. Before(y, h)
        BY <1>2, <1>3, <2>3, <4>2, PendingApart
      <4> QED
        BY <1>1, <1>2, <1>3, <1>12, <4>3, NothingOvertaken
    <3>2. HasStarted(y) => seen'[y.instr.pipe] = seen[y.instr.pipe]
      BY <1>7, <1>9, <2>3
    <3>3. HasStarted(y)' = HasStarted(y)
      BY <1>7, <2>3
    <3> QED
      BY <1>5, <1>8, <2>1, <3>1, <3>2, <3>3 DEF ReadOK, IsLatest, Before, Targets, IsFlagOp
  <2> QED
    BY <2>2, <2>3
<1> QED
  BY <1>11, <1>12

\* An instruction that is over is pending no longer.
LEMMA PendingAfterPass ==
  ASSUME PipesOK, HistoryOK, NEW p \in Pipe,
         CompleteChecked(p) \/ RaiseChecked(p) \/ AwaitChecked(p), NEW h, h = FirstEntry(p)
  PROVE  /\ h \in Pending /\ h.instr = First(p) /\ h.instr.pipe = p
         /\ Pending' = Pending \ {h}
         /\ \A g : Writers(g)' = Writers(g) \ {h}
         /\ \A g, y : Earlier(g, y)' = Earlier(g, y) \ {h}
         /\ \A y \in Pending \ {h} : HasStarted(y)' = HasStarted(y)
         /\ \A y \in Pending \ {h} : HasStarted(y) => y.instr.pipe \in Pipe \ {p}
<1>1. Passes(p) /\ FifoOK
  BY PassCases DEF PipesOK
<1>2. /\ Entries(p)' = Entries(p) \ {h}
      /\ \A q \in Pipe \ {p} : Entries(q)' = Entries(q)
      /\ h \in Entries(p) /\ h.instr = First(p)
  BY <1>1, EntriesAfterPass
<1>3. h.instr.pipe = p
  BY <1>1, <1>2, EntryTyped
<1>4. Pending' = Pending \ {h}
  <2>1. ASSUME NEW x \in Pending' PROVE x \in Pending \ {h}
    <3>1. PICK q \in Pipe : x \in Entries(q)'
      BY DEF Pending
    <3>2. CASE q = p
      BY <1>2, <3>1, <3>2 DEF Pending
    <3>3. CASE q # p
      <4>1. x \in Entries(q) /\ x.instr.pipe = q
        BY <1>1, <1>2, <3>1, <3>3, EntryTyped
      <4> QED
        BY <1>3, <3>3, <4>1 DEF Pending
    <3> QED
      BY <3>2, <3>3
  <2>2. ASSUME NEW x \in Pending, x # h PROVE x \in Pending'
    BY <1>2, <2>2 DEF Pending
  <2> QED
    BY <2>1, <2>2
<1>5. \A g : Writers(g)' = Writers(g) \ {h}
  <2> TAKE g
  <2>1. Writers(g)' = {x \in Pending' : g \in Targets(x.instr)}
    BY DEF Writers, Targets, IsFlagOp
  <2> QED
    BY <1>4, <2>1 DEF Writers
<1>6. \A g, y : Earlier(g, y)' = Earlier(g, y) \ {h}
  <2> TAKE g, y
  <2>1. Earlier(g, y)' = {x \in Writers(g)' : Before(x, y)}
    BY DEF Earlier, Before
  <2> QED
    BY <1>5, <2>1 DEF Earlier
<1>7. inFlight' = inFlight \ {p}
  BY DEF CompleteChecked, Complete, RaiseChecked, Raise, AwaitChecked, Await, PipesOK, FlightOK, IsFlagOp
<1>8. \A q \in Pipe \ {p} : FirstEntry(q)' = FirstEntry(q)
  <2>1. \A q \in Pipe \ {p} : fifo'[q] = fifo[q] /\ notes'[q] = notes[q]
    BY <1>1, NotesAfterPass
  <2> QED
    BY <2>1 DEF FirstEntry, First
<1>9. ASSUME NEW y \in Pending \ {h}
      PROVE  /\ HasStarted(y)' = HasStarted(y)
             /\ HasStarted(y) => y.instr.pipe \in Pipe \ {p}
  <2>1. y.instr.pipe \in Pipe
    BY <1>1, PendingTyped
  <2>2. CASE y.instr.pipe = p
    BY <1>7, <2>2 DEF HasStarted
  <2>3. CASE y.instr.pipe # p
    <3>1. FirstEntry(y.instr.pipe)' = FirstEntry(y.instr.pipe)
      BY <1>8, <2>1, <2>3
    <3> QED
      BY <1>7, <2>1, <2>3, <3>1 DEF HasStarted
  <2> QED
    BY <2>2, <2>3
<1> QED
  BY <1>2, <1>3, <1>4, <1>5, <1>6, <1>9 DEF Pending

LEMMA ValuesAfterFlagOp ==
  ASSUME PipesOK, HistoryOK, ValuesOK, NEW p \in Pipe, RaiseChecked(p) \/ AwaitChecked(p)
  PROVE  ValuesOK'
<1>1. PICK h : h = FirstEntry(p)
  OBVIOUS
<1>2. /\ h \in Pending /\ h.instr = First(p)
      /\ Pending' = Pending \ {h}
      /\ \A g : Writers(g)' = Writers(g) \ {h}
      /\ \A g, y : Earlier(g, y)' = Earlier(g, y) \ {h}
      /\ \A y \in Pending \ {h} : HasStarted(y)' = HasStarted(y)
  BY <1>1, PendingAfterPass
<1>3. IsFlagOp(h.instr) /\ UNCHANGED <<memory, ub, seen>>
  BY <1>2 DEF RaiseChecked, Raise, AwaitChecked, Await, PassOver, IsFlagOp
<1>4. \A g : h \notin Writers(g)
  BY <1>3 DEF Writers, Targets
<1>5. \A g : Writers(g)' = Writers(g) /\ \A y : Earlier(g, y)' = Earlier(g, y)
  BY <1>2, <1>4 DEF Earlier
<1>6. ASSUME NEW g \in Granule PROVE WrittenOK(g)'
  BY <1>3, <1>5 DEF ValuesOK, WrittenOK, IsLatest, Before
<1>7. ASSUME NEW g \in Granule, NEW y \in Pending', g \in Sources(y.instr) PROVE ReadOK(y, g)'
  <2>1. y \in Pending /\ HasStarted(y)' = HasStarted(y) /\ ReadOK(y, g)
    BY <1>2, <1>7 DEF ValuesOK
  <2> QED
    BY <1>3, <1>5, <2>1 DEF ReadOK, IsLatest, Before, Targets, IsFlagOp
<1> QED
  BY <1>6, <1>7 DEF ValuesOK, Sources, IsFlagOp

\* An instruction that is over has worked on what it worked on on the simulator.
LEMMA OperandsFound ==
  ASSUME PipesOK, HistoryOK, OrderOK, Unshared, ValuesOK, NEW p \in inFlight,
         NEW h, h = FirstEntry(p), NEW g \in Sources(h.instr)
  PROVE  Operands(p)[g] = h.note.found[g]
<1>1. p \in Pipe /\ Busy(p) /\ ~ IsFlagOp(First(p)) /\ FifoOK
  BY DEF PipesOK, FlightOK
<1>2. h \in Entries(p) /\ h.instr = First(p) /\ h \in Pending /\ h.instr.pipe = p /\ HasStarted(h)
  BY <1>1, FirstIsOldest, EntryTyped DEF Pending, HasStarted
<1>3. g \in Granule
  BY <1>1, <1>2, PendingTyped
<1>4. Earlier(g, h) = {}
  <2> SUFFICES ASSUME NEW x \in Earlier(g, h) PROVE FALSE
    OBVIOUS
  <2>1. x \in Pending /\ g \in Targets(x.instr) /\ Before(x, h)
    BY DEF Earlier, Writers
  <2> QED
    BY <1>1, <1>3, <2>1, NothingOvertaken
<1>5. ReadOK(h, g)
  BY <1>2, <1>3 DEF ValuesOK
<1>6. seen[p][g] = h.note.found[g] /\ (g \notin Targets(First(p)) => ub[g] = h.note.found[g])
  BY <1>2, <1>4, <1>5 DEF ReadOK
<1>7. g \in Sources(First(p))
  BY <1>2
<1> QED
  BY <1>6, <1>7 DEF Operands

LEMMA MemoryAfterComplete ==
  ASSUME PipesOK, HistoryOK, OrderOK, Unshared, ValuesOK, NEW p \in Pipe, CompleteChecked(p),
         NEW h, h = FirstEntry(p), NEW g \in Granule
  PROVE  ub'[g] = IF g \in Targets(h.instr) THEN Yields(h, g) ELSE ub[g]
<1>1. PICK i : i = First(p)
  OBVIOUS
<1>2. p \in inFlight /\ ~ IsFlagOp(i) /\ FifoOK /\ Busy(p)
  BY <1>1 DEF CompleteChecked, Complete, PipesOK, FlightOK
<1>3. h \in Entries(p) /\ h.instr = i /\ i \in Instrs /\ Placed(i)
  BY <1>1, <1>2, FirstIsOldest, EntryTyped
<1>4. PICK f, k : f = Operands(p) /\ k = h.note.found
  OBVIOUS
<1>5. \A a \in Sources(i) : f[a] = k[a]
  BY <1>2, <1>3, <1>4, OperandsFound
<1>6. PICK n : n = CHOOSE m \in DOMAIN i.dst : i.dst[m] = g
  OBVIOUS
<1>7. ub'[g] = IF g \in Targets(i) THEN Computed(i, f, n) ELSE ub[g]
  BY <1>1, <1>4, <1>6 DEF CompleteChecked, Complete, Stored
<1>8. g \in Targets(i) => n \in DOMAIN i.dst
  BY <1>2, <1>6 DEF Targets, Granules
<1>9. g \in Targets(i) => Computed(i, f, n) = Computed(i, k, n)
  BY <1>2, <1>3, <1>5, <1>8, ComputedAgree
<1> QED
  BY <1>3, <1>4, <1>6, <1>7, <1>9 DEF Yields

LEMMA ValuesAfterComplete ==
  ASSUME PipesOK, HistoryOK, OrderOK, Unshared, ValuesOK, NEW p \in Pipe, CompleteChecked(p)
  PROVE  ValuesOK'
<1>1. PICK h : h = FirstEntry(p)
  OBVIOUS
<1>2. Busy(p) /\ ~ IsFlagOp(First(p)) /\ FifoOK
  BY DEF CompleteChecked, Complete, PipesOK, FlightOK
<1>3. /\ h \in Pending /\ h.instr = First(p) /\ h.instr.pipe = p
      /\ Pending' = Pending \ {h}
      /\ \A g : Writers(g)' = Writers(g) \ {h}
      /\ \A g, y : Earlier(g, y)' = Earlier(g, y) \ {h}
      /\ \A y \in Pending \ {h} : HasStarted(y)' = HasStarted(y)
      /\ \A y \in Pending \ {h} : HasStarted(y) => y.instr.pipe \in Pipe \ {p}
  BY <1>1, PendingAfterPass
<1>4. UNCHANGED memory /\ \A q \in Pipe \ {p} : seen'[q] = seen[q]
  BY DEF CompleteChecked, PassOver, Complete, PipesOK, FlightOK
<1> SUFFICES ASSUME NEW g \in Granule
             PROVE  WrittenOK(g)' /\ \A y \in Pending' : g \in Sources(y.instr) => ReadOK(y, g)'
  BY DEF ValuesOK, Sources, IsFlagOp
<1>5. WrittenOK(g) /\ \A y \in Pending : g \in Sources(y.instr) => ReadOK(y, g)
  BY DEF ValuesOK
<1>6. ub'[g] = IF g \in Targets(h.instr) THEN Yields(h, g) ELSE ub[g]
  BY <1>1, MemoryAfterComplete
<1>7. Writers(g) \subseteq Pending /\ (h \in Writers(g) <=> g \in Targets(h.instr))
  BY <1>3 DEF Writers
<1>8. \* No other writer of g comes before h, if h writes it.
      g \in Targets(h.instr) => \A x \in Writers(g) : ~ Before(x, h)
  BY <1>1, <1>2, NothingOvertaken DEF Writers
<1>9. WrittenOK(g)'
  <2>1. CASE g \notin Targets(h.instr)
    <3>1. Writers(g)' = Writers(g)
      BY <1>3, <1>7, <2>1
    <3> QED
      BY <1>4, <1>5, <1>6, <2>1, <3>1 DEF WrittenOK, IsLatest, Before
  <2>2. CASE g \in Targets(h.instr)
    <3>1. Writers(g)' = {} => IsLatest(h, Writers(g))
      <4>1. Writers(g)' = {} => Writers(g) = {h}
        BY <1>3, <1>7, <2>2
      <4>2. ~ Before(h, h)
        BY <1>2, <1>3, PendingApart
      <4> QED
        BY <4>1, <4>2 DEF IsLatest
    <3>2. ASSUME NEW x \in Writers(g)', IsLatest(x, Writers(g)')
          PROVE  IsLatest(x, Writers(g))
      <4>1. ~ Before(x, h)
        BY <1>3, <1>8, <2>2
      <4> QED
        BY <1>3, <3>2, <4>1 DEF IsLatest
    <3>3. UNCHANGED <<memory[g], Yields(h, g)>>
      BY <1>4
    <3>4. Writers(g)' = {} => ub'[g] = memory'[g]
      BY <1>4, <1>5, <1>6, <1>7, <2>2, <3>1 DEF WrittenOK
    <3>5. ASSUME NEW x \in Writers(g)', IsLatest(x, Writers(g)')
          PROVE  Yields(x, g) = memory'[g]
      BY <1>3, <1>4, <1>5, <3>2, <3>5 DEF WrittenOK
    <3> QED
      BY <3>4, <3>5 DEF WrittenOK, IsLatest, Before
  <2> QED
    BY <2>1, <2>2
<1>10. ASSUME NEW y \in Pending', g \in Sources(y.instr)
       PROVE  ReadOK(y, g)'
  <2>1. y \in Pending /\ y # h /\ ReadOK(y, g) /\ HasStarted(y)' = HasStarted(y)
    BY <1>3, <1>5, <1>10
  <2>2. HasStarted(y) => seen'[y.instr.pipe] = seen[y.instr.pipe]
    BY <1>3, <1>4, <2>1
  <2>3. CASE g \notin Targets(h.instr)
    <3>1. Earlier(g, y)' = Earlier(g, y)
      BY <1>3, <1>7, <2>3 DEF Earlier
    <3> QED
      BY <1>6, <2>1, <2>2, <2>3, <3>1 DEF ReadOK, IsLatest, Before, Targets, IsFlagOp
  <2>4. CASE g \in Targets(h.instr)
    <3>1. Before(h, y)
      <4>1. ~ Before(y, h)
        BY <1>1, <1>2, <1>10, <2>1, <2>4, NothingOvertaken
      <4> QED
        BY <1>2, <1>3, <2>1, <4>1, PendingApart
    <3>2. ~ HasStarted(y)
      <4> SUFFICES ASSUME HasStarted(y) PROVE FALSE
        OBVIOUS
      <4>1. PICK q \in Pipe : q = y.instr.pipe /\ q \in inFlight /\ y = FirstEntry(q)
        BY <1>3, <2>1 DEF HasStarted
      <4>2. Busy(q) /\ ~ IsFlagOp(First(q))
        BY <4>1 DEF PipesOK, FlightOK
      <4> QED
        BY <1>3, <1>10, <2>4, <3>1, <4>1, <4>2, NothingOvertaken
    <3>3. h \in Earlier(g, y)
      BY <1>7, <2>4, <3>1 DEF Earlier
    <3>4. Earlier(g, y)' = {} => IsLatest(h, Earlier(g, y))
      <4>1. Earlier(g, y)' = {} => Earlier(g, y) = {h}
        BY <1>3, <3>3
      <4>2. ~ Before(h, h)
        BY <1>2, <1>3, PendingApart
      <4> QED
        BY <4>1, <4>2 DEF IsLatest
    <3>5. ASSUME NEW x \in Earlier(g, y)', IsLatest(x, Earlier(g, y)')
          PROVE  IsLatest(x, Earlier(g, y))
      <4>1. x \in Earlier(g, y) /\ ~ Before(x, h)
        BY <1>3, <1>8, <2>4 DEF Earlier
      <4> QED
        BY <1>3, <3>5, <4>1 DEF IsLatest
    <3>6. Earlier(g, y)' = {} => ub'[g] = y.note.found[g]
      BY <1>6, <2>1, <2>4, <3>3, <3>4 DEF ReadOK
    <3>7. ASSUME NEW x \in Earlier(g, y)', IsLatest(x, Earlier(g, y)')
          PROVE  Yields(x, g) = y.note.found[g]
      BY <1>3, <2>1, <3>5, <3>7 DEF ReadOK
    <3> QED
      BY <2>1, <3>2, <3>6, <3>7 DEF ReadOK, IsLatest, Before, Targets, IsFlagOp
  <2> QED
    BY <2>3, <2>4
<1> QED
  BY <1>3, <1>9, <1>10

LEMMA ValuesOKStart ==
  Empty /\ ub = memory => ValuesOK
<1> SUFFICES ASSUME Empty, ub = memory PROVE ValuesOK
  OBVIOUS
<1>1. \A p \in Pipe : Entries(p) = {}
  BY NoEntries
<1>2. Pending = {} /\ \A g : Writers(g) = {}
  BY <1>1 DEF Pending, Writers
<1> QED
  BY <1>2 DEF ValuesOK, WrittenOK

LEMMA ValuesOKStartAfter ==
  Empty' /\ (ub = memory)' => ValuesOK'
  BY ValuesOKStart, PTL

LEMMA ValuesOKQuiet ==
  ASSUME ValuesOK, UNCHANGED <<fifo, inFlight, seen, ub, history>>
  PROVE  ValuesOK'
<1>1. /\ \A p \in Pipe : Entries(p)' = Entries(p)
      /\ \A p : FirstEntry(p)' = FirstEntry(p)
  BY DEF Entries, FirstEntry, First, history
<1>2. Pending' = Pending /\ \A x : HasStarted(x)' = HasStarted(x)
  BY <1>1 DEF Pending, HasStarted
<1>3. \A g : Writers(g)' = Writers(g) /\ \A y : Earlier(g, y)' = Earlier(g, y)
  BY <1>2 DEF Writers, Earlier, Before, Targets, IsFlagOp
<1>4. memory' = memory
  BY DEF history
<1> QED
  BY <1>2, <1>3, <1>4 DEF ValuesOK, WrittenOK, ReadOK, IsLatest, Before, Sources, Targets, IsFlagOp

-----------------------------------------------------------------------------
(* The result in global memory.                                            *)

\* x is the copy out of element k.
Puts(x, k) == x.instr.op = "CopyOut" /\ k - x.instr.first \in DOMAIN x.instr.src0

Brings(x, k) == x.note.found[x.instr.src0[k - x.instr.first]]

Putters(k) == {x \in Pending : Puts(x, k)}

\* An element is what it is on the simulator, or will be when the last copy out
\* is done.
ResultOK ==
  \A k \in Index :
    /\ Putters(k) = {} => z[k] = result[k]
    /\ \A x \in Putters(k) : IsLatest(x, Putters(k)) => Brings(x, k) = result[k]

LEMMA ResultAfterIssue ==
  ASSUME PipesOK, CoreTypeOK', HistoryOK, ResultOK, NEW i \in Instrs, Placed(i), Issues(i),
         UNCHANGED <<launch, inFlight, z>>
  PROVE  ResultOK'
<1>1. PICK e : e = Entry(i, Note(i, i.pipe))
  OBVIOUS
<1>2. /\ Pending' = Pending \cup {e} /\ e.instr = i /\ e \notin Pending
      /\ \A x \in Pending : Before(x, e) /\ ~ Before(e, x)
      /\ ~ Before(e, e)
      /\ \A g \in Sources(i) : e.note.found[g] = memory[g]
  BY <1>1, PendingAfterIssue
<1>3. Index' = Index
  BY DEF Index, Launch
<1> SUFFICES ASSUME NEW k \in Index
             PROVE  /\ Putters(k)' = {} => z'[k] = result'[k]
                    /\ \A x \in Putters(k)' : IsLatest(x, Putters(k)') => Brings(x, k) = result'[k]
  BY <1>3 DEF ResultOK, IsLatest, Before
<1>4. Putters(k)' = {x \in Pending \cup {e} : Puts(x, k)}
  BY <1>2 DEF Putters, Puts
<1>5. result' = Delivered(i, memory, result)
  BY DEF Issues, Execute
<1>6. CASE Puts(e, k)
  <2>1. Putters(k)' = Putters(k) \cup {e}
    BY <1>2, <1>4, <1>6 DEF Putters
  <2>2. ASSUME NEW x \in Putters(k)', IsLatest(x, Putters(k)')
        PROVE  x = e
    BY <1>2, <2>1, <2>2 DEF IsLatest, Putters
  <2>3. PICK n : n = k - i.first
    OBVIOUS
  <2>4. i.op = "CopyOut" /\ n \in DOMAIN i.src0
    BY <1>2, <1>6, <2>3 DEF Puts
  <2>5. result'[k] = memory[i.src0[n]]
    BY <1>5, <2>3, <2>4 DEF Delivered
  <2>6. i.src0[n] \in Sources(i)
    BY <2>4 DEF Sources, IsFlagOp, Granules
  <2>7. Brings(e, k) = result'[k]
    BY <1>2, <2>3, <2>5, <2>6 DEF Brings
  <2> QED
    BY <2>1, <2>2, <2>7
<1>7. CASE ~ Puts(e, k)
  <2>1. Putters(k)' = Putters(k)
    BY <1>4, <1>7 DEF Putters
  <2>2. result'[k] = result[k]
    BY <1>2, <1>5, <1>7 DEF Delivered, Puts
  <2> QED
    BY <2>1, <2>2 DEF ResultOK
<1> QED
  BY <1>6, <1>7

LEMMA ResultAfterFlagOp ==
  ASSUME PipesOK, HistoryOK, ResultOK, NEW p \in Pipe, RaiseChecked(p) \/ AwaitChecked(p)
  PROVE  ResultOK'
<1>1. PICK h : h = FirstEntry(p)
  OBVIOUS
<1>2. h.instr = First(p) /\ Pending' = Pending \ {h}
  BY <1>1, PendingAfterPass
<1>3. h.instr.op # "CopyOut" /\ UNCHANGED <<result, z, launch>>
  BY <1>2 DEF RaiseChecked, Raise, AwaitChecked, Await, PassOver, runVars
<1>4. Index' = Index
  BY <1>3 DEF Index, Launch
<1>5. \A k : Putters(k)' = Putters(k)
  BY <1>2, <1>3 DEF Putters, Puts
<1> QED
  BY <1>3, <1>4, <1>5 DEF ResultOK, IsLatest, Before, Brings

\* What completing the first instruction of a pipe stores in global memory.
LEMMA CompleteDelivers ==
  ASSUME PipesOK, HistoryOK, OrderOK, Unshared, ValuesOK, NEW p \in Pipe, CompleteChecked(p),
         NEW h, h = FirstEntry(p), NEW k \in Index
  PROVE  /\ h \in Putters(k) => z'[k] = Brings(h, k)
         /\ h \notin Putters(k) => z'[k] = z[k]
<1>1. Busy(p) /\ ~ IsFlagOp(First(p)) /\ FifoOK /\ p \in inFlight
  BY DEF CompleteChecked, Complete, PipesOK, FlightOK
<1>2. h \in Pending /\ h.instr = First(p)
  BY PendingAfterPass
<1>3. z' = Delivered(h.instr, Operands(p), z)
  BY <1>2 DEF CompleteChecked, Complete
<1>4. CASE h \notin Putters(k)
  BY <1>2, <1>3, <1>4 DEF Delivered, Putters, Puts
<1>5. CASE h \in Putters(k)
  <2>1. PICK i, n : i = h.instr /\ n = k - i.first
    OBVIOUS
  <2>2. i.op = "CopyOut" /\ n \in DOMAIN i.src0
    BY <1>5, <2>1 DEF Putters, Puts
  <2>3. i.src0[n] \in Sources(i)
    BY <2>2 DEF Sources, IsFlagOp, Granules
  <2>4. z'[k] = Operands(p)[i.src0[n]]
    BY <1>3, <2>1, <2>2 DEF Delivered
  <2>5. z'[k] = Brings(h, k)
    BY <1>1, <2>1, <2>3, <2>4, OperandsFound DEF Brings
  <2> QED
    BY <1>5, <2>5
<1> QED
  BY <1>4, <1>5

LEMMA ResultAfterComplete ==
  ASSUME PipesOK, HistoryOK, OrderOK, Unshared, ValuesOK, ResultOK, NEW p \in Pipe, CompleteChecked(p)
  PROVE  ResultOK'
<1>1. PICK h : h = FirstEntry(p)
  OBVIOUS
<1>2. Busy(p) /\ FifoOK
  BY DEF CompleteChecked, Complete, PipesOK, FlightOK
<1>3. /\ h \in Pending /\ h.instr = First(p) /\ h.instr.pipe = p
      /\ Pending' = Pending \ {h}
  BY <1>1, PendingAfterPass
<1>4. UNCHANGED <<result, launch>>
  BY DEF CompleteChecked, PassOver, Complete, runVars
<1>5. Index' = Index
  BY <1>4 DEF Index, Launch
<1> SUFFICES ASSUME NEW k \in Index
             PROVE  /\ Putters(k)' = {} => z'[k] = result'[k]
                    /\ \A x \in Putters(k)' : IsLatest(x, Putters(k)') => Brings(x, k) = result'[k]
  BY <1>5 DEF ResultOK, IsLatest, Before
<1>6. Putters(k)' = Putters(k) \ {h}
  BY <1>3 DEF Putters, Puts
<1>7. /\ Putters(k) = {} => z[k] = result[k]
      /\ \A x \in Putters(k) : IsLatest(x, Putters(k)) => Brings(x, k) = result[k]
  BY DEF ResultOK
<1>8. CASE h \notin Putters(k)
  BY <1>1, <1>4, <1>6, <1>7, <1>8, CompleteDelivers
<1>9. CASE h \in Putters(k)
  <2>1. z'[k] = Brings(h, k)
    BY <1>1, <1>9, CompleteDelivers
  <2>2. ~ Before(h, h) /\ \A x \in Putters(k) : ~ Before(x, h)
    <3>1. ASSUME NEW x \in Putters(k) PROVE ~ Before(x, h)
      <4>1. x \in Pending /\ x.instr.op = "CopyOut" /\ h.instr.op = "CopyOut"
        BY <1>9 DEF Putters, Puts
      <4>2. x.instr.pipe = "MTE3" /\ p = "MTE3" /\ x \in Entries(x.instr.pipe)
        BY <1>2, <1>3, <4>1, PendingTyped DEF Placed
      <4> QED
        BY <1>1, <1>2, <4>2, FirstIsOldest
    <3> QED
      BY <1>9, <3>1
  <2>3. Putters(k)' = {} => IsLatest(h, Putters(k))
    BY <1>6, <1>9, <2>2 DEF IsLatest
  <2>4. ASSUME NEW x \in Putters(k)', IsLatest(x, Putters(k)')
        PROVE  IsLatest(x, Putters(k))
    BY <1>6, <2>2, <2>4 DEF IsLatest
  <2> QED
    BY <1>4, <1>6, <1>7, <1>9, <2>1, <2>3, <2>4
<1> QED
  BY <1>8, <1>9

LEMMA ResultOKQuiet ==
  ASSUME ResultOK, UNCHANGED <<result, z, launch>>, \A p \in Pipe : Entries(p)' = Entries(p)
  PROVE  ResultOK'
<1>1. \A k : Putters(k)' = Putters(k)
  BY DEF Putters, Puts, Pending
<1>2. Index' = Index
  BY DEF Index, Launch
<1> QED
  BY <1>1, <1>2 DEF ResultOK, IsLatest, Before, Brings

LEMMA ResultOKStart ==
  Empty /\ z = result => ResultOK
<1> SUFFICES ASSUME Empty, z = result PROVE ResultOK
  OBVIOUS
<1>1. \A p \in Pipe : Entries(p) = {}
  BY NoEntries
<1>2. Pending = {} /\ \A k : Putters(k) = {}
  BY <1>1 DEF Pending, Putters
<1> QED
  BY <1>2 DEF ResultOK

LEMMA ResultOKStartAfter ==
  Empty' /\ (z = result)' => ResultOK'
  BY ResultOKStart, PTL

-----------------------------------------------------------------------------
(* What the checker passes.                                                *)

SameOK ==
  syncErrors = 0 /\ ~ shared => (~ destroyed => ValuesOK) /\ ResultOK

\* The same instructions are pending.
LEMMA EntriesUnchanged ==
  ASSUME UNCHANGED <<fifo, history>>
  PROVE  \A p \in Pipe : Entries(p)' = Entries(p)
  BY DEF Entries, history

LEMMA SameAfterIssue ==
  ASSUME PipesOK, HistoryOK, SameOK, IssueChecked
  PROVE  SameOK'
<1> SUFFICES ASSUME syncErrors' = 0, ~ shared' PROVE ValuesOK' /\ ResultOK'
  BY DEF SameOK
<1>1. ~ destroyed /\ UNCHANGED <<launch, inFlight, seen, ub, z>> /\ PipesOK' /\ CoreTypeOK'
  BY IssueCases DEF PipesOK, RunOK, BaseOK
<1>2. CASE UNCHANGED <<history, fifo>> /\ syncErrors = 0
  <2>1. ValuesOK /\ ResultOK
    BY <1>1, <1>2 DEF SameOK, history
  <2>2. \A p \in Pipe : Entries(p)' = Entries(p)
    BY <1>2, EntriesUnchanged
  <2>3. UNCHANGED result
    BY <1>2 DEF history
  <2> QED
    BY <1>1, <1>2, <2>1, <2>2, <2>3, ValuesOKQuiet, ResultOKQuiet
<1>3. ASSUME NEW i \in Instrs, Placed(i), Issues(i), syncErrors = 0
      PROVE  ValuesOK' /\ ResultOK'
  <2>1. ~ shared
    BY <1>3 DEF Issues, Execute
  <2>2. ValuesOK /\ ResultOK
    BY <1>1, <1>3, <2>1 DEF SameOK
  <2> QED
    BY <1>1, <1>3, <2>2, ValuesAfterIssue, ResultAfterIssue
<1> QED
  BY <1>2, <1>3, IssueCases

LEMMA SameAfterPass ==
  ASSUME PipesOK, HistoryOK, Running => OrderOK, SharedOK, SameOK,
         NEW p \in Pipe, CompleteChecked(p) \/ RaiseChecked(p) \/ AwaitChecked(p)
  PROVE  SameOK'
<1>1. ~ destroyed /\ UNCHANGED <<syncErrors, shared>>
  BY PassCases DEF Passes, PassOver, coreVars
<1> SUFFICES ASSUME syncErrors = 0, ~ shared PROVE ValuesOK' /\ ResultOK'
  BY <1>1 DEF SameOK
<1>2. OrderOK /\ Unshared /\ ValuesOK /\ ResultOK
  BY <1>1 DEF SameOK, SharedOK, Running
<1>3. ValuesOK'
  BY <1>2, ValuesAfterComplete, ValuesAfterFlagOp
<1>4. ResultOK'
  BY <1>2, ResultAfterComplete, ResultAfterFlagOp
<1> QED
  BY <1>3, <1>4

LEMMA SameAfterStart ==
  ASSUME PipesOK, HistoryOK, Running => OrderOK, SharedOK, SameOK,
         NEW p \in Pipe, Start(p), UNCHANGED history
  PROVE  SameOK'
<1>1. ~ destroyed /\ UNCHANGED <<syncErrors, shared, result, z, launch, fifo>>
  BY DEF Start, PipesOK, DrainedAtEnd, Drained, coreVars, runVars, history
<1> SUFFICES ASSUME syncErrors = 0, ~ shared PROVE ValuesOK' /\ ResultOK'
  BY <1>1 DEF SameOK
<1>2. OrderOK /\ Unshared /\ ValuesOK /\ ResultOK
  BY <1>1 DEF SameOK, SharedOK, Running
<1> QED
  BY <1>1, <1>2, ValuesAfterStart, ResultOKQuiet, EntriesUnchanged

LEMMA SameAfterBlock ==
  ASSUME PipesOK, HistoryOK, SameOK, StartBlockChecked
  PROVE  SameOK'
<1>1. /\ destroyed /\ UNCHANGED <<syncErrors, shared, result, z, launch, fifo>>
      /\ ub' = Idle.ub /\ memory' = Idle.ub
  BY DEF StartBlockChecked, StartBlock, NextBlock, NextKernel, KernelLaunch
<1>2. Empty /\ Empty'
  BY <1>1 DEF PipesOK, DrainedAtEnd, Drained, Busy, Empty
<1>3. ValuesOK'
  BY <1>1, <1>2, ValuesOKStartAfter
<1>4. \A p \in Pipe : Entries(p) = {} /\ Entries(p)' = {}
  BY <1>2, NoEntries, NoEntriesAfter
<1>5. syncErrors = 0 /\ ~ shared => ResultOK'
  BY <1>1, <1>4, ResultOKQuiet DEF SameOK
<1> QED
  BY <1>1, <1>3, <1>5 DEF SameOK

\* A report at the end of a kernel is counted like any other.
LEMMA ReturnCounts ==
  ASSUME PipesOK, ReturnDrained, syncErrors' = 0
  PROVE  syncErrors = 0
<1>1. PICK n : n = Cardinality(Leaked)
  OBVIOUS
<1>2. ReportSyncErrors(n)
  BY <1>1 DEF ReturnDrained, Return, Destroy
<1>3. n \in Nat
  <2>1. Leaked \in SUBSET (0 .. (curBufSize - 1)) /\ curBufSize - 1 \in Int /\ 0 \in Int
    BY TPipeAssumption DEF Leaked, PipesOK, RunOK, BaseOK, PipeTypeOK
  <2>2. IsFiniteSet(Leaked)
    BY <2>1, FS_Interval, FS_Subset
  <2> QED
    BY <1>1, <2>2, FS_CardinalityType
<1> QED
  BY <1>2, <1>3, NothingReported DEF PipesOK

LEMMA SameStep ==
  ASSUME PipesOK, HistoryOK, Running => OrderOK, SharedOK, SameOK, [CheckedNext]_checkedVars
  PROVE  SameOK'
<1>1. CASE IssueChecked
  BY <1>1, SameAfterIssue
<1>2. CASE ReturnDrained /\ UNCHANGED history
  <2>1. destroyed' /\ UNCHANGED <<shared, result, z, launch, fifo>>
    BY <1>2 DEF ReturnDrained, Return, Destroy, hwVars, runVars, history
  <2>2. syncErrors' = 0 => syncErrors = 0
    BY <1>2, ReturnCounts
  <2> QED
    BY <1>2, <2>1, <2>2, ResultOKQuiet, EntriesUnchanged DEF SameOK
<1>3. CASE StartBlockChecked
  BY <1>3, SameAfterBlock
<1>4. CASE StartLaunchChecked
  <2>1. destroyed' /\ z' = result' /\ fifo' = fifo /\ destroyed
    BY <1>4 DEF StartLaunchChecked, StartLaunch, NextLaunch, LaunchOver, pipeVars
  <2>2. Empty'
    BY <2>1 DEF PipesOK, DrainedAtEnd, Drained, Busy, Empty
  <2> QED
    BY <2>1, <2>2, ResultOKStartAfter DEF SameOK
<1>5. ASSUME NEW p \in Pipe, Start(p), UNCHANGED history PROVE SameOK'
  BY <1>5, SameAfterStart
<1>6. ASSUME NEW p \in Pipe, CompleteChecked(p) \/ RaiseChecked(p) \/ AwaitChecked(p) PROVE SameOK'
  BY <1>6, SameAfterPass
<1>7. CASE UNCHANGED <<vars, history>>
  <2>1. UNCHANGED <<syncErrors, shared, destroyed, result, z, launch, fifo, inFlight, seen, ub, history>>
    BY <1>7 DEF vars, coreVars, pipeVars, hwVars, runVars, history
  <2> QED
    BY <2>1, ValuesOKQuiet, ResultOKQuiet, EntriesUnchanged DEF SameOK
<1> QED
  BY <1>1, <1>2, <1>3, <1>4, <1>5, <1>6, <1>7 DEF CheckedNext, Finished, checkedVars

LEMMA Same ==
  ASSUME PipesOK, HistoryOK, SameOK
  PROVE  SameAsSimulated
<1> SUFFICES ASSUME syncErrors = 0, ~ shared, Drained
             PROVE  z = result /\ (~ destroyed => ub = memory)
  BY DEF SameAsSimulated
<1>1. \A p \in Pipe : Entries(p) = {}
  BY NoEntries DEF Drained, Busy, Empty
<1>2. Pending = {}
  BY <1>1 DEF Pending
<1>3. z \in [Index -> Content] /\ result \in [Index -> Content]
  BY DEF PipesOK, DataOK, HistoryOK, HistoryTyped
<1>4. \A k \in Index : z[k] = result[k]
  BY <1>2 DEF SameOK, ResultOK, Putters
<1>5. ub \in [Granule -> Content] /\ memory \in [Granule -> Content]
  BY DEF PipesOK, DataOK, HistoryOK, HistoryTyped
<1>6. ~ destroyed => \A g \in Granule : ub[g] = memory[g]
  BY <1>2 DEF SameOK, ValuesOK, WrittenOK, Writers
<1> QED
  BY <1>3, <1>4, <1>5, <1>6

LEMMA SameAlways == CheckedSpec => [](SharedOK /\ SameOK)
<1>1. CheckedInit => SharedOK /\ SameOK
  <2> SUFFICES ASSUME CheckedInit PROVE SharedOK /\ SameOK
    OBVIOUS
  <2>1. Empty /\ ub = memory /\ z = result /\ readers = Blank.readers
    BY DEF CheckedInit, Init, HwInit, HistoryInit, Idle, Empty
  <2>2. SharedOK
    BY <2>1 DEF SharedOK, Unshared, Shared, Blank
  <2> QED
    BY <2>1, <2>2, ValuesOKStart, ResultOKStart DEF SameOK
<1>2. PipesOK /\ HistoryOK /\ (Running => OrderOK) /\ SharedOK /\ SameOK /\ [CheckedNext]_checkedVars
        => SharedOK' /\ SameOK'
  BY SharedStep, SameStep
<1> QED
  BY <1>1, <1>2, OrderAlways, PTL DEF CheckedSpec

\* SameAsSimulated, for any main program, any kernels and any events: what the
\* checker passes comes out of the pipes as it came out of the simulator.
THEOREM PassedIsComputed == CheckedSpec => []SameAsSimulated
<1>1. PipesOK /\ HistoryOK /\ SameOK => SameAsSimulated
  BY Same
<1> QED
  BY <1>1, OrderAlways, SameAlways, PTL

-----------------------------------------------------------------------------
(* From the simulator to the pipes.                                        *)

\* The simulator's memory holds something, be it junk.
MemoryFilled == \A g \in Granule : memory[g] # Unwritten

LEMMA MemoryFilledStep ==
  ASSUME PipesOK, MemoryFilled, [CheckedNext]_checkedVars
  PROVE  MemoryFilled'
<1>1. CASE UNCHANGED memory
  BY <1>1 DEF MemoryFilled
<1>2. CASE memory' = Idle.ub
  BY <1>2 DEF MemoryFilled, Idle, Junk, Unwritten
<1>3. ASSUME NEW i \in Instrs, Placed(i), Execute(i) PROVE MemoryFilled'
  <2> SUFFICES ASSUME NEW g \in Granule PROVE memory'[g] # Unwritten
    BY DEF MemoryFilled
  <2>1. memory' = Stored(i, memory, memory)
    BY <1>3 DEF Execute
  <2>2. PICK n : n = CHOOSE m \in DOMAIN i.dst : i.dst[m] = g
    OBVIOUS
  <2>3. memory'[g] = IF g \in Targets(i) THEN Computed(i, memory, n) ELSE memory[g]
    BY <2>1, <2>2 DEF Stored
  <2>4. ASSUME g \in Targets(i) PROVE Computed(i, memory, n) # Unwritten
    <3>1. ~ IsFlagOp(i) /\ g \in Granules(i.dst)
      BY <2>4 DEF Targets
    <3>2. i.op \in {"CopyIn", "Add"}
      BY <1>3, <3>1, InstrKinds, NoTileTyped DEF DataInstrs, Placed
    <3>3. \A a : X(a) # Unwritten /\ Y(a) # Unwritten /\ Sum(a) # Unwritten /\ Junk # Unwritten
      BY DEF X, Y, Sum, Junk, Unwritten
    <3> QED
      BY <3>2, <3>3 DEF Computed, Added
  <2> QED
    BY <2>3, <2>4 DEF MemoryFilled
<1>4. CASE IssueChecked
  <2>1. UNCHANGED history \/ \E i \in Instrs : Placed(i) /\ Issues(i)
    BY <1>4, IssueCases
  <2> QED
    BY <1>1, <1>3, <2>1 DEF Issues, history
<1> QED
  BY <1>1, <1>2, <1>4 DEF CheckedNext, CompleteChecked, RaiseChecked, AwaitChecked, PassOver,
     StartBlockChecked, StartLaunchChecked, history, checkedVars

\* What is in global memory is a sum, and so is all that is on its way there.
SumsOnly ==
  \A k \in Index : z[k] \in {Unwritten, Sum(k)} /\ \A x \in Putters(k) : Brings(x, k) = Sum(k)

LEMMA SumsAfterIssue ==
  ASSUME PipesOK, CoreTypeOK', HistoryOK, MemoryFilled, SumsOnly,
         NEW i \in Instrs, Placed(i), Issues(i), UNCHANGED <<launch, inFlight, z>>,
         \A k \in Index' : result'[k] \in {Unwritten, Sum(k)}
  PROVE  SumsOnly'
<1>1. PICK e : e = Entry(i, Note(i, i.pipe))
  OBVIOUS
<1>2. /\ Pending' = Pending \cup {e} /\ e.instr = i
      /\ \A g \in Sources(i) : e.note.found[g] = memory[g]
  BY <1>1, PendingAfterIssue
<1>3. Index' = Index
  BY DEF Index, Launch
<1> SUFFICES ASSUME NEW k \in Index, NEW x \in Putters(k)'
             PROVE  Brings(x, k) = Sum(k)
  BY <1>3 DEF SumsOnly, Brings
<1>4. x \in Pending \cup {e} /\ Puts(x, k)
  BY <1>2 DEF Putters, Puts
<1>5. CASE x \in Pending
  BY <1>4, <1>5 DEF SumsOnly, Putters
<1>6. CASE x = e
  <2>1. PICK n : n = k - i.first
    OBVIOUS
  <2>2. i.op = "CopyOut" /\ n \in DOMAIN i.src0
    BY <1>2, <1>4, <1>6, <2>1 DEF Puts
  <2>3. i.src0[n] \in Sources(i) /\ i.src0[n] \in Granule
    BY <2>2, OperandGranules DEF Sources, IsFlagOp, Granules
  <2>4. result'[k] = memory[i.src0[n]]
    BY <2>1, <2>2 DEF Delivered, Issues, Execute
  <2>5. Brings(x, k) = result'[k]
    BY <1>2, <1>6, <2>1, <2>3, <2>4 DEF Brings
  <2> QED
    BY <1>3, <2>3, <2>4, <2>5 DEF MemoryFilled
<1> QED
  BY <1>4, <1>5, <1>6

LEMMA SumsQuiet ==
  ASSUME SumsOnly, UNCHANGED <<z, launch>>, \A p \in Pipe : Entries(p)' = Entries(p)
  PROVE  SumsOnly'
<1>1. \A k : Putters(k)' = Putters(k)
  BY DEF Putters, Puts, Pending
<1>2. Index' = Index
  BY DEF Index, Launch
<1> QED
  BY <1>1, <1>2 DEF SumsOnly, Brings

LEMMA SumsAtStart ==
  Empty /\ (\A k \in Index : z[k] \in {Unwritten, Sum(k)}) => SumsOnly
<1> SUFFICES ASSUME Empty, \A k \in Index : z[k] \in {Unwritten, Sum(k)} PROVE SumsOnly
  OBVIOUS
<1>1. \A p \in Pipe : Entries(p) = {}
  BY NoEntries
<1>2. \A k : Putters(k) = {}
  BY <1>1 DEF Pending, Putters
<1> QED
  BY <1>2 DEF SumsOnly

LEMMA SumsAtStartAfter ==
  Empty' /\ (\A k \in Index : z[k] \in {Unwritten, Sum(k)})' => SumsOnly'
  BY SumsAtStart, PTL

LEMMA SumsAfterPass ==
  ASSUME PipesOK, HistoryOK, Running => OrderOK, SharedOK, SameOK, SumsOnly,
         syncErrors = 0, ~ shared,
         NEW p \in Pipe, CompleteChecked(p) \/ RaiseChecked(p) \/ AwaitChecked(p)
  PROVE  SumsOnly'
<1>1. ~ destroyed /\ UNCHANGED launch
  BY PassCases
<1>2. Index' = Index
  BY <1>1 DEF Index, Launch
<1>3. OrderOK /\ Unshared /\ ValuesOK
  BY <1>1 DEF SameOK, SharedOK, Running
<1>4. PICK h : h = FirstEntry(p)
  OBVIOUS
<1>5. h.instr = First(p) /\ Pending' = Pending \ {h}
  BY <1>4, PendingAfterPass
<1>6. \A k : Putters(k)' = Putters(k) \ {h}
  BY <1>5 DEF Putters, Puts
<1>7. ASSUME NEW k \in Index PROVE z'[k] \in {Unwritten, Sum(k)}
  <2>1. CASE CompleteChecked(p)
    BY <1>3, <1>4, <2>1, CompleteDelivers DEF SumsOnly
  <2>2. CASE RaiseChecked(p) \/ AwaitChecked(p)
    BY <2>2 DEF RaiseChecked, Raise, AwaitChecked, Await, SumsOnly
  <2> QED
    BY <2>1, <2>2
<1> QED
  BY <1>2, <1>6, <1>7 DEF SumsOnly, Brings

RightOK == MemoryFilled /\ (syncErrors = 0 => SumsOnly)

LEMMA RightStep ==
  ASSUME PipesOK, HistoryOK, Running => OrderOK, SharedOK, SameOK, RightOK, PipesOK',
         SimulatorIsRight, SimulatorIsRight', [CheckedNext]_checkedVars
  PROVE  RightOK'
<1>1. MemoryFilled /\ MemoryFilled'
  BY MemoryFilledStep DEF RightOK
<1> SUFFICES ASSUME syncErrors' = 0 PROVE SumsOnly'
  BY <1>1 DEF RightOK
<1>2. CASE IssueChecked
  <2>1. UNCHANGED <<launch, inFlight, z>> /\ CoreTypeOK'
    BY <1>2, IssueCases DEF PipesOK, RunOK, BaseOK
  <2>2. CASE UNCHANGED <<history, fifo>> /\ syncErrors = 0
    BY <2>1, <2>2, SumsQuiet, EntriesUnchanged DEF RightOK
  <2>3. ASSUME NEW i \in Instrs, Placed(i), Issues(i), syncErrors = 0 PROVE SumsOnly'
    <3>1. \A k \in Index' : result'[k] \in {Unwritten, Sum(k)}
      BY DEF SimulatorIsRight, Sum
    <3> QED
      BY <1>1, <2>1, <2>3, <3>1, SumsAfterIssue DEF RightOK
  <2> QED
    BY <1>2, <2>2, <2>3, IssueCases
<1>3. CASE ReturnDrained /\ UNCHANGED history
  <2>1. UNCHANGED <<z, launch, fifo>> /\ syncErrors = 0
    BY <1>3, ReturnCounts DEF ReturnDrained, Return, hwVars, runVars
  <2> QED
    BY <1>3, <2>1, SumsQuiet, EntriesUnchanged DEF RightOK
<1>4. CASE StartBlockChecked
  <2>1. destroyed /\ UNCHANGED <<syncErrors, z, launch, fifo>>
    BY <1>4 DEF StartBlockChecked, StartBlock, NextBlock, NextKernel, KernelLaunch
  <2>2. Empty /\ Empty'
    BY <2>1 DEF PipesOK, DrainedAtEnd, Drained, Busy, Empty
  <2>3. \A p \in Pipe : Entries(p) = {} /\ Entries(p)' = {}
    BY <2>2, NoEntries, NoEntriesAfter
  <2> QED
    BY <2>1, <2>3, SumsQuiet DEF RightOK
<1>5. CASE StartLaunchChecked
  <2>1. /\ destroyed /\ fifo' = fifo
        /\ z' = [i \in 0 .. (Main[launch + 1].length - 1) |-> Unwritten]
    BY <1>5 DEF StartLaunchChecked, StartLaunch, NextLaunch, LaunchOver
  <2>2. Empty'
    BY <2>1 DEF PipesOK, DrainedAtEnd, Drained, Busy, Empty
  <2>3. DOMAIN z' = Index'
    BY DEF PipesOK, DataOK
  <2>4. \A k \in Index' : z'[k] = Unwritten
    BY <2>1, <2>3
  <2> QED
    BY <2>2, <2>4, SumsAtStartAfter
<1>6. ASSUME NEW p \in Pipe, Start(p), UNCHANGED history PROVE SumsOnly'
  <2>1. UNCHANGED <<syncErrors, z, launch, fifo>>
    BY <1>6 DEF Start, coreVars, runVars
  <2> QED
    BY <1>6, <2>1, SumsQuiet, EntriesUnchanged DEF RightOK
<1>7. ASSUME NEW p \in Pipe, CompleteChecked(p) \/ RaiseChecked(p) \/ AwaitChecked(p) PROVE SumsOnly'
  <2>1. syncErrors = 0
    BY <1>7, PassCases DEF Passes, coreVars
  <2>2. ~ shared
    BY <2>1 DEF SimulatorIsRight
  <2> QED
    BY <1>7, <2>1, <2>2, SumsAfterPass DEF RightOK
<1>8. CASE UNCHANGED <<vars, history>>
  <2>1. UNCHANGED <<syncErrors, z, launch, fifo, history>>
    BY <1>8 DEF vars, coreVars, hwVars, runVars
  <2> QED
    BY <2>1, SumsQuiet, EntriesUnchanged DEF RightOK
<1> QED
  BY <1>2, <1>3, <1>4, <1>5, <1>6, <1>7, <1>8 DEF CheckedNext, Finished, checkedVars

LEMMA RightAlways == CheckedSpec /\ []SimulatorIsRight => []RightOK
<1>1. CheckedInit => RightOK
  <2> SUFFICES ASSUME CheckedInit PROVE RightOK
    OBVIOUS
  <2>1. Empty /\ memory = Idle.ub /\ z = [i \in Index |-> Unwritten]
    BY DEF CheckedInit, Init, HwInit, HistoryInit, Idle, Empty
  <2>2. MemoryFilled
    BY <2>1 DEF MemoryFilled, Idle, Junk, Unwritten
  <2> QED
    BY <2>1, <2>2, SumsAtStart DEF RightOK
<1>2. /\ PipesOK /\ HistoryOK /\ (Running => OrderOK) /\ SharedOK /\ SameOK /\ RightOK /\ PipesOK'
      /\ SimulatorIsRight /\ SimulatorIsRight' /\ [CheckedNext]_checkedVars
      => RightOK'
  BY RightStep
<1> QED
  BY <1>1, <1>2, OrderAlways, SameAlways, PTL DEF CheckedSpec

\* WrongResultsAreReported, for any main program that is right on the simulator:
\* a test that passes there, without a report, is one no order of the pipes fails.
THEOREM RightOnThePipes ==
  CheckedSpec /\ []SimulatorIsRight => []WrongResultsAreReported
<1>1. PipesOK /\ RightOK => WrongResultsAreReported
  <2> SUFFICES ASSUME PipesOK, RightOK, NEW i \in Index, z[i] \notin {Unwritten, Sum(i)}
               PROVE  syncErrors > 0
    BY DEF WrongResultsAreReported
  <2>1. syncErrors # 0
    BY DEF RightOK, SumsOnly
  <2>2. syncErrors \in Nat
    BY DEF PipesOK, RunOK, BaseOK, CoreTypeOK
  <2> QED
    BY <2>1, <2>2
<1> QED
  BY <1>1, OrderAlways, RightAlways, PTL

-----------------------------------------------------------------------------
(* The sum.                                                                *)

LEMMA SumInit == CheckedInit => Promise!Init
<1> SUFFICES ASSUME CheckedInit PROVE Promise!Init
  OBVIOUS
<1>1. launch = 1 /\ z = [i \in Index |-> Unwritten]
  BY DEF CheckedInit, Init, RunInit, HwInit
<1>2. Launches[1].length = Lengths[1]
  BY KernelRunAssumption DEF Lengths, Launches
<1> QED
  BY <1>1, <1>2 DEF Promise!Init, Promise!Blank, Index, Launch

\* Completing an instruction stores sums in places nothing was stored to.
LEMMA SumAfterComplete ==
  ASSUME PipesOK, PipesOK', HistoryOK, Running => OrderOK, SharedOK, SameOK, RightOK,
         SimulatorIsRight, NEW p \in Pipe, CompleteChecked(p)
  PROVE  [Promise!Next]_(Promise!vars)
<1>1. ~ destroyed /\ UNCHANGED launch
  BY PassCases
<1>2. Index' = Index
  BY <1>1 DEF Index, Launch
<1>3. z \in [Index -> Content] /\ z' \in [Index -> Content]
  BY <1>2 DEF PipesOK, DataOK
<1>4. CASE launch \notin Unreported
  BY <1>1, <1>3, <1>4 DEF Promise!Next, Promise!Spoil
<1>5. CASE launch \in Unreported
  <2>1. syncErrors = 0 /\ ~ shared
    BY <1>5 DEF SimulatorIsRight
  <2>2. OrderOK /\ Unshared /\ ValuesOK /\ SumsOnly
    BY <1>1, <2>1 DEF SameOK, SharedOK, Running, RightOK
  <2>3. PICK h : h = FirstEntry(p)
    OBVIOUS
  <2>4. PICK S : S = {k \in Index : h \in Putters(k) /\ z[k] = Unwritten}
    OBVIOUS
  <2>5. ASSUME NEW k \in Index PROVE z'[k] = IF k \in S THEN Sum(k) ELSE z[k]
    <3>1. h \in Putters(k) => z'[k] = Sum(k)
      BY <2>2, <2>3, CompleteDelivers DEF SumsOnly
    <3>2. h \notin Putters(k) => z'[k] = z[k]
      BY <2>2, <2>3, CompleteDelivers
    <3>3. z[k] = Unwritten \/ z[k] = Sum(k)
      BY <2>2 DEF SumsOnly
    <3> QED
      BY <2>4, <3>1, <3>2, <3>3
  <2>6. z' = [k \in DOMAIN z |-> IF k \in S THEN Sum(k) ELSE z[k]]
    BY <1>3, <2>5
  <2>7. CASE S = {}
    <3>1. z' = z
      BY <1>3, <2>6, <2>7
    <3> QED
      BY <1>1, <3>1 DEF Promise!vars
  <2>8. CASE S # {}
    <3>1. S \in (SUBSET Promise!Pending) \ {{}}
      BY <1>3, <2>4, <2>8 DEF Promise!Pending
    <3> QED
      BY <1>1, <2>6, <3>1 DEF Promise!Next, Promise!Store
  <2> QED
    BY <2>7, <2>8
<1> QED
  BY <1>4, <1>5

\* The next launch begins when every element of a trusted one is stored.
LEMMA SumAfterLaunch ==
  ASSUME PipesOK, PipesOK', HistoryOK, SameOK, SimulatorIsRight, StartLaunchChecked
  PROVE  Promise!Next
<1>1. /\ LaunchOver /\ destroyed /\ launch < Len(Main) /\ launch' = launch + 1
      /\ z' = [i \in 0 .. (Main[launch + 1].length - 1) |-> Unwritten]
  BY DEF StartLaunchChecked, StartLaunch, NextLaunch, LaunchOver
<1>2. launch \in DOMAIN Main /\ launch' \in DOMAIN Main
  BY DEF PipesOK, RunOK, ProgressOK
<1>3. DOMAIN Lengths = DOMAIN Main /\ Lengths[launch'] = Main[launch + 1].length
  BY <1>1, <1>2 DEF Lengths, Launches
<1>4. z' = Promise!Blank(launch')
  BY <1>1, <1>3 DEF Promise!Blank
<1>5. ASSUME launch \in Unreported PROVE Promise!Pending = {}
  <2>1. syncErrors = 0 /\ ~ shared /\ \A i \in Index : result[i] = Sum(i)
    BY <1>1, <1>5 DEF SimulatorIsRight
  <2>2. Drained
    BY <1>1 DEF PipesOK, DrainedAtEnd
  <2>3. z = result
    BY <2>1, <2>2, Same DEF SameAsSimulated
  <2>4. DOMAIN z = Index
    BY DEF PipesOK, DataOK
  <2>5. \A i : Sum(i) # Unwritten
    BY DEF Sum, Unwritten
  <2> QED
    BY <2>1, <2>3, <2>4, <2>5 DEF Promise!Pending
<1> QED
  BY <1>1, <1>2, <1>3, <1>4, <1>5 DEF Promise!Next, Promise!Relaunch

LEMMA SumStep ==
  ASSUME PipesOK, PipesOK', HistoryOK, Running => OrderOK, SharedOK, SameOK, RightOK,
         SimulatorIsRight, [CheckedNext]_checkedVars
  PROVE  [Promise!Next]_(Promise!vars)
<1>1. CASE UNCHANGED <<launch, z>>
  BY <1>1 DEF Promise!vars
<1>2. CASE IssueChecked
  BY <1>1, <1>2, IssueCases
<1>3. CASE ReturnDrained
  BY <1>1, <1>3 DEF ReturnDrained, Return, runVars, hwVars
<1>4. CASE StartBlockChecked
  BY <1>1, <1>4 DEF StartBlockChecked, StartBlock, NextBlock
<1>5. CASE StartLaunchChecked
  BY <1>5, SumAfterLaunch
<1>6. ASSUME NEW p \in Pipe, Start(p) \/ Raise(p) \/ Await(p) PROVE UNCHANGED <<launch, z>>
  BY <1>6 DEF Start, Raise, Await, runVars
<1>7. ASSUME NEW p \in Pipe, CompleteChecked(p) PROVE [Promise!Next]_(Promise!vars)
  BY <1>7, SumAfterComplete
<1>8. CASE UNCHANGED vars
  BY <1>1, <1>8 DEF vars, runVars, hwVars
<1> QED
  BY <1>1, <1>2, <1>3, <1>4, <1>5, <1>6, <1>7, <1>8
  DEF CheckedNext, RaiseChecked, AwaitChecked, Finished, checkedVars

\* The safety half of ComputesTheSum, for any main program that is right on the
\* simulator: every step of the pipes stores sums, each in a place of its own,
\* or nothing, and a launch without a report has all of them when the next begins.
THEOREM SumOnThePipes ==
  CheckedSpec /\ []SimulatorIsRight => Promise!Init /\ [][Promise!Next]_(Promise!vars)
<1>1. /\ PipesOK /\ PipesOK' /\ HistoryOK /\ (Running => OrderOK) /\ SharedOK /\ SameOK /\ RightOK
      /\ SimulatorIsRight /\ [CheckedNext]_checkedVars
      => [Promise!Next]_(Promise!vars)
  BY SumStep
<1> QED
  BY <1>1, SumInit, OrderAlways, SameAlways, RightAlways, PTL DEF CheckedSpec

-----------------------------------------------------------------------------
(* The pipes go on.                                                        *)

\* S, W: the raises and waits of a flag that are pending.  The last raise issued
\* is done or pending, the pending ones come in turn, and the raise that a wait
\* awaits is done, or pending and before it.
Answered(t, S, W) ==
  /\ t.done = t.issued \/ \E y \in S : y.note.turn = t.issued
  /\ \A x \in S : \/ x.note.turn = t.done + 1
                  \/ \E y \in S : Before(y, x) /\ y.note.turn + 1 = x.note.turn
  /\ \A x \in W : x.note.turn <= t.done \/ \E y \in S : y.note.turn = x.note.turn /\ Before(y, x)

FlagsAnswered ==
  \A e \in Event, id \in EventId : Answered(turns[e][id], Sets(e, id), Waits(e, id))

LEMMA AnsweredAfterSet ==
  ASSUME NEW t, NEW u, NEW S, NEW W, Answered(t, S, W),
         u.done = t.done, u.issued = t.issued + 1,
         NEW e, e.note.turn = u.issued, \A y \in S : Before(y, e)
  PROVE  Answered(u, S \cup {e}, W)
<1>1. \E y \in S \cup {e} : y.note.turn = u.issued
  OBVIOUS
<1>2. ASSUME NEW x \in W
      PROVE  \/ x.note.turn <= u.done
             \/ \E y \in S \cup {e} : y.note.turn = x.note.turn /\ Before(y, x)
  BY DEF Answered
<1>3. \/ e.note.turn = u.done + 1
      \/ \E y \in S \cup {e} : Before(y, e) /\ y.note.turn + 1 = e.note.turn
  BY DEF Answered
<1>4. ASSUME NEW x \in S
      PROVE  \/ x.note.turn = u.done + 1
             \/ \E y \in S \cup {e} : Before(y, x) /\ y.note.turn + 1 = x.note.turn
  BY DEF Answered
<1> QED
  BY <1>1, <1>2, <1>3, <1>4 DEF Answered

LEMMA AnsweredAfterWait ==
  ASSUME NEW t \in Turns, NEW S, NEW W, Answered(t, S, W),
         NEW e, e.note.turn = t.issued, \A y \in S : Before(y, e)
  PROVE  Answered(t, S, W \cup {e})
<1>1. e.note.turn <= t.done \/ \E y \in S : y.note.turn = e.note.turn /\ Before(y, e)
  <2>1. t.done \in Nat /\ t.issued \in Nat
    BY DEF Turns
  <2> QED
    BY <2>1 DEF Answered
<1> QED
  BY <1>1 DEF Answered

LEMMA AnsweredAfterRaise ==
  ASSUME NEW t \in Turns, NEW u, NEW S, NEW W, Answered(t, S, W),
         NEW h \in S, h.note.turn \in Nat, t.done < h.note.turn, h.note.turn <= t.issued,
         \A x \in W : x.note.turn \in Nat,
         \A x \in S : ~ Before(x, h) /\ (x = h \/ Before(h, x)), InTurn(S),
         u.issued = t.issued, u.done = h.note.turn
  PROVE  Answered(u, S \ {h}, W)
<1>1. PICK d \in Nat, i \in Nat, k \in Nat : d = t.done /\ i = t.issued /\ k = h.note.turn
  BY DEF Turns
<1>2. k = i \/ \E y \in S \ {h} : y.note.turn = i
  <2>1. d # i
    BY <1>1
  <2>2. PICK y \in S : y.note.turn = i
    BY <1>1, <2>1 DEF Answered
  <2> QED
    BY <1>1, <2>2
<1>3. ASSUME NEW x \in W
      PROVE  x.note.turn <= k \/ \E y \in S \ {h} : y.note.turn = x.note.turn /\ Before(y, x)
  <2>1. x.note.turn <= d \/ \E y \in S : y.note.turn = x.note.turn /\ Before(y, x)
    BY <1>1 DEF Answered
  <2>2. x.note.turn <= d => x.note.turn <= k
    BY <1>1
  <2>3. ASSUME NEW y \in S, y.note.turn = x.note.turn, Before(y, x)
        PROVE  x.note.turn <= k \/ y \in S \ {h}
    BY <1>1, <2>3
  <2> QED
    BY <2>1, <2>2, <2>3
<1>4. ASSUME NEW x \in S \ {h}
      PROVE  \/ x.note.turn = k + 1
             \/ \E y \in S \ {h} : Before(y, x) /\ y.note.turn + 1 = x.note.turn
  <2>1. k = d + 1
    BY <1>1 DEF Answered
  <2>2. x.note.turn # d + 1
    <3>1. h.note.turn < x.note.turn
      BY DEF InTurn
    <3> QED
      BY <1>1, <2>1, <3>1
  <2>3. PICK y \in S : Before(y, x) /\ y.note.turn + 1 = x.note.turn
    BY <1>1, <2>2 DEF Answered
  <2> QED
    BY <1>1, <2>3
<1> QED
  BY <1>1, <1>2, <1>3, <1>4 DEF Answered

LEMMA AnsweredAfterAwait ==
  ASSUME NEW t, NEW u, NEW S, NEW W, Answered(t, S, W), NEW h,
         u.issued = t.issued, u.done = t.done
  PROVE  Answered(u, S, W \ {h})
  BY DEF Answered

LEMMA AnsweredAfterIssue ==
  ASSUME PipesOK, CoreTypeOK', HistoryOK, FlagsAnswered,
         NEW i \in Instrs, Placed(i), Issues(i), Effect(i)
  PROVE  FlagsAnswered'
<1>1. PICK n : n = Entry(i, Note(i, i.pipe))
  OBVIOUS
<1>2. FifoOK
  BY DEF PipesOK
<1>3. /\ n.instr = i
      /\ \A q \in Pipe : \A x \in Entries(q) : Before(x, n)
  BY <1>1, EntriesAfterIssue
<1>4. turns' = IF i.op = "SetFlag" THEN [turns EXCEPT ![i.evt][i.id].issued = @ + 1] ELSE turns
  BY DEF Issues, Execute
<1>5. turns \in [Event -> [EventId -> Turns]]
  BY DEF HistoryOK, HistoryTyped
<1> SUFFICES ASSUME NEW e \in Event, NEW id \in EventId
             PROVE  Answered(turns'[e][id], Sets(e, id)', Waits(e, id)')
  BY DEF FlagsAnswered, Answered, Before
<1>6. /\ SetOf(n, e, id) => Sets(e, id)' = Sets(e, id) \cup {n}
      /\ ~ SetOf(n, e, id) => Sets(e, id)' = Sets(e, id)
      /\ WaitOf(n, e, id) => Waits(e, id)' = Waits(e, id) \cup {n}
      /\ ~ WaitOf(n, e, id) => Waits(e, id)' = Waits(e, id)
  BY <1>1, SetsAfterIssue
<1>7. /\ \A x \in Sets(e, id) : x \in Entries(EventSrcPipe[e])
      /\ EventSrcPipe[e] \in Pipe
  BY <1>2, FlagEntriesTyped
<1>8. PICK t, S, W : t = turns[e][id] /\ S = Sets(e, id) /\ W = Waits(e, id)
  OBVIOUS
<1>9. t \in Turns /\ Answered(t, S, W)
  BY <1>5, <1>8 DEF FlagsAnswered
<1>10. CASE SetOf(n, e, id)
  <2>1. i.op = "SetFlag" /\ i.evt = e /\ i.id = id /\ ~ WaitOf(n, e, id)
    BY <1>3, <1>10 DEF SetOf, WaitOf
  <2>2. PICK u : u = [t EXCEPT !.issued = @ + 1]
    OBVIOUS
  <2>3. turns'[e][id] = u
    BY <1>4, <1>5, <1>8, <2>1, <2>2
  <2>4. u.issued = t.issued + 1 /\ u.done = t.done
    BY <1>9, <2>2 DEF Turns
  <2>5. n.note.turn = u.issued
    BY <1>1, <1>8, <2>1, <2>4, NoteTurn
  <2>6. Answered(u, S \cup {n}, W)
    BY <1>3, <1>7, <1>8, <1>9, <2>4, <2>5, AnsweredAfterSet
  <2> QED
    BY <1>6, <1>8, <1>10, <2>1, <2>3, <2>6
<1>11. CASE WaitOf(n, e, id)
  <2>1. i.op = "WaitFlag" /\ i.evt = e /\ i.id = id /\ ~ SetOf(n, e, id)
    BY <1>3, <1>11 DEF SetOf, WaitOf
  <2>2. turns'[e][id] = t
    BY <1>4, <1>8, <2>1
  <2>3. n.note.turn = t.issued
    BY <1>1, <1>8, <2>1, NoteTurn
  <2>4. \A y \in S : Before(y, n)
    BY <1>3, <1>7, <1>8
  <2>5. Answered(t, S, W \cup {n})
    BY <1>9, <2>3, <2>4, AnsweredAfterWait
  <2> QED
    BY <1>6, <1>8, <1>11, <2>1, <2>2, <2>5
<1>12. CASE ~ SetOf(n, e, id) /\ ~ WaitOf(n, e, id)
  <2>1. turns'[e][id] = t
    <3>1. i.op = "SetFlag" => ~ (i.evt = e /\ i.id = id)
      BY <1>3, <1>12 DEF SetOf
    <3>2. i.op = "SetFlag" => i.evt \in Event /\ i.id \in EventId
      BY InstrKinds DEF IsFlagOp, FlagInstrs
    <3> QED
      BY <1>4, <1>5, <1>8, <3>1, <3>2
  <2> QED
    BY <1>6, <1>8, <1>9, <1>12, <2>1
<1> QED
  BY <1>10, <1>11, <1>12

LEMMA AnsweredAfterComplete ==
  ASSUME PipesOK, HistoryOK, FlagsAnswered, NEW p \in Pipe, CompleteChecked(p)
  PROVE  FlagsAnswered'
<1>1. PICK h : h = FirstEntry(p)
  OBVIOUS
<1>2. Passes(p) /\ UNCHANGED turns /\ ~ IsFlagOp(First(p))
  BY PassCases DEF CompleteChecked, Complete, PipesOK, FlightOK, Passes, coreVars
<1>3. h.instr = First(p)
  BY <1>1, <1>2, EntriesAfterPass DEF PipesOK
<1> SUFFICES ASSUME NEW e \in Event, NEW id \in EventId
             PROVE  Answered(turns[e][id], Sets(e, id)', Waits(e, id)')
  BY <1>2 DEF FlagsAnswered, Answered, Before
<1>4. Sets(e, id)' = Sets(e, id) \ {h} /\ Waits(e, id)' = Waits(e, id) \ {h}
  BY <1>1, <1>2, SetsAfterPass DEF PipesOK
<1>5. h \notin Sets(e, id) /\ h \notin Waits(e, id)
  BY <1>2, <1>3 DEF Sets, Waits, SetOf, WaitOf, IsFlagOp
<1>6. Sets(e, id)' = Sets(e, id) /\ Waits(e, id)' = Waits(e, id)
  BY <1>4, <1>5
<1> QED
  BY <1>6 DEF FlagsAnswered

LEMMA AnsweredAfterFlagOp ==
  ASSUME PipesOK, HistoryOK, TurnsOK, FlagsAnswered, NEW p \in Pipe,
         RaiseChecked(p) \/ AwaitChecked(p)
  PROVE  FlagsAnswered'
<1>1. PICK h, i : h = FirstEntry(p) /\ i = First(p)
  OBVIOUS
<1>2. Passes(p) /\ Busy(p) /\ IsFlagOp(i) /\ FifoOK
  BY <1>1, PassCases DEF RaiseChecked, AwaitChecked, Raise, Await, Passes, coreVars, IsFlagOp, PipesOK
<1>3. /\ h.instr = i /\ h.note = Head(notes[p])
      /\ \A x \in Entries(p) : ~ Before(x, h) /\ (x = h \/ Before(h, x))
  BY <1>1, <1>2, EntriesAfterPass DEF PipesOK
<1>4. i.evt \in Event /\ i.id \in EventId
  BY <1>1, <1>2, FirstFlag
<1>5. turns \in [Event -> [EventId -> Turns]]
  BY DEF HistoryOK, HistoryTyped
<1> SUFFICES ASSUME NEW e \in Event, NEW id \in EventId
             PROVE  Answered(turns'[e][id], Sets(e, id)', Waits(e, id)')
  BY DEF FlagsAnswered, Answered, Before
<1>6. /\ Sets(e, id)' = Sets(e, id) \ {h}
      /\ Waits(e, id)' = Waits(e, id) \ {h}
      /\ SetOf(h, e, id) => h \in Sets(e, id) /\ p = EventSrcPipe[e]
      /\ WaitOf(h, e, id) => h \in Waits(e, id)
  BY <1>1, <1>2, SetsAfterPass
<1>7. /\ \A x \in Sets(e, id) : x \in Entries(EventSrcPipe[e]) /\ x.note.turn \in Nat
      /\ \A x \in Waits(e, id) : x.note.turn \in Nat
  BY <1>2, FlagEntriesTyped
<1>8. PICK t, S, W : t = turns[e][id] /\ S = Sets(e, id) /\ W = Waits(e, id)
  OBVIOUS
<1>9. t \in Turns /\ Answered(t, S, W)
  BY <1>5, <1>8 DEF FlagsAnswered
<1>10. h \in S => SetOf(h, e, id)
  BY <1>8 DEF Sets
<1>11. h \in W => WaitOf(h, e, id)
  BY <1>8 DEF Waits
<1>12. CASE SetOf(h, e, id)
  <2>1. i.op = "SetFlag" /\ i.evt = e /\ i.id = id /\ h \notin W
    BY <1>3, <1>11, <1>12 DEF SetOf, WaitOf
  <2>2. turns' = [turns EXCEPT ![i.evt][i.id].done = Head(notes[p]).turn]
    BY <1>1, <2>1 DEF RaiseChecked, AwaitChecked, Raise, Await
  <2>3. PICK u : u = [t EXCEPT !.done = h.note.turn]
    OBVIOUS
  <2>4. turns'[e][id] = u
    BY <1>3, <1>5, <1>8, <2>1, <2>2, <2>3
  <2>5. u.issued = t.issued /\ u.done = h.note.turn
    BY <1>9, <2>3 DEF Turns
  <2>6. t.done < h.note.turn /\ h.note.turn <= t.issued
    BY <1>6, <1>8, <1>12 DEF TurnsOK, TurnsHold
  <2>9. InTurn(S) /\ h \in S /\ \A x \in S : ~ Before(x, h) /\ (x = h \/ Before(h, x))
    BY <1>3, <1>6, <1>7, <1>8, <1>12 DEF TurnsOK, TurnsHold
  <2>7. Answered(u, S \ {h}, W)
    BY <1>7, <1>8, <1>9, <2>5, <2>6, <2>9, AnsweredAfterRaise
  <2>8. W \ {h} = W
    BY <2>1
  <2> QED
    BY <1>6, <1>8, <2>4, <2>7, <2>8
<1>13. CASE WaitOf(h, e, id)
  <2>1. i.op = "WaitFlag" /\ i.evt = e /\ i.id = id /\ h \notin S
    BY <1>3, <1>10, <1>13 DEF SetOf, WaitOf
  <2>2. turns' = [turns EXCEPT ![i.evt][i.id].awaited = Head(notes[p]).turn]
    BY <1>1, <2>1 DEF RaiseChecked, AwaitChecked, Raise, Await
  <2>3. PICK u : u = [t EXCEPT !.awaited = h.note.turn]
    OBVIOUS
  <2>4. turns'[e][id] = u
    BY <1>3, <1>5, <1>8, <2>1, <2>2, <2>3
  <2>5. u.issued = t.issued /\ u.done = t.done
    BY <1>9, <2>3 DEF Turns
  <2>6. Answered(u, S, W \ {h})
    BY <1>9, <2>5, AnsweredAfterAwait
  <2>7. S \ {h} = S
    BY <2>1
  <2> QED
    BY <1>6, <1>8, <2>4, <2>6, <2>7
<1>14. CASE ~ SetOf(h, e, id) /\ ~ WaitOf(h, e, id)
  <2>1. i.op \in {"SetFlag", "WaitFlag"} /\ ~ (i.evt = e /\ i.id = id)
    BY <1>2, <1>3, <1>14 DEF SetOf, WaitOf, IsFlagOp
  <2>2. turns'[e][id] = turns[e][id]
    <3>1. ASSUME NEW v, turns' = [turns EXCEPT ![i.evt][i.id].done = v]
          PROVE  turns'[e][id] = turns[e][id]
      BY <1>4, <1>5, <2>1, <3>1
    <3>2. ASSUME NEW v, turns' = [turns EXCEPT ![i.evt][i.id].awaited = v]
          PROVE  turns'[e][id] = turns[e][id]
      BY <1>4, <1>5, <2>1, <3>2
    <3> QED
      BY <1>1, <3>1, <3>2 DEF RaiseChecked, AwaitChecked
  <2>3. S \ {h} = S /\ W \ {h} = W
    BY <1>10, <1>11, <1>14
  <2> QED
    BY <1>6, <1>8, <1>9, <2>2, <2>3
<1> QED
  BY <1>12, <1>13, <1>14

LEMMA AnsweredQuiet ==
  ASSUME FlagsAnswered, UNCHANGED <<fifo, history>>
  PROVE  FlagsAnswered'
<1>1. \A e \in Event, id \in EventId : Sets(e, id)' = Sets(e, id) /\ Waits(e, id)' = Waits(e, id)
  BY SyncCoreAssumption DEF Sets, Waits, SetOf, WaitOf, Entries, Entry, history
<1> QED
  BY <1>1 DEF FlagsAnswered, Answered, Before, history

LEMMA AnsweredAtStart == turns = Blank.turns /\ Empty => FlagsAnswered
<1> SUFFICES ASSUME turns = Blank.turns, Empty, NEW e \in Event, NEW id \in EventId
             PROVE  Answered(turns[e][id], Sets(e, id), Waits(e, id))
  BY DEF FlagsAnswered
<1>1. turns[e][id] = Unraised
  BY DEF Blank
<1>2. Sets(e, id) = {} /\ Waits(e, id) = {}
  BY NoEntries, SyncCoreAssumption DEF Sets, Waits
<1> QED
  BY <1>1, <1>2 DEF Answered, Unraised

LEMMA AnsweredAtStartAfter == (turns = Blank.turns /\ Empty)' => FlagsAnswered'
  BY AnsweredAtStart, PTL

LEMMA AnsweredStep ==
  ASSUME PipesOK, HistoryOK, Running => OrderOK /\ FlagsAnswered, [CheckedNext]_checkedVars
  PROVE  Running' => FlagsAnswered'
<1>1. CoreTypeOK'
  BY CheckedStepIsStep, PipesOKStep DEF PipesOK, RunOK, BaseOK
<1>2. CASE IssueChecked
  <2> SUFFICES ASSUME Running' PROVE FlagsAnswered'
    OBVIOUS
  <2>1. ~ destroyed /\ syncErrors' = 0
    BY <1>2, IssueCases DEF Running
  <2>2. CASE UNCHANGED <<history, fifo>> /\ syncErrors = 0 /\ Silent
    BY <2>1, <2>2, AnsweredQuiet DEF Running
  <2>3. CASE \E i \in Instrs : Placed(i) /\ Issues(i) /\ syncErrors = 0 /\ Effect(i)
    BY <1>1, <2>1, <2>3, AnsweredAfterIssue DEF Running
  <2> QED
    BY <1>2, <2>1, <2>2, <2>3, IssueCases
<1>3. CASE ReturnDrained \/ StartLaunch
  BY <1>3 DEF ReturnDrained, Return, Destroy, StartLaunch, NextLaunch, LaunchOver, pipeVars, Running
<1>4. CASE StartBlockChecked
  <2>1. turns' = Blank.turns
    BY <1>4 DEF StartBlockChecked
  <2>2. \A p \in Pipe : fifo'[p] = <<>>
    BY <1>4 DEF PipesOK, DrainedAtEnd, Drained, Busy,
                StartBlockChecked, StartBlock, NextBlock, NextKernel
  <2>3. (turns = Blank.turns /\ Empty)'
    BY <2>1, <2>2 DEF Empty, Blank
  <2> QED
    BY <2>3, AnsweredAtStartAfter
<1>5. ASSUME NEW p \in Pipe, Start(p), UNCHANGED history
      PROVE  Running' => FlagsAnswered'
  BY <1>5, AnsweredQuiet DEF Start, coreVars, pipeVars, Running
<1>6. ASSUME NEW p \in Pipe, CompleteChecked(p) \/ RaiseChecked(p) \/ AwaitChecked(p)
      PROVE  Running' => FlagsAnswered'
  <2>1. Running' => Running
    BY <1>6, PassCases DEF Running, Passes, coreVars
  <2>2. Running => FlagsAnswered'
    BY <1>6, AnsweredAfterComplete, AnsweredAfterFlagOp DEF OrderOK
  <2> QED
    BY <2>1, <2>2
<1>7. CASE UNCHANGED <<vars, history>>
  BY <1>7, AnsweredQuiet DEF vars, coreVars, pipeVars, hwVars, Running
<1> QED
  BY <1>2, <1>3, <1>4, <1>5, <1>6, <1>7 DEF CheckedNext, StartLaunchChecked, Finished, checkedVars

LEMMA AnsweredAlways ==
  CheckedSpec => [](PipesOK /\ HistoryOK /\ (Running => OrderOK /\ FlagsAnswered))
<1>1. CheckedInit => FlagsAnswered
  BY AnsweredAtStart DEF CheckedInit, Init, HwInit, HistoryInit, Empty, Idle
<1>2. PipesOK /\ HistoryOK /\ (Running => OrderOK) /\ (Running => FlagsAnswered)
        /\ [CheckedNext]_checkedVars => (Running => FlagsAnswered)'
  BY AnsweredStep
<1> QED
  BY <1>1, <1>2, OrderAlways, PTL DEF CheckedSpec

LEMMA LeastNumber ==
  ASSUME NEW T, T \subseteq Nat, T # {}
  PROVE  \E m \in T : \A n \in T : m <= n
<1>1. PICK R : R = OpToRel(<, Nat)
  OBVIOUS
<1>2. IsWellFoundedOn(R, Nat)
  BY <1>1, NatLessThanWellFounded, Zenon
<1>3. \A m, n \in Nat : n < m => <<n, m>> \in R
  BY <1>1 DEF OpToRel
<1>4. PICK m \in T : \A n \in T : ~ (<<n, m>> \in R)
  BY <1>2, WFMin
<1>5. \A n \in T : ~ (n < m)
  BY <1>3, <1>4
<1> QED
  BY <1>5

\* One of the busy pipes has the oldest instruction pending.
LEMMA OldestExists ==
  ASSUME FifoOK, HistoryOK, ~ Drained
  PROVE  \E p \in Pipe :
           Busy(p) /\ \A q \in Pipe : \A x \in Entries(q) : ~ Before(x, FirstEntry(p))
<1>1. PICK T : T = {Head(notes[p]).at : p \in {r \in Pipe : Busy(r)}}
  OBVIOUS
<1>2. ASSUME NEW p \in Pipe, Busy(p)
      PROVE  FirstEntry(p).note = Head(notes[p]) /\ Head(notes[p]).at \in Nat
  BY <1>2, FirstIsOldest, EntryTyped
<1>3. T \subseteq Nat /\ T # {}
  BY <1>1, <1>2 DEF Drained
<1>4. PICK m \in T : \A n \in T : m <= n
  BY <1>3, LeastNumber
<1>5. PICK p \in Pipe : Busy(p) /\ m = Head(notes[p]).at
  BY <1>1
<1>6. ASSUME NEW q \in Pipe, NEW x \in Entries(q) PROVE ~ Before(x, FirstEntry(p))
  <2>1. Busy(q)
    BY NoteDomains DEF Entries, Busy
  <2>2. PICK n \in Nat : n = Head(notes[q]).at /\ m <= n
    BY <1>1, <1>2, <1>4, <2>1
  <2>3. ~ Before(x, FirstEntry(q))
    BY <2>1, FirstIsOldest
  <2>4. x.note.at \in Nat /\ m \in Nat
    BY <1>3, <1>4, EntryTyped
  <2> QED
    BY <1>2, <1>5, <2>1, <2>2, <2>3, <2>4 DEF Before
<1> QED
  BY <1>5, <1>6

\* The oldest instruction of all can go: what it waits for was to be raised
\* before it, and nothing is pending before it.
LEMMA OldestCanGo ==
  ASSUME PipesOK, HistoryOK, OrderOK, FlagsAnswered, RaisesKept,
         NEW p \in Pipe, Busy(p),
         \A q \in Pipe : \A x \in Entries(q) : ~ Before(x, FirstEntry(p))
  PROVE  CanGo(p)
<1> SUFFICES ASSUME First(p).op = "WaitFlag"
             PROVE  reg[First(p).evt][First(p).id] > 0
  BY DEF CanGo
<1>1. FifoOK
  BY DEF PipesOK
<1>2. PICK h : h = FirstEntry(p)
  OBVIOUS
<1>3. h \in Entries(p) /\ h.instr = First(p)
  BY <1>1, <1>2, FirstIsOldest
<1>4. PICK e \in Event, id \in EventId : e = First(p).evt /\ id = First(p).id
  BY <1>1, FirstFlag DEF IsFlagOp
<1>5. p = EventDstPipe[e]
  BY <1>1, <1>3, <1>4, EntryTyped DEF Placed
<1>6. h \in Waits(e, id)
  BY <1>3, <1>4, <1>5 DEF Waits, WaitOf
<1>7. \A y \in Sets(e, id) : ~ Before(y, h)
  BY <1>1, <1>2, FlagEntriesTyped
<1>8. h.note.turn <= turns[e][id].done
  BY <1>6, <1>7 DEF FlagsAnswered, Answered
<1>9. turns[e][id].awaited < h.note.turn
  BY <1>6 DEF OrderOK, TurnsOK, TurnsHold
<1>10. reg[e][id] + turns[e][id].awaited = turns[e][id].done
  BY DEF RaisesKept
<1>11. PICK a \in Nat, d \in Nat, k \in Nat :
         a = turns[e][id].awaited /\ d = turns[e][id].done /\ k = h.note.turn
  BY <1>1, <1>6, FlagEntriesTyped DEF Turns
<1>12. PICK r \in Nat : r = reg[e][id]
  BY ConcurrentPipesAssumption DEF PipesOK, DataOK
<1>13. r > 0
  BY <1>8, <1>9, <1>10, <1>11, <1>12
<1> QED
  BY <1>4, <1>12, <1>13

\* PipesMoveOn, for any main program and any kernels: as long as nothing was
\* reported and no raise was lost, one of the pipes can go on, the one that holds
\* the oldest instruction issued.
THEOREM PipesNeverStuck == CheckedSpec => []PipesMoveOn
<1>1. PipesOK /\ HistoryOK /\ (Running => OrderOK /\ FlagsAnswered) => PipesMoveOn
  <2> SUFFICES ASSUME PipesOK, HistoryOK, Running => OrderOK /\ FlagsAnswered,
                      syncErrors = 0, RaisesKept, ~ Drained
               PROVE  \E p \in Pipe : CanGo(p)
    BY DEF PipesMoveOn
  <2>1. FifoOK /\ Running
    BY DEF PipesOK, DrainedAtEnd, Drained, Running
  <2>2. PICK p \in Pipe :
          Busy(p) /\ \A q \in Pipe : \A x \in Entries(q) : ~ Before(x, FirstEntry(p))
    BY <2>1, OldestExists
  <2> QED
    BY <2>1, <2>2, OldestCanGo
<1> QED
  BY <1>1, AnsweredAlways, PTL

LEMMA KeptAfterFlagOp ==
  ASSUME PipesOK, HistoryOK, TurnsOK, FlagsAnswered, RaisesKept, NEW p \in Pipe,
         \/ RaiseChecked(p) /\ reg[First(p).evt][First(p).id] # FLAG_MAX
         \/ AwaitChecked(p)
  PROVE  RaisesKept'
<1>1. PICK h, i : h = FirstEntry(p) /\ i = First(p)
  OBVIOUS
<1>2. Busy(p) /\ IsFlagOp(i) /\ FifoOK
  BY <1>1 DEF RaiseChecked, AwaitChecked, Raise, Await, IsFlagOp, PipesOK
<1>3. /\ h \in Entries(p) /\ h.instr = i /\ h.note = Head(notes[p])
      /\ \A x \in Entries(p) : ~ Before(x, h)
  BY <1>1, <1>2, FirstIsOldest
<1>4. i.evt \in Event /\ i.id \in EventId
  BY <1>1, <1>2, FirstFlag
<1>5. turns \in [Event -> [EventId -> Turns]] /\ reg \in [Event -> [EventId -> 0 .. FLAG_MAX]]
  BY DEF HistoryOK, HistoryTyped, PipesOK, DataOK
<1> SUFFICES ASSUME NEW e \in Event, NEW id \in EventId
             PROVE  reg'[e][id] + turns'[e][id].awaited = turns'[e][id].done
  BY DEF RaisesKept
<1>6. reg[e][id] + turns[e][id].awaited = turns[e][id].done
  BY DEF RaisesKept
<1>7. \A x \in Sets(e, id) : x \in Entries(EventSrcPipe[e])
  BY <1>2, FlagEntriesTyped
<1>8. \A x \in Waits(e, id) : x \in Entries(EventDstPipe[e])
  BY <1>2, FlagEntriesTyped
<1>9. PICK t : t = turns[e][id]
  OBVIOUS
<1>10. PICK a \in Nat, d \in Nat, r \in Nat : a = t.awaited /\ d = t.done /\ r = reg[e][id]
  BY <1>5, <1>9, ConcurrentPipesAssumption DEF Turns
<1>11. Placed(i)
  BY <1>2, <1>3, EntryTyped
<1>12. CASE i.op = "SetFlag" /\ i.evt = e /\ i.id = id
  <2>1. /\ reg' = [reg EXCEPT ![e][id] = Min({@ + 1, FLAG_MAX})] /\ r # FLAG_MAX
        /\ turns' = [turns EXCEPT ![e][id].done = Head(notes[p]).turn]
    BY <1>1, <1>10, <1>12 DEF RaiseChecked, AwaitChecked, Raise, Await
  <2>2. p = EventSrcPipe[e] /\ h \in Sets(e, id)
    <3>1. p = EventSrcPipe[e]
      BY <1>2, <1>3, <1>11, <1>12, EntryTyped DEF Placed
    <3> QED
      BY <1>3, <1>12, <3>1 DEF Sets, SetOf
  <2>3. h.note.turn = d + 1
    BY <1>3, <1>7, <1>9, <1>10, <2>2 DEF FlagsAnswered, Answered
  <2>4. turns'[e][id].awaited = a /\ turns'[e][id].done = d + 1
    <3>1. turns'[e][id] = [t EXCEPT !.done = d + 1]
      BY <1>3, <1>5, <1>9, <2>1, <2>3
    <3> QED
      BY <1>5, <1>9, <1>10, <3>1 DEF Turns
  <2>5. reg'[e][id] = r + 1
    <3>1. reg'[e][id] = Min({r + 1, FLAG_MAX})
      BY <1>5, <1>10, <2>1
    <3>2. r + 1 <= FLAG_MAX /\ FLAG_MAX \in Nat
      <4>1. r \in 0 .. FLAG_MAX
        BY <1>5, <1>10
      <4> QED
        BY <2>1, <4>1, ConcurrentPipesAssumption
    <3>3. /\ Min({r + 1, FLAG_MAX}) \in {r + 1, FLAG_MAX}
          /\ \A n \in {r + 1, FLAG_MAX} : Min({r + 1, FLAG_MAX}) <= n
      BY <3>2, MinIsLeast
    <3> QED
      BY <3>1, <3>2, <3>3
  <2> QED
    BY <1>6, <1>9, <1>10, <2>4, <2>5
<1>13. CASE i.op = "WaitFlag" /\ i.evt = e /\ i.id = id
  <2>1. /\ reg' = [reg EXCEPT ![e][id] = @ - 1]
        /\ turns' = [turns EXCEPT ![e][id].awaited = Head(notes[p]).turn]
    BY <1>1, <1>13 DEF RaiseChecked, AwaitChecked, Raise, Await
  <2>2. p = EventDstPipe[e] /\ h \in Waits(e, id)
    <3>1. p = EventDstPipe[e]
      BY <1>2, <1>3, <1>11, <1>13, EntryTyped DEF Placed
    <3> QED
      BY <1>3, <1>13, <3>1 DEF Waits, WaitOf
  <2>3. h.note.turn = a + 1
    BY <1>3, <1>8, <1>9, <1>10, <2>2 DEF TurnsOK, TurnsHold
  <2>4. turns'[e][id].awaited = a + 1 /\ turns'[e][id].done = d
    <3>1. turns'[e][id] = [t EXCEPT !.awaited = a + 1]
      BY <1>3, <1>5, <1>9, <2>1, <2>3
    <3> QED
      BY <1>5, <1>9, <1>10, <3>1 DEF Turns
  <2>5. reg'[e][id] = r - 1
    BY <1>5, <1>10, <2>1
  <2> QED
    BY <1>6, <1>9, <1>10, <2>4, <2>5
<1>14. CASE ~ (i.evt = e /\ i.id = id)
  <2>1. reg'[e][id] = reg[e][id]
    BY <1>1, <1>4, <1>5, <1>14 DEF RaiseChecked, AwaitChecked, Raise, Await
  <2>2. turns'[e][id] = turns[e][id]
    <3>1. ASSUME NEW v, turns' = [turns EXCEPT ![i.evt][i.id].done = v]
          PROVE  turns'[e][id] = turns[e][id]
      BY <1>4, <1>5, <1>14, <3>1
    <3>2. ASSUME NEW v, turns' = [turns EXCEPT ![i.evt][i.id].awaited = v]
          PROVE  turns'[e][id] = turns[e][id]
      BY <1>4, <1>5, <1>14, <3>2
    <3> QED
      BY <1>1, <3>1, <3>2 DEF RaiseChecked, AwaitChecked
  <2> QED
    BY <1>6, <2>1, <2>2
<1> QED
  BY <1>2, <1>12, <1>13, <1>14 DEF IsFlagOp

LEMMA KeptAfterIssue ==
  ASSUME HistoryOK, RaisesKept, UNCHANGED reg, NEW i \in Instrs, Issues(i)
  PROVE  RaisesKept'
<1>1. turns' = IF i.op = "SetFlag" THEN [turns EXCEPT ![i.evt][i.id].issued = @ + 1] ELSE turns
  BY DEF Issues, Execute
<1>2. turns \in [Event -> [EventId -> Turns]]
  BY DEF HistoryOK, HistoryTyped
<1>3. i.op = "SetFlag" => i.evt \in Event /\ i.id \in EventId
  BY InstrKinds DEF IsFlagOp, FlagInstrs
<1>4. ASSUME NEW e \in Event, NEW id \in EventId
      PROVE  /\ turns'[e][id].done = turns[e][id].done
             /\ turns'[e][id].awaited = turns[e][id].awaited
  BY <1>1, <1>2, <1>3 DEF Turns
<1> QED
  BY <1>4 DEF RaisesKept

\* A raise is lost in one way only: its register is full.  So RaisesKept is about
\* the registers, and nothing else the kernel or a pipe does can break it.
THEOREM LostWhenFullOnly ==
  CheckedSpec =>
    [][syncErrors' = 0 /\ RaisesKept =>
         \/ RaisesKept'
         \/ \E p \in Pipe : Raise(p) /\ reg[First(p).evt][First(p).id] = FLAG_MAX]_checkedVars
<1>1. ASSUME PipesOK, HistoryOK, Running => OrderOK /\ FlagsAnswered, [CheckedNext]_checkedVars,
             syncErrors' = 0, RaisesKept,
             \A p \in Pipe : Raise(p) => reg[First(p).evt][First(p).id] # FLAG_MAX
      PROVE  RaisesKept'
  <2>1. CASE UNCHANGED <<reg, history>>
    BY <2>1, <1>1 DEF RaisesKept, history
  <2>2. CASE IssueChecked
    <3>1. UNCHANGED reg
      BY <1>1, <2>2, IssueCases
    <3>2. CASE UNCHANGED history
      BY <2>1, <3>1, <3>2
    <3>3. CASE \E i \in Instrs : Issues(i)
      BY <1>1, <3>1, <3>3, KeptAfterIssue
    <3> QED
      BY <1>1, <2>2, <3>2, <3>3, IssueCases
  <2>3. CASE StartBlockChecked
    BY <2>3 DEF StartBlockChecked, StartBlock, Blank, Unraised, Idle, RaisesKept
  <2>4. CASE StartLaunchChecked
    BY <1>1, <2>4 DEF StartLaunchChecked, StartLaunch, RaisesKept
  <2>5. ASSUME NEW p \in Pipe, CompleteChecked(p)
        PROVE  RaisesKept'
    BY <1>1, <2>5 DEF CompleteChecked, Complete, RaisesKept
  <2>6. ASSUME NEW p \in Pipe, RaiseChecked(p) \/ AwaitChecked(p)
        PROVE  RaisesKept'
    <3>1. Running
      BY <1>1, <2>6, PassCases DEF Running, Passes, coreVars
    <3> QED
      BY <1>1, <2>6, <3>1, KeptAfterFlagOp DEF OrderOK, RaiseChecked
  <2>7. ASSUME NEW p \in Pipe, Start(p), UNCHANGED history
        PROVE  RaisesKept'
    BY <2>1, <2>7 DEF Start
  <2>8. CASE (ReturnDrained \/ Finished) /\ UNCHANGED history
    BY <2>1, <2>8 DEF ReturnDrained, Finished, vars, hwVars
  <2>9. CASE UNCHANGED checkedVars
    BY <2>1, <2>9 DEF checkedVars, vars, hwVars
  <2> QED
    BY <1>1, <2>2, <2>3, <2>4, <2>5, <2>6, <2>7, <2>8, <2>9 DEF CheckedNext
<1>2. PipesOK /\ HistoryOK /\ (Running => OrderOK /\ FlagsAnswered) /\ [CheckedNext]_checkedVars =>
        [syncErrors' = 0 /\ RaisesKept =>
           \/ RaisesKept'
           \/ \E p \in Pipe : Raise(p) /\ reg[First(p).evt][First(p).id] = FLAG_MAX]_checkedVars
  BY <1>1
<1> QED
  BY <1>2, AnsweredAlways, PTL DEF CheckedSpec
=============================================================================
