---------------------------- MODULE TPipeProofs -----------------------------
(***************************************************************************)
(* TPipe and TQueBind for any queues, pool and memory: what each call does *)
(* to the types, to the layout of local memory, to the pool of event ids   *)
(* and to a ring, for the kernels built on it.                             *)
(***************************************************************************)
EXTENDS TPipe, SyncCoreProofs, FiniteSetTheorems, WellFoundedInduction

-----------------------------------------------------------------------------
(* Numbers.                                                                *)

Below == {s \in Nat \X Nat : s[1] < s[2]}

LEMMA MinIsLeast ==
  ASSUME NEW S \in SUBSET Nat, S # {}
  PROVE  Min(S) \in S /\ \A x \in S : Min(S) <= x
<1>1. IsWellFoundedOn(Below, Nat)
  BY NatLessThanWellFounded DEF OpToRel, Below
<1>2. PICK x \in S : \A y \in S : <<y, x>> \notin Below
  BY <1>1, WFMin
<1>3. ASSUME NEW y \in S, y < x PROVE <<y, x>> \in Below
  <2>1. <<y, x>> \in Nat \X Nat /\ <<y, x>>[1] = y /\ <<y, x>>[2] = x
    OBVIOUS
  <2> QED
    BY <1>3, <2>1 DEF Below
<1>4. \A y \in S : ~ (y < x)
  BY <1>2, <1>3
<1>5. \A y \in S : x <= y
  BY <1>4
<1> QED
  BY <1>5 DEF Min

LEMMA ModInRange ==
  ASSUME NEW D \in Nat \ {0}, NEW x \in Nat
  PROVE  x % D \in 0 .. (D - 1) /\ x % D \in Nat
  OBVIOUS

\* The only remainders a ring needs: at most once around.
LEMMA ModOnce ==
  ASSUME NEW D \in Nat \ {0}, NEW x \in Nat, x < 2 * D
  PROVE  x % D = IF x < D THEN x ELSE x - D
<1>1. CASE x < D
  BY <1>1
<1>2. CASE D <= x
  BY <1>2
<1> QED
  BY <1>1, <1>2

LEMMA MultipleOfBlock ==
  ASSUME NEW i \in Nat, NEW l \in Nat, l % ONE_BLK_SIZE = 0
  PROVE  i * l \in Nat /\ (i * l) % ONE_BLK_SIZE = 0
<1>1. PICK k \in Nat : l = 32 * k
  BY DEF ONE_BLK_SIZE
<1>2. i * l = 32 * (i * k) /\ i * k \in Nat
  BY <1>1
<1>3. ASSUME NEW n \in Nat PROVE (32 * n) % 32 = 0
  OBVIOUS
<1>4. (32 * (i * k)) % 32 = 0 /\ 32 * (i * k) \in Nat
  <2> DEFINE n == i * k
  <2>1. n \in Nat
    BY <1>2
  <2> HIDE DEF n
  <2>2. (32 * n) % 32 = 0 /\ 32 * n \in Nat
    BY <2>1, <1>3
  <2> QED
    BY <2>2 DEF n
<1> QED
  BY <1>2, <1>4 DEF ONE_BLK_SIZE

LEMMA NextMultiple ==
  ASSUME NEW i \in Nat, NEW j \in Nat, NEW l \in Nat, i < j
  PROVE  i * l \in Nat /\ j * l \in Nat /\ i * l + l <= j * l
  OBVIOUS

-----------------------------------------------------------------------------
(* The pool hands out an id that is free, or none.                         *)

LEMMA NextEventIDFree ==
  ASSUME PipeTypeOK, NEW e \in Event
  PROVE  /\ NextEventID(e) \in TEventID
         /\ NextEventID(e) \in EventId => NextEventID(e) \notin eventOccupy[e]
         /\ NextEventID(e) \notin EventId => EventId \subseteq eventOccupy[e]
<1>1. IdleEventIDs(e) \in SUBSET Nat
  BY SyncCoreAssumption DEF IdleEventIDs, EventId
<1>2. INVALID_TEVENTID \notin EventId
  BY SyncCoreAssumption DEF EventId, INVALID_TEVENTID
<1>3. CASE IdleEventIDs(e) = {}
  BY <1>2, <1>3 DEF NextEventID, TEventID, IdleEventIDs
<1>4. CASE IdleEventIDs(e) # {}
  <2>1. Min(IdleEventIDs(e)) \in IdleEventIDs(e)
    BY <1>1, <1>4, MinIsLeast
  <2> QED
    BY <1>4, <2>1 DEF NextEventID, TEventID, IdleEventIDs
<1> QED
  BY <1>3, <1>4

LEMMA OccupyTyped ==
  ASSUME PipeTypeOK, NEW e \in Event, NEW id
  PROVE  /\ OccupyAfterAlloc(e) \in [Event -> SUBSET EventId]
         /\ OccupyAfterRelease(e, id) \in [Event -> SUBSET EventId]
  BY DEF OccupyAfterAlloc, OccupyAfterRelease, PipeTypeOK

-----------------------------------------------------------------------------
(* Types.                                                                  *)

QueueTypeOK ==
  /\ queue = [q \in Queue |-> queue[q]]
  /\ \A q \in Queue : queue[q] \in TQueType(q)

LEMMA NewPipeTyped ==
  /\ NewPipe.buf \in [Handle -> TBufType]
  /\ NewPipe.maxAddr \in [Mem -> Nat]
  /\ NewPipe.eventOccupy \in [Event -> SUBSET EventId]
  /\ \A q \in Queue : NewQueue(q) \in TQueType(q)
<1> USE TPipeAssumption
<1>1. NewBuffer \in TBufType
  BY DEF NewBuffer, TBufType, TBufState, TEventID
<1>2. ASSUME NEW q \in Queue PROVE NewQueue(q) \in TQueType(q)
  BY DEF NewQueue, TQueType, Handle
<1> QED
  BY <1>1, <1>2 DEF NewPipe

LEMMA PipeInitTyped == PipeInit => PipeTypeOK
<1> SUFFICES ASSUME PipeInit PROVE PipeTypeOK
  OBVIOUS
<1>1. queue = [q \in Queue |-> NewQueue(q)]
  BY DEF PipeInit, NewPipe
<1>2. QueueTypeOK
  BY <1>1, NewPipeTyped DEF QueueTypeOK
<1>3. 0 \in 0 .. QBUF_MAX_LEN
  BY TPipeAssumption
<1> QED
  BY <1>2, <1>3, NewPipeTyped DEF PipeInit, PipeTypeOK, QueueTypeOK

\* One queue changes.
LEMMA OneQueueTyped ==
  ASSUME PipeTypeOK, NEW q \in Queue, NEW rec \in TQueType(q), queue' = [queue EXCEPT ![q] = rec]
  PROVE  QueueTypeOK'
<1>1. queue' = [r \in Queue |-> queue'[r]]
  BY DEF PipeTypeOK
<1>2. ASSUME NEW r \in Queue PROVE queue'[r] \in TQueType(r)
  BY DEF PipeTypeOK
<1>3. \A r \in Queue : TQueType(r)' = TQueType(r)
  BY DEF TQueType
<1> QED
  BY <1>1, <1>2, <1>3 DEF QueueTypeOK, TQueType

\* The descriptors keep their place.
InPlace ==
  \A h \in Handle : /\ buf'[h].hard = buf[h].hard
                    /\ buf'[h].address = buf[h].address
                    /\ buf'[h].dataLen = buf[h].dataLen

\* One descriptor changes its state or the ids it holds.
LEMMA OneBufferTyped ==
  ASSUME PipeTypeOK, NEW h, NEW s \in TBufState, NEW i \in TEventID, NEW j \in TEventID,
         buf' = [buf EXCEPT ![h] = [@ EXCEPT !.state = s, !.enQueEvtID = i, !.freeBufEvtID = j]]
  PROVE  buf' \in [Handle -> TBufType] /\ InPlace
<1>1. buf \in [Handle -> TBufType]
  BY DEF PipeTypeOK
<1>2. ASSUME NEW b \in TBufType
      PROVE  LET c == [b EXCEPT !.state = s, !.enQueEvtID = i, !.freeBufEvtID = j]
             IN  /\ c \in TBufType
                 /\ c.hard = b.hard /\ c.address = b.address /\ c.dataLen = b.dataLen
  BY DEF TBufType
<1>3. ASSUME NEW k \in Handle
      PROVE  buf'[k] = IF k = h
               THEN [buf[k] EXCEPT !.state = s, !.enQueEvtID = i, !.freeBufEvtID = j] ELSE buf[k]
  BY <1>1
<1>4. buf' = [k \in Handle |-> buf'[k]]
  BY <1>1
<1>5. \A k \in Handle : buf'[k] \in TBufType
  BY <1>1, <1>2, <1>3
<1>6. ASSUME NEW k \in Handle
      PROVE  /\ buf'[k].hard = buf[k].hard
             /\ buf'[k].address = buf[k].address
             /\ buf'[k].dataLen = buf[k].dataLen
  BY <1>1, <1>2, <1>3
<1> QED
  BY <1>4, <1>5, <1>6 DEF InPlace

LEMMA NoIdTyped == INVALID_TEVENTID \in TEventID /\ INVALID_TEVENTID \notin EventId
  BY SyncCoreAssumption DEF TEventID, EventId, INVALID_TEVENTID

LEMMA AllocTensorTyped ==
  ASSUME CoreTypeOK, PipeTypeOK, NEW q \in Queue, AllocTensor(q)
  PROVE  CoreTypeOK' /\ PipeTypeOK' /\ InPlace
<1> DEFINE h  == IdleSlot(q)
           e  == FreeBufEvt[q]
           id == buf[h].freeBufEvtID
<1>1. e \in Event /\ Depth[q] \in Nat \ {0}
  BY TPipeAssumption
<1>2. CoreTypeOK'
  <2>1. CASE id = INVALID_TEVENTID
    BY <2>1 DEF AllocTensor, CoreTypeOK
  <2>2. CASE id # INVALID_TEVENTID
    <3>1. WaitFlag(e, id)
      BY <2>2 DEF AllocTensor, WaitFlag
    <3> QED
      BY <1>1, <3>1, WaitFlagTyped
  <2> QED
    BY <2>1, <2>2
<1>3. eventOccupy' \in [Event -> SUBSET EventId]
  BY <1>1, OccupyTyped DEF AllocTensor, PipeTypeOK
<1>4. QueueTypeOK'
  <2> DEFINE c   == (queue[q].cursor + Min(IdleOffsets(q)) + 1) % queue[q].num
             rec == [queue[q] EXCEPT !.cursor = c]
  <2>1. queue[q] \in TQueType(q)
    BY DEF PipeTypeOK
  <2>2. queue[q].num \in Nat /\ queue[q].cursor \in Nat
    BY <1>1, <2>1 DEF TQueType
  <2>3. IdleOffsets(q) \in SUBSET Nat /\ IdleOffsets(q) # {} /\ queue[q].num # 0
    BY <2>2 DEF AllocTensor, HasIdleBuffer, IdleOffsets
  <2>4. Min(IdleOffsets(q)) \in Nat
    BY <2>3, MinIsLeast
  <2>5. c \in Nat
    <3>1. queue[q].cursor + Min(IdleOffsets(q)) + 1 \in Nat /\ queue[q].num \in Nat \ {0}
      BY <2>2, <2>3, <2>4
    <3> QED
      BY <3>1, ModInRange, Zenon
  <2>6. rec \in TQueType(q)
    BY <2>1, <2>5 DEF TQueType
  <2>7. queue' = [queue EXCEPT ![q] = rec]
    BY DEF AllocTensor, PipeTypeOK
  <2> QED
    BY <2>6, <2>7, OneQueueTyped
<1>5. buf' \in [Handle -> TBufType] /\ InPlace
  <2>1. CASE h \in Handle
    <3>1. buf[h] \in TBufType
      BY <2>1 DEF PipeTypeOK
    <3>2. buf[h].enQueEvtID \in TEventID
      BY <3>1 DEF TBufType
    <3>3. buf' = [buf EXCEPT ![h] = [@ EXCEPT !.state = "OCCUPIED", !.enQueEvtID = buf[h].enQueEvtID,
                                              !.freeBufEvtID = INVALID_TEVENTID]]
      BY <2>1, <3>1 DEF AllocTensor, PipeTypeOK, TBufType
    <3> QED
      BY <3>2, <3>3, OneBufferTyped, NoIdTyped DEF TBufState
  <2>2. CASE h \notin Handle
    BY <2>2 DEF AllocTensor, PipeTypeOK, InPlace
  <2> QED
    BY <2>1, <2>2
<1> QED
  BY <1>2, <1>3, <1>4, <1>5 DEF AllocTensor, PipeTypeOK, QueueTypeOK

LEMMA EnQueTyped ==
  ASSUME CoreTypeOK, PipeTypeOK, NEW q \in Queue, NEW h \in Handle, EnQue(q, h)
  PROVE  CoreTypeOK' /\ PipeTypeOK' /\ InPlace
<1> DEFINE e  == EnQueEvt[q]
           id == NextEventID(e)
<1>1. e \in Event /\ Depth[q] \in Nat \ {0}
  BY TPipeAssumption
<1>2. CoreTypeOK'
  <2>1. AllocEventIDErrors(e) + SetFlagErrors(e, id) \in Nat
    BY DEF AllocEventIDErrors, SetFlagErrors, OneIf
  <2>2. syncErrors' \in Nat
    BY <2>1, ReportTyped DEF EnQue, CoreTypeOK
  <2> QED
    BY <1>1, <2>2, FlagsAfterSetTyped DEF EnQue, CoreTypeOK
<1>3. eventOccupy' \in [Event -> SUBSET EventId]
  BY <1>1, OccupyTyped DEF EnQue, PipeTypeOK
<1>4. QueueTypeOK'
  <2> DEFINE rec == [queue[q] EXCEPT !.ring[queue[q].tail] = h,
                                     !.tail = (queue[q].tail + 1) % Depth[q],
                                     !.used = queue[q].used + 1]
  <2>1. queue[q] \in TQueType(q)
    BY DEF PipeTypeOK
  <2>2. queue[q].tail + 1 \in Nat
    BY <1>1, <2>1 DEF TQueType
  <2>3. (queue[q].tail + 1) % Depth[q] \in 0 .. (Depth[q] - 1)
    BY <1>1, <2>2, ModInRange, Zenon
  <2>4. queue[q].used + 1 \in 0 .. Depth[q]
    BY <1>1, <2>1 DEF EnQue, VacantInQue, TQueType
  <2>5. rec \in TQueType(q)
    BY <2>1, <2>3, <2>4 DEF TQueType
  <2>6. queue' = [queue EXCEPT ![q] = rec]
    BY <2>1 DEF EnQue, PipeTypeOK, TQueType
  <2> QED
    BY <2>5, <2>6, OneQueueTyped
<1>5. buf' \in [Handle -> TBufType] /\ InPlace
  <2>1. buf[h] \in TBufType
    BY DEF PipeTypeOK
  <2>2. buf[h].freeBufEvtID \in TEventID /\ id \in TEventID
    BY <1>1, <2>1, NextEventIDFree DEF TBufType
  <2>3. buf' = [buf EXCEPT ![h] = [@ EXCEPT !.state = "ENQUE", !.enQueEvtID = id,
                                            !.freeBufEvtID = buf[h].freeBufEvtID]]
    BY <2>1 DEF EnQue, PipeTypeOK, TBufType
  <2> QED
    BY <2>2, <2>3, OneBufferTyped DEF TBufState
<1> QED
  BY <1>2, <1>3, <1>4, <1>5 DEF EnQue, PipeTypeOK, QueueTypeOK

LEMMA RingAfterDeQueTyped ==
  ASSUME PipeTypeOK, NEW q \in Queue, HasTensorInQue(q), queue' = RingAfterDeQue(q)
  PROVE  QueueTypeOK'
<1> DEFINE rec == [queue[q] EXCEPT !.head = (queue[q].head + 1) % Depth[q],
                                   !.used = queue[q].used - 1]
<1>1. queue[q] \in TQueType(q) /\ Depth[q] \in Nat \ {0}
  BY TPipeAssumption DEF PipeTypeOK
<1>2. queue[q].head + 1 \in Nat
  BY <1>1 DEF TQueType
<1>3. (queue[q].head + 1) % Depth[q] \in 0 .. (Depth[q] - 1)
  BY <1>1, <1>2, ModInRange, Zenon
<1>4. queue[q].used - 1 \in 0 .. Depth[q]
  BY <1>1 DEF HasTensorInQue, TQueType
<1>5. rec \in TQueType(q)
  BY <1>1, <1>3, <1>4 DEF TQueType
<1>6. queue' = [queue EXCEPT ![q] = rec]
  BY <1>1 DEF RingAfterDeQue, PipeTypeOK, TQueType
<1> QED
  BY <1>5, <1>6, OneQueueTyped

LEMMA OldestIsHandle ==
  ASSUME PipeTypeOK, NEW q \in Queue
  PROVE  OldestSlot(q) \in Handle
  BY TPipeAssumption DEF OldestSlot, PipeTypeOK, TQueType

LEMMA DeQueTyped ==
  ASSUME CoreTypeOK, PipeTypeOK, NEW q \in Queue, DeQue(q)
  PROVE  CoreTypeOK' /\ PipeTypeOK' /\ InPlace
<1> DEFINE h  == OldestSlot(q)
           e  == EnQueEvt[q]
           id == buf[h].enQueEvtID
<1>1. e \in Event
  BY TPipeAssumption
<1>2. CoreTypeOK'
  <2>1. WaitFlag(e, id)
    BY DEF DeQue, WaitFlag
  <2> QED
    BY <1>1, <2>1, WaitFlagTyped
<1>3. eventOccupy' \in [Event -> SUBSET EventId]
  BY <1>1, OccupyTyped DEF DeQue, PipeTypeOK
<1>4. QueueTypeOK'
  BY RingAfterDeQueTyped DEF DeQue
<1>5. buf' \in [Handle -> TBufType] /\ InPlace
  <2>1. h \in Handle /\ buf[h] \in TBufType
    BY OldestIsHandle DEF PipeTypeOK
  <2>2. buf[h].freeBufEvtID \in TEventID
    BY <2>1 DEF TBufType
  <2>3. buf' = [buf EXCEPT ![h] = [@ EXCEPT !.state = "DEQUE", !.enQueEvtID = INVALID_TEVENTID,
                                            !.freeBufEvtID = buf[h].freeBufEvtID]]
    BY <2>1 DEF DeQue, PipeTypeOK, TBufType
  <2> QED
    BY <2>2, <2>3, OneBufferTyped, NoIdTyped DEF TBufState
<1> QED
  BY <1>2, <1>3, <1>4, <1>5 DEF DeQue, PipeTypeOK, QueueTypeOK

LEMMA FreeTensorTyped ==
  ASSUME CoreTypeOK, PipeTypeOK, NEW q \in Queue, NEW h \in Handle, FreeTensor(q, h)
  PROVE  CoreTypeOK' /\ PipeTypeOK' /\ InPlace
<1> DEFINE e  == FreeBufEvt[q]
           id == NextEventID(e)
<1>1. e \in Event
  BY TPipeAssumption
<1>2. CoreTypeOK'
  <2>1. AllocEventIDErrors(e) + SetFlagErrors(e, id) \in Nat
    BY DEF AllocEventIDErrors, SetFlagErrors, OneIf
  <2>2. syncErrors' \in Nat
    BY <2>1, ReportTyped DEF FreeTensor, CoreTypeOK
  <2> QED
    BY <1>1, <2>2, FlagsAfterSetTyped DEF FreeTensor, CoreTypeOK
<1>3. eventOccupy' \in [Event -> SUBSET EventId]
  BY <1>1, OccupyTyped DEF FreeTensor, PipeTypeOK
<1>4. buf' \in [Handle -> TBufType] /\ InPlace
  <2>1. buf[h] \in TBufType
    BY DEF PipeTypeOK
  <2>2. buf[h].enQueEvtID \in TEventID /\ id \in TEventID
    BY <1>1, <2>1, NextEventIDFree DEF TBufType
  <2>3. buf' = [buf EXCEPT ![h] = [@ EXCEPT !.state = "FREE", !.enQueEvtID = buf[h].enQueEvtID,
                                            !.freeBufEvtID = id]]
    BY <2>1 DEF FreeTensor, PipeTypeOK, TBufType
  <2> QED
    BY <2>2, <2>3, OneBufferTyped DEF TBufState
<1> QED
  BY <1>2, <1>3, <1>4 DEF FreeTensor, PipeTypeOK

LEMMA RefuseTyped ==
  ASSUME CoreTypeOK, NEW n \in Nat, Refuse(n)
  PROVE  CoreTypeOK' /\ UNCHANGED pipeVars
  BY ReportTyped DEF Refuse, CoreTypeOK, pipeVars

LEMMA DestroyTyped ==
  ASSUME CoreTypeOK, PipeTypeOK, Destroy
  PROVE  CoreTypeOK' /\ PipeTypeOK' /\ InPlace
<1>1. flags' \in [Event -> [EventId -> EventSlot]]
  <2>1. \A s \in EventSlot : [s EXCEPT !.pending = FALSE] \in EventSlot
    BY DEF EventSlot
  <2>2. flags' = [e \in Event |-> [id \in EventId |-> [flags[e][id] EXCEPT !.pending = FALSE]]]
    BY DEF Destroy
  <2>3. \A e \in Event, id \in EventId : flags[e][id] \in EventSlot
    BY DEF CoreTypeOK
  <2> QED
    BY <2>1, <2>2, <2>3
<1>2. syncErrors' \in Nat
  <2>1. Leaked \in SUBSET (0 .. (curBufSize - 1)) /\ curBufSize - 1 \in Int /\ 0 \in Int
    BY TPipeAssumption DEF Leaked, PipeTypeOK
  <2>2. IsFiniteSet(0 .. (curBufSize - 1))
    BY <2>1, FS_Interval, Zenon
  <2>4. IsFiniteSet(Leaked)
    BY <2>1, <2>2, FS_Subset, Zenon
  <2>3. Cardinality(Leaked) \in Nat
    BY <2>4, FS_CardinalityType
  <2> QED
    BY <2>3, ReportTyped DEF Destroy, CoreTypeOK
<1>3. buf' \in [Handle -> TBufType] /\ InPlace
  <2>1. ASSUME NEW h \in Handle
        PROVE  /\ buf'[h] \in TBufType
               /\ buf'[h].hard = buf[h].hard
               /\ buf'[h].address = buf[h].address
               /\ buf'[h].dataLen = buf[h].dataLen
    BY NoIdTyped DEF Destroy, PipeTypeOK, TBufType
  <2>2. buf' = [h \in Handle |-> buf'[h]]
    BY DEF Destroy
  <2> QED
    BY <2>1, <2>2 DEF InPlace
<1> QED
  BY <1>1, <1>2, <1>3 DEF Destroy, CoreTypeOK, PipeTypeOK

LEMMA NextKernelTyped ==
  ASSUME CoreTypeOK, NextKernel
  PROVE  CoreTypeOK' /\ PipeTypeOK'
<1>1. CoreTypeOK'
  BY FreshTyped DEF NextKernel, KernelLaunch, CoreTypeOK
<1>2. queue' = [q \in Queue |-> NewQueue(q)]
  BY DEF NextKernel, NewPipe
<1>3. QueueTypeOK'
  <2>1. \A q \in Queue : NewQueue(q) \in TQueType(q)
    BY NewPipeTyped
  <2>2. \A q \in Queue : TQueType(q)' = TQueType(q)
    BY DEF TQueType
  <2> QED
    BY <1>2, <2>1, <2>2 DEF QueueTypeOK
<1>4. 0 \in 0 .. QBUF_MAX_LEN
  BY TPipeAssumption
<1> QED
  BY <1>1, <1>3, <1>4, NewPipeTyped DEF NextKernel, PipeTypeOK, QueueTypeOK

-----------------------------------------------------------------------------
(* The layout of local memory.                                             *)

\* Buffers come one after the other, in whole blocks, and end where the
\* allocator says.
Layout ==
  /\ \A m \in Mem : maxAddr[m] % ONE_BLK_SIZE = 0 /\ maxAddr[m] <= HardwareSize[m]
  /\ \A h \in 0 .. (curBufSize - 1) :
       /\ buf[h].address % ONE_BLK_SIZE = 0
       /\ buf[h].dataLen % ONE_BLK_SIZE = 0
       /\ buf[h].address + buf[h].dataLen <= maxAddr[buf[h].hard]
  /\ \A h, k \in 0 .. (curBufSize - 1) :
       h < k /\ buf[h].hard = buf[k].hard => buf[h].address + buf[h].dataLen <= buf[k].address

LEMMA LayoutDisjoint ==
  ASSUME PipeTypeOK, Layout
  PROVE  BuffersDisjoint
<1> USE DEF ONE_BLK_SIZE
<1>1. ASSUME NEW h \in 0 .. (curBufSize - 1)
      PROVE  h \in Handle /\ buf[h] \in TBufType
  BY <1>1, TPipeAssumption DEF PipeTypeOK, Handle
<1>2. ASSUME NEW h \in 0 .. (curBufSize - 1)
      PROVE  buf[h].address + buf[h].dataLen <= HardwareSize[buf[h].hard]
  <2>1. buf[h].hard \in Mem /\ buf[h].address \in Nat /\ buf[h].dataLen \in Nat
    BY <1>1 DEF TBufType
  <2>2. maxAddr[buf[h].hard] \in Nat /\ HardwareSize[buf[h].hard] \in Nat
    BY <2>1, TPipeAssumption DEF PipeTypeOK
  <2>3. /\ buf[h].address + buf[h].dataLen <= maxAddr[buf[h].hard]
        /\ maxAddr[buf[h].hard] <= HardwareSize[buf[h].hard]
    BY <2>1 DEF Layout
  <2> QED
    BY <2>1, <2>2, <2>3
<1>3. ASSUME NEW h \in 0 .. (curBufSize - 1), NEW k \in 0 .. (curBufSize - 1), h < k
      PROVE  BufferGranules(h) \cap BufferGranules(k) = {}
  <2>1. CASE buf[h].hard # buf[k].hard
    BY <2>1 DEF BufferGranules
  <2>2. CASE buf[h].hard = buf[k].hard
    <3> DEFINE a == buf[h].address   l == buf[h].dataLen
               b == buf[k].address   m == buf[k].dataLen
    <3>1. a \in Nat /\ l \in Nat /\ b \in Nat /\ m \in Nat
      BY <1>1 DEF TBufType
    <3>2. a % 32 = 0 /\ l % 32 = 0 /\ b % 32 = 0 /\ m % 32 = 0 /\ a + l <= b
      BY <1>3, <2>2 DEF Layout
    <3> HIDE DEF a, l, b, m
    <3>3. BlocksOf(a, l) \cap BlocksOf(b, m) = {}
      BY <3>1, <3>2 DEF BlocksOf
    <3> QED
      BY <3>3 DEF BufferGranules, a, l, b, m
  <2> QED
    BY <2>1, <2>2
<1>4. ASSUME NEW h \in 0 .. (curBufSize - 1), NEW k \in 0 .. (curBufSize - 1), h # k
      PROVE  BufferGranules(h) \cap BufferGranules(k) = {}
  <2>1. h < k \/ k < h
    <3>1. h \in Int /\ k \in Int
      OBVIOUS
    <3> QED
      BY <1>4, <3>1
  <2> QED
    BY <2>1, <1>3
<1> QED
  BY <1>2, <1>4 DEF BuffersDisjoint

\* Nothing moves.
LEMMA LayoutStays ==
  ASSUME PipeTypeOK, Layout, InPlace, UNCHANGED <<curBufSize, maxAddr>>
  PROVE  Layout'
<1>1. \A h \in 0 .. (curBufSize - 1) : h \in Handle
  BY TPipeAssumption DEF PipeTypeOK, Handle
<1> QED
  BY <1>1 DEF Layout, InPlace

LEMMA LayoutEmpty ==
  ASSUME curBufSize = 0, maxAddr = NewPipe.maxAddr
  PROVE  Layout
<1>1. \A m \in Mem : maxAddr[m] = 0
  BY DEF NewPipe
<1> QED
  BY <1>1, TPipeAssumption DEF Layout, ONE_BLK_SIZE

\* num blocks of memory, one after the other from base on.
LEMMA CarveTyped ==
  ASSUME CoreTypeOK, PipeTypeOK, Layout, NEW hard \in Mem, NEW depth \in Nat,
         NEW num \in Nat, NEW len \in Nat,
         InitBufferFits(hard, depth, num, len), CarveBuffers(hard, num, len)
  PROVE  /\ CoreTypeOK' /\ Layout'
         /\ buf' \in [Handle -> TBufType]
         /\ curBufSize' \in 0 .. QBUF_MAX_LEN
         /\ maxAddr' \in [Mem -> Nat]
         /\ UNCHANGED <<eventOccupy, destroyed>>
<1> DEFINE base == maxAddr[hard]
           size == num * len
<1>1. /\ base \in Nat /\ size \in Nat /\ HardwareSize[hard] \in Nat
      /\ curBufSize \in Nat /\ QBUF_MAX_LEN \in Nat
      /\ base % ONE_BLK_SIZE = 0 /\ len % ONE_BLK_SIZE = 0 /\ size % ONE_BLK_SIZE = 0
  BY TPipeAssumption, MultipleOfBlock DEF PipeTypeOK, InitBufferFits, Layout
<1>2. curBufSize + num <= QBUF_MAX_LEN /\ base + size <= HardwareSize[hard]
  BY DEF InitBufferFits
<1>3. /\ curBufSize' = curBufSize + num
      /\ maxAddr' = [maxAddr EXCEPT ![hard] = base + size]
  BY DEF CarveBuffers
<1>4. curBufSize' \in 0 .. QBUF_MAX_LEN
  BY <1>1, <1>2, <1>3
<1>5. maxAddr' \in [Mem -> Nat]
  BY <1>1, <1>3 DEF PipeTypeOK
\* The i-th new buffer.
<1> DEFINE New(i) == [NewBuffer EXCEPT !.hard = hard, !.dataLen = len, !.address = base + i * len]
<1>6. ASSUME NEW i \in Nat
      PROVE  /\ New(i) \in TBufType
             /\ New(i).hard = hard /\ New(i).dataLen = len /\ New(i).address = base + i * len
             /\ i * len \in Nat /\ base + i * len \in Nat
  <2>1. i * len \in Nat /\ base + i * len \in Nat
    BY <1>1
  <2>2. NewBuffer \in TBufType
    BY TPipeAssumption, NoIdTyped DEF NewBuffer, TBufType, TBufState
  <2> HIDE DEF base
  <2> QED
    BY <2>1, <2>2 DEF TBufType
<1>7. buf' = [h \in Handle |-> IF h \in curBufSize .. (curBufSize + num - 1)
                                 THEN New(h - curBufSize) ELSE buf[h]]
  BY DEF CarveBuffers
<1> HIDE DEF New
<1>8. ASSUME NEW h \in Handle, h \in curBufSize .. (curBufSize + num - 1)
      PROVE  /\ h - curBufSize \in Nat /\ h - curBufSize < num
             /\ buf'[h] = New(h - curBufSize)
  BY <1>1, <1>7, <1>8
<1>9. ASSUME NEW h \in Handle, h \notin curBufSize .. (curBufSize + num - 1)
      PROVE  buf'[h] = buf[h]
  BY <1>7, <1>9
<1>10. buf' \in [Handle -> TBufType]
  <2>1. \A h \in Handle : buf'[h] \in TBufType
    BY <1>6, <1>8, <1>9 DEF PipeTypeOK
  <2> QED
    BY <1>7, <2>1
<1>11. CoreTypeOK' /\ UNCHANGED <<eventOccupy, destroyed>>
  BY DEF CarveBuffers, coreVars, CoreTypeOK
\* Every handle of the new table is an old one or a new one.
<1>12. ASSUME NEW h \in 0 .. (curBufSize' - 1)
       PROVE  /\ h \in Handle
              /\ \/ h \in 0 .. (curBufSize - 1) /\ h < curBufSize /\ buf'[h] = buf[h]
                 \/ h >= curBufSize /\ h - curBufSize \in Nat /\ h - curBufSize < num
                    /\ buf'[h] = New(h - curBufSize)
  <2>1. h \in Handle /\ h \in Nat /\ h < curBufSize + num
    BY <1>1, <1>2, <1>3 DEF Handle
  <2>2. CASE h < curBufSize
    BY <1>1, <1>9, <2>1, <2>2
  <2>3. CASE h >= curBufSize
    BY <1>1, <1>8, <2>1, <2>3
  <2> QED
    BY <1>1, <2>1, <2>2, <2>3
<1>13. \A m \in Mem : maxAddr'[m] % ONE_BLK_SIZE = 0 /\ maxAddr'[m] <= HardwareSize[m]
  <2>1. (base + size) % ONE_BLK_SIZE = 0
    <3> HIDE DEF base, size
    <3> QED
      BY <1>1 DEF ONE_BLK_SIZE
  <2> QED
    BY <1>2, <1>3, <2>1 DEF PipeTypeOK, Layout
<1>14. ASSUME NEW h \in 0 .. (curBufSize' - 1)
       PROVE  /\ buf'[h].address % ONE_BLK_SIZE = 0
              /\ buf'[h].dataLen % ONE_BLK_SIZE = 0
              /\ buf'[h].address + buf'[h].dataLen <= maxAddr'[buf'[h].hard]
  <2>1. CASE h \in 0 .. (curBufSize - 1) /\ buf'[h] = buf[h]
    <3>1. /\ buf[h].address % ONE_BLK_SIZE = 0
          /\ buf[h].dataLen % ONE_BLK_SIZE = 0
          /\ buf[h].address + buf[h].dataLen <= maxAddr[buf[h].hard]
      BY <2>1 DEF Layout
    <3>2. buf[h].hard \in Mem /\ buf[h].address \in Nat /\ buf[h].dataLen \in Nat
      BY <1>12 DEF PipeTypeOK, TBufType
    <3>3. \A m \in Mem : maxAddr[m] \in Nat /\ maxAddr'[m] \in Nat /\ maxAddr[m] <= maxAddr'[m]
      <4> HIDE DEF size
      <4> QED
        BY <1>1, <1>3 DEF PipeTypeOK
    <3> QED
      BY <2>1, <3>1, <3>2, <3>3
  <2>2. CASE /\ h - curBufSize \in Nat /\ h - curBufSize < num
             /\ buf'[h] = New(h - curBufSize)
    <3> DEFINE i == h - curBufSize
    <3>1. i \in Nat /\ i < num /\ buf'[h] = New(i)
      BY <2>2
    <3> HIDE DEF i
    <3>2. /\ (i * len) % ONE_BLK_SIZE = 0 /\ i * len \in Nat
          /\ i * len + len <= size
      BY <1>1, <3>1, MultipleOfBlock, NextMultiple
    <3>3. /\ buf'[h].hard = hard /\ buf'[h].dataLen = len /\ buf'[h].address = base + i * len
      BY <1>6, <3>1
    <3>4. maxAddr'[hard] = base + size
      BY <1>3 DEF PipeTypeOK
    <3> DEFINE off == i * len
    <3>5. /\ off \in Nat /\ off % ONE_BLK_SIZE = 0 /\ off + len <= size
          /\ buf'[h].address = base + off
      BY <3>2, <3>3
    <3> HIDE DEF off, base, size
    <3>6. (base + off) % ONE_BLK_SIZE = 0 /\ base + off + len <= base + size
      BY <1>1, <3>5 DEF ONE_BLK_SIZE
    <3> QED
      BY <1>1, <3>3, <3>4, <3>5, <3>6
  <2> QED
    BY <1>12, <2>1, <2>2
<1>15. ASSUME NEW h \in 0 .. (curBufSize' - 1), NEW k \in 0 .. (curBufSize' - 1),
              h < k, buf'[h].hard = buf'[k].hard
       PROVE  buf'[h].address + buf'[h].dataLen <= buf'[k].address
  <2>1. CASE k \in 0 .. (curBufSize - 1) /\ buf'[k] = buf[k]
    <3>1. h \in 0 .. (curBufSize - 1) /\ buf'[h] = buf[h]
      BY <1>1, <1>12, <1>15, <2>1
    <3> QED
      BY <1>15, <2>1, <3>1 DEF Layout
  <2>2. CASE /\ k >= curBufSize /\ k - curBufSize \in Nat /\ k - curBufSize < num
             /\ buf'[k] = New(k - curBufSize)
    <3> DEFINE j == k - curBufSize
    <3>1. j \in Nat /\ j < num /\ buf'[k] = New(j)
      BY <2>2
    <3>2. buf'[k].hard = hard /\ buf'[k].address = base + j * len /\ j * len \in Nat
      BY <1>6, <3>1
    <3>3. CASE h \in 0 .. (curBufSize - 1) /\ buf'[h] = buf[h]
      <4>1. buf[h].hard = hard
        BY <1>15, <3>2, <3>3
      <4>2. buf[h].address + buf[h].dataLen <= base
        BY <3>3, <4>1 DEF Layout
      <4>3. buf[h].address \in Nat /\ buf[h].dataLen \in Nat
        BY <1>12 DEF PipeTypeOK, TBufType
      <4> DEFINE off == j * len
      <4>4. off \in Nat /\ buf'[k].address = base + off
        BY <3>2
      <4> HIDE DEF off, j, base
      <4> QED
        BY <1>1, <3>3, <4>2, <4>3, <4>4
    <3>4. CASE /\ h >= curBufSize /\ h - curBufSize \in Nat /\ h - curBufSize < num
               /\ buf'[h] = New(h - curBufSize)
      <4> DEFINE i == h - curBufSize
      <4>1. i \in Nat /\ buf'[h] = New(i) /\ i < j
        BY <1>1, <1>15, <3>4
      <4>2. buf'[h].dataLen = len /\ buf'[h].address = base + i * len /\ i * len \in Nat
        BY <1>6, <4>1
      <4> HIDE DEF i, j
      <4>3. i * len + len <= j * len
        BY <3>1, <4>1, NextMultiple
      <4> DEFINE oi == i * len
                 oj == j * len
      <4>4. /\ oi \in Nat /\ oj \in Nat /\ oi + len <= oj
            /\ buf'[h].address = base + oi /\ buf'[k].address = base + oj
        BY <3>2, <4>2, <4>3
      <4> HIDE DEF oi, oj, base
      <4> QED
        BY <1>1, <4>2, <4>4
    <3> QED
      BY <1>12, <3>3, <3>4
  <2> QED
    BY <1>12, <2>1, <2>2
<1>16. Layout'
  BY <1>13, <1>14, <1>15 DEF Layout
<1> QED
  BY <1>4, <1>5, <1>10, <1>11, <1>16

\* What every kernel's invariant starts from.
BaseOK == CoreTypeOK /\ PipeTypeOK /\ Layout

LEMMA BaseInit == CoreInit /\ PipeInit => BaseOK
<1> SUFFICES ASSUME CoreInit, PipeInit PROVE BaseOK
  OBVIOUS
<1>1. CoreTypeOK
  BY FreshTyped DEF CoreInit, CoreTypeOK
<1>2. Layout
  BY LayoutEmpty DEF PipeInit
<1> QED
  BY <1>1, <1>2, PipeInitTyped DEF BaseOK

LEMMA BaseUnchanged ==
  ASSUME BaseOK, UNCHANGED <<coreVars, pipeVars>>
  PROVE  BaseOK'
  BY DEF BaseOK, coreVars, pipeVars, CoreTypeOK, PipeTypeOK, Layout, TQueType

LEMMA BaseRefuse ==
  ASSUME BaseOK, NEW n \in Nat, Refuse(n)
  PROVE  BaseOK' /\ UNCHANGED pipeVars
<1>1. CoreTypeOK' /\ UNCHANGED pipeVars
  BY RefuseTyped DEF BaseOK
<1>2. PipeTypeOK' /\ Layout'
  BY <1>1 DEF BaseOK, pipeVars, PipeTypeOK, Layout, TQueType
<1> QED
  BY <1>1, <1>2 DEF BaseOK

LEMMA BaseInitBuffer ==
  ASSUME BaseOK, NEW q \in Queue, NEW num \in Nat, NEW len \in Nat, InitBuffer(q, num, len)
  PROVE  BaseOK'
<1>1. BufHardType[q] \in Mem /\ Depth[q] \in Nat
  BY TPipeAssumption
<1>2. /\ InitBufferFits(BufHardType[q], Depth[q], num, len)
      /\ CarveBuffers(BufHardType[q], num, len)
  BY DEF InitBuffer
<1>3. /\ CoreTypeOK' /\ Layout'
      /\ buf' \in [Handle -> TBufType]
      /\ curBufSize' \in 0 .. QBUF_MAX_LEN
      /\ maxAddr' \in [Mem -> Nat]
      /\ UNCHANGED <<eventOccupy, destroyed>>
  BY <1>1, <1>2, CarveTyped DEF BaseOK
<1>4. QueueTypeOK'
  <2> DEFINE rec == [queue[q] EXCEPT !.start = curBufSize, !.num = num, !.cursor = 0,
                                     !.head = 0, !.tail = 0, !.used = 0]
  <2>1. queue[q] \in TQueType(q)
    BY DEF BaseOK, PipeTypeOK
  <2>2. num \in 0 .. Depth[q] /\ curBufSize \in 0 .. QBUF_MAX_LEN /\ 0 \in 0 .. (Depth[q] - 1)
    BY <1>1, <1>2, TPipeAssumption DEF InitBufferFits, BaseOK, PipeTypeOK
  <2>3. rec \in TQueType(q)
    <3>1. ASSUME NEW s \in 0 .. QBUF_MAX_LEN, NEW n \in 0 .. Depth[q], NEW c \in Nat,
                 NEW hd \in 0 .. (Depth[q] - 1), NEW tl \in 0 .. (Depth[q] - 1),
                 NEW u \in 0 .. Depth[q]
          PROVE  [queue[q] EXCEPT !.start = s, !.num = n, !.cursor = c,
                                  !.head = hd, !.tail = tl, !.used = u] \in TQueType(q)
      BY <2>1 DEF TQueType
    <3>2. 0 \in Nat /\ 0 \in 0 .. Depth[q]
      BY <1>1
    <3> QED
      BY <2>2, <3>1, <3>2, Zenon
  <2>4. queue' = [queue EXCEPT ![q] = rec]
    BY <2>1 DEF InitBuffer, BaseOK, PipeTypeOK, TQueType
  <2> QED
    BY <2>3, <2>4, OneQueueTyped DEF BaseOK
<1> QED
  BY <1>3, <1>4 DEF BaseOK, PipeTypeOK, QueueTypeOK

\* q lies behind all others, with an empty ring.
LEMMA InitBufferPlaces ==
  ASSUME BaseOK, NEW q \in Queue, NEW num \in Nat, NEW len \in Nat, InitBuffer(q, num, len)
  PROVE  /\ curBufSize' = curBufSize + num
         /\ queue'[q].start = curBufSize /\ queue'[q].num = num /\ queue'[q].used = 0
         /\ queue'[q].head = 0 /\ queue'[q].tail = 0
         /\ \A r \in Queue \ {q} : queue'[r] = queue[r]
<1>1. queue[q] \in TQueType(q) /\ queue = [r \in Queue |-> queue[r]]
  BY DEF BaseOK, PipeTypeOK
<1> QED
  BY <1>1 DEF InitBuffer, CarveBuffers, TQueType

LEMMA BaseReset ==
  ASSUME BaseOK, Reset
  PROVE  BaseOK'
<1>1. CoreTypeOK'
  BY DEF Reset, coreVars, BaseOK, CoreTypeOK
<1>2. curBufSize' = 0 /\ maxAddr' = NewPipe.maxAddr
  BY DEF Reset
<1>3. PipeTypeOK'
  BY <1>2, NewPipeTyped, TPipeAssumption DEF Reset, BaseOK, PipeTypeOK, TQueType
<1>4 Layout'
  <2>1. \A m \in Mem : maxAddr'[m] = 0
    BY <1>2 DEF NewPipe
  <2> QED
    BY <1>2, <2>1, TPipeAssumption DEF Layout, ONE_BLK_SIZE
<1> QED
  BY <1>1, <1>3, <1>4 DEF BaseOK

LEMMA BaseDestroy ==
  ASSUME BaseOK, Destroy
  PROVE  BaseOK' /\ InPlace
<1>1. CoreTypeOK' /\ PipeTypeOK' /\ InPlace
  BY DestroyTyped DEF BaseOK
<1> QED
  BY <1>1, LayoutStays DEF Destroy, BaseOK

LEMMA BaseNextKernel ==
  ASSUME BaseOK, NextKernel
  PROVE  BaseOK'
<1>1. CoreTypeOK' /\ PipeTypeOK'
  BY NextKernelTyped DEF BaseOK
<1>2. curBufSize' = 0 /\ maxAddr' = NewPipe.maxAddr
  BY DEF NextKernel
<1>3 Layout'
  <2>1. \A m \in Mem : maxAddr'[m] = 0
    BY <1>2 DEF NewPipe
  <2> QED
    BY <1>2, <2>1, TPipeAssumption DEF Layout, ONE_BLK_SIZE
<1> QED
  BY <1>1, <1>3 DEF BaseOK

\* The calls of a queue that succeed.
LEMMA BaseQueueCall ==
  ASSUME BaseOK, NEW q \in Queue, NEW h \in Handle,
         AllocTensor(q) \/ EnQue(q, h) \/ DeQue(q) \/ FreeTensor(q, h)
  PROVE  BaseOK' /\ InPlace
<1>1. CoreTypeOK' /\ PipeTypeOK' /\ InPlace
  BY AllocTensorTyped, EnQueTyped, DeQueTyped, FreeTensorTyped DEF BaseOK
<1>2. UNCHANGED <<curBufSize, maxAddr>>
  BY DEF AllocTensor, EnQue, DeQue, FreeTensor
<1> QED
  BY <1>1, <1>2, LayoutStays DEF BaseOK

\* They move no queue to other buffers.
LEMMA RingCallKeepsPlace ==
  ASSUME PipeTypeOK, NEW q \in Queue, NEW h,
         AllocTensor(q) \/ EnQue(q, h) \/ DeQue(q) \/ DeQueWrongState(q) \/ FreeTensor(q, h)
  PROVE  /\ UNCHANGED curBufSize
         /\ \A r \in Queue : queue'[r].start = queue[r].start /\ queue'[r].num = queue[r].num
<1>1. queue[q] \in TQueType(q)
  BY DEF PipeTypeOK
<1>2. CASE AllocTensor(q)
  BY <1>1, <1>2 DEF AllocTensor, PipeTypeOK, TQueType
<1>3. CASE EnQue(q, h)
  <2> DEFINE rec == [queue[q] EXCEPT !.ring[queue[q].tail] = h,
                                     !.tail = (queue[q].tail + 1) % Depth[q],
                                     !.used = queue[q].used + 1]
  <2>1. rec.start = queue[q].start /\ rec.num = queue[q].num
    BY <1>1 DEF TQueType
  <2>2. queue' = [queue EXCEPT ![q] = rec] /\ UNCHANGED curBufSize
    BY <1>1, <1>3 DEF EnQue, PipeTypeOK, TQueType
  <2> HIDE DEF rec
  <2> QED
    BY <2>1, <2>2 DEF PipeTypeOK
<1>4. CASE DeQue(q) \/ DeQueWrongState(q)
  <2>1. queue' = RingAfterDeQue(q) /\ UNCHANGED curBufSize
    BY <1>4 DEF DeQue, DeQueWrongState
  <2> QED
    BY <1>1, <2>1 DEF RingAfterDeQue, PipeTypeOK, TQueType
<1>5. CASE FreeTensor(q, h)
  BY <1>5 DEF FreeTensor
<1> QED
  BY <1>2, <1>3, <1>4, <1>5

LEMMA BaseDeQueWrongState ==
  ASSUME BaseOK, NEW q \in Queue, DeQueWrongState(q)
  PROVE  BaseOK'
<1>1. CoreTypeOK'
  BY ReportTyped DEF DeQueWrongState, BaseOK, CoreTypeOK
<1>2. QueueTypeOK'
  BY RingAfterDeQueTyped DEF DeQueWrongState, BaseOK
<1>3. PipeTypeOK'
  BY <1>2 DEF DeQueWrongState, BaseOK, PipeTypeOK, QueueTypeOK
<1>4. Layout'
  BY DEF DeQueWrongState, BaseOK, Layout
<1> QED
  BY <1>1, <1>3, <1>4 DEF BaseOK

-----------------------------------------------------------------------------
(* The ring as a sequence.                                                 *)

\* The two indexes agree with the count.
Aligned(q) == (queue[q].head + queue[q].used) % Depth[q] = queue[q].tail

LEMMA PublishedEntry ==
  ASSUME PipeTypeOK, NEW q \in Queue
  PROVE  /\ queue[q].used \in Nat
         /\ DOMAIN Published(q) = 1 .. queue[q].used
         /\ \A i \in 1 .. queue[q].used :
              /\ Published(q)[i] \in Handle
              /\ Published(q)[i] = queue[q].ring[(queue[q].head + i - 1) % Depth[q]]
<1>1. queue[q] \in TQueType(q) /\ Depth[q] \in Nat \ {0}
  BY TPipeAssumption DEF PipeTypeOK
<1>2. queue[q].used \in Nat
  BY <1>1 DEF TQueType
<1>3. ASSUME NEW i \in 1 .. queue[q].used
      PROVE  queue[q].ring[(queue[q].head + i - 1) % Depth[q]] \in Handle
  <2>1. queue[q].head + i - 1 \in Nat
    BY <1>1, <1>2 DEF TQueType
  <2>2. (queue[q].head + i - 1) % Depth[q] \in 0 .. (Depth[q] - 1)
    BY <1>1, <2>1, ModInRange, Zenon
  <2> QED
    BY <1>1, <2>2 DEF TQueType
<1> QED
  BY <1>2, <1>3 DEF Published

\* Different entries sit in different places, and the next one in yet another.
LEMMA RingPlaces ==
  ASSUME NEW D \in Nat \ {0}, NEW head \in 0 .. (D - 1), NEW i \in Nat, NEW j \in Nat,
         i < j, j < D
  PROVE  (head + i) % D # (head + j) % D
<1> DEFINE x == head + i
           y == head + j
<1>1. x \in Nat /\ y \in Nat /\ x < 2 * D /\ y < 2 * D /\ x < y /\ y < x + D
  OBVIOUS
<1> HIDE DEF x, y
<1>2. x % D = (IF x < D THEN x ELSE x - D) /\ y % D = (IF y < D THEN y ELSE y - D)
  BY <1>1, ModOnce
<1>3. x % D # y % D
  BY <1>1, <1>2
<1> QED
  BY <1>3 DEF x, y

LEMMA RingAdvance ==
  ASSUME NEW D \in Nat \ {0}, NEW head \in 0 .. (D - 1), NEW i \in Nat, i < D
  PROVE  (((head + 1) % D) + i) % D = (head + i + 1) % D
<1> DEFINE x == head + 1
<1>1. x \in Nat /\ x < 2 * D
  OBVIOUS
<1>2. x % D = IF x < D THEN x ELSE x - D
  BY <1>1, ModOnce
<1>3. CASE x < D
  <2>1. (x % D) + i = head + i + 1
    BY <1>2, <1>3
  <2> QED
    BY <2>1
<1>4. CASE ~ (x < D)
  <2>1. x = D /\ x % D = 0 /\ head + i + 1 = D + i
    BY <1>1, <1>2, <1>4
  <2>2. (x % D) + i = i
    BY <2>1
  <2>3. i % D = i
    BY ModOnce
  <2>4. (D + i) % D = i
    <3>1. D + i \in Nat /\ D + i < 2 * D
      OBVIOUS
    <3> QED
      BY <3>1, ModOnce
  <2> QED
    BY <2>1, <2>2, <2>3, <2>4
<1> QED
  BY <1>3, <1>4

LEMMA RingNext ==
  ASSUME NEW D \in Nat \ {0}, NEW head \in 0 .. (D - 1), NEW n \in Nat, n < D
  PROVE  (((head + n) % D) + 1) % D = (head + (n + 1)) % D
<1> DEFINE x == head + n
           y == x + 1
<1>1. x \in Nat /\ x < 2 * D /\ head + (n + 1) = y
  OBVIOUS
<1> HIDE DEF x
<1>2. x % D = IF x < D THEN x ELSE x - D
  BY <1>1, ModOnce
<1>3. CASE x < D
  <2>1. x % D = x
    BY <1>2, <1>3
  <2> QED
    BY <1>1, <2>1 DEF x
<1>4. CASE ~ (x < D)
  <2>1. x % D = x - D /\ y - D \in Nat /\ y - D < D /\ y \in Nat /\ y < 2 * D /\ ~ (y < D)
    <3>1. x + 1 < 2 * D
      BY <1>1 DEF x
    <3> QED
      BY <1>1, <1>2, <1>4, <3>1
  <2>2. (x % D) + 1 = y - D
    BY <1>1, <2>1
  <2> HIDE DEF y
  <2>3. y % D = y - D
    BY <2>1, ModOnce
  <2> DEFINE z == y - D
  <2>4. z \in Nat /\ z < D /\ z < 2 * D
    BY <2>1
  <2> HIDE DEF z
  <2>5. z % D = z
    BY <2>4, ModOnce
  <2>6. ((x % D) + 1) % D = y % D
    BY <2>2, <2>3, <2>5 DEF z
  <2> QED
    BY <1>1, <2>6 DEF x
<1> QED
  BY <1>3, <1>4

LEMMA RingFirst ==
  ASSUME NEW D \in Nat \ {0}, NEW head \in 0 .. (D - 1)
  PROVE  (head + 1 - 1) % D = head
<1>1. head + 1 - 1 = head /\ head \in Nat /\ head < D /\ head < 2 * D
  OBVIOUS
<1>2. head % D = head
  BY <1>1, ModOnce
<1> QED
  BY <1>1, <1>2

\* EnQue appends, if there is room.
LEMMA RingAfterEnQue ==
  ASSUME PipeTypeOK, NEW q \in Queue, NEW h \in Handle, Aligned(q), EnQue(q, h)
  PROVE  /\ queue'[q].used = queue[q].used + 1
         /\ queue[q].used < Depth[q]
         /\ \A i \in 1 .. queue[q].used : Published(q)'[i] = Published(q)[i]
         /\ Published(q)'[queue[q].used + 1] = h
         /\ Aligned(q)'
         /\ \A r \in Queue \ {q} : queue'[r] = queue[r]
         /\ UNCHANGED <<queue[q].start, queue[q].num>>
<1> DEFINE D == Depth[q]   head == queue[q].head   n == queue[q].used
<1>2. queue[q] \in TQueType(q)
  BY DEF PipeTypeOK
<1>1. D \in Nat \ {0} /\ head \in 0 .. (D - 1) /\ n \in Nat /\ n < D
  <2>1. D \in Nat \ {0}
    BY TPipeAssumption
  <2> QED
    BY <1>2, <2>1 DEF TQueType, EnQue, VacantInQue
<1>3. /\ queue'[q].used = n + 1
      /\ queue'[q].head = head
      /\ queue'[q].ring = [queue[q].ring EXCEPT ![(head + n) % D] = h]
      /\ queue'[q].tail = (((head + n) % D) + 1) % D
      /\ queue'[q].start = queue[q].start /\ queue'[q].num = queue[q].num
      /\ \A r \in Queue \ {q} : queue'[r] = queue[r]
  BY <1>2 DEF EnQue, PipeTypeOK, TQueType, Aligned
<1>4. ASSUME NEW i \in Nat, i <= n
      PROVE  (head + i) % D \in 0 .. (D - 1)
  <2>1. head + i \in Nat
    BY <1>1
  <2> QED
    BY <1>1, <2>1, ModInRange, Zenon
<1>5. queue[q].ring \in [0 .. (D - 1) -> Handle]
  BY <1>2 DEF TQueType
<1>6. ASSUME NEW i \in 1 .. (n + 1)
      PROVE  Published(q)'[i] = queue'[q].ring[(head + (i - 1)) % D]
  <2>1. Published(q)'[i] = queue'[q].ring[(queue'[q].head + i - 1) % D]
    BY <1>3 DEF Published
  <2>2. queue'[q].head + i - 1 = head + (i - 1)
    BY <1>1, <1>3
  <2> QED
    BY <2>1, <2>2
<1>7. ASSUME NEW i \in 1 .. n
      PROVE  Published(q)'[i] = Published(q)[i]
  <2>1. i - 1 \in Nat /\ i - 1 < n /\ i \in 1 .. (n + 1)
    BY <1>1
  <2>2. (head + (i - 1)) % D # (head + n) % D
    BY <1>1, <2>1, RingPlaces
  <2>3. Published(q)'[i] = queue[q].ring[(head + (i - 1)) % D]
    BY <1>3, <1>4, <1>5, <1>6, <2>1, <2>2
  <2>4. Published(q)[i] = queue[q].ring[(head + i - 1) % D]
    BY PublishedEntry
  <2>5. head + i - 1 = head + (i - 1)
    BY <1>1
  <2> QED
    BY <2>3, <2>4, <2>5
<1>8. Published(q)'[n + 1] = h
  <2>1. n + 1 \in 1 .. (n + 1) /\ (n + 1) - 1 = n
    BY <1>1
  <2>2. Published(q)'[n + 1] = queue'[q].ring[(head + n) % D]
    BY <1>6, <2>1
  <2> QED
    BY <1>1, <1>3, <1>4, <1>5, <2>2
<1>9. Aligned(q)'
  <2>1. (((head + n) % D) + 1) % D = (head + (n + 1)) % D
    BY <1>1, RingNext
  <2>2. (queue'[q].head + queue'[q].used) % D = queue'[q].tail
    BY <1>3, <2>1
  <2> QED
    BY <2>2 DEF Aligned
<1> QED
  BY <1>1, <1>3, <1>7, <1>8, <1>9

\* DeQue and its failing variant take the first.
LEMMA RingAfterTake ==
  ASSUME PipeTypeOK, NEW q \in Queue, Aligned(q), HasTensorInQue(q), queue' = RingAfterDeQue(q)
  PROVE  /\ queue'[q].used = queue[q].used - 1
         /\ queue[q].used >= 1
         /\ Published(q)[1] = OldestSlot(q)
         /\ \A i \in 1 .. (queue[q].used - 1) : Published(q)'[i] = Published(q)[i + 1]
         /\ Aligned(q)'
         /\ \A r \in Queue \ {q} : queue'[r] = queue[r]
         /\ UNCHANGED <<queue[q].start, queue[q].num>>
<1> DEFINE D == Depth[q]   head == queue[q].head   n == queue[q].used
<1>2. queue[q] \in TQueType(q)
  BY DEF PipeTypeOK
<1>1. D \in Nat \ {0} /\ head \in 0 .. (D - 1) /\ n \in Nat /\ n >= 1 /\ n <= D
  <2>1. D \in Nat \ {0}
    BY TPipeAssumption
  <2> QED
    BY <1>2, <2>1 DEF TQueType, HasTensorInQue
<1>3. /\ queue'[q].used = n - 1
      /\ queue'[q].head = (head + 1) % D
      /\ queue'[q].ring = queue[q].ring
      /\ queue'[q].tail = queue[q].tail
      /\ queue'[q].start = queue[q].start /\ queue'[q].num = queue[q].num
      /\ \A r \in Queue \ {q} : queue'[r] = queue[r]
  BY <1>2 DEF RingAfterDeQue, PipeTypeOK, TQueType
<1>4. Published(q)[1] = OldestSlot(q)
  <2>1. 1 \in 1 .. n
    BY <1>1
  <2>2. (head + 1 - 1) % D = head
    BY <1>1, RingFirst
  <2>3. Published(q)[1] = queue[q].ring[(head + 1 - 1) % D]
    BY <2>1, PublishedEntry
  <2> QED
    BY <2>1, <2>2, <2>3 DEF OldestSlot
<1>5. ASSUME NEW i \in Nat, i < D
      PROVE  (queue'[q].head + i) % D = (head + i + 1) % D
  BY <1>1, <1>3, <1>5, RingAdvance
<1>6. ASSUME NEW i \in 1 .. (n - 1)
      PROVE  Published(q)'[i] = Published(q)[i + 1]
  <2>1. i - 1 \in Nat /\ i - 1 < D /\ i + 1 \in 1 .. n
    BY <1>1
  <2>2. Published(q)'[i] = queue'[q].ring[(queue'[q].head + i - 1) % D]
    BY <1>3 DEF Published
  <2>3. queue'[q].head \in Int
    <3>1. head + 1 \in Nat
      BY <1>1
    <3>2. (head + 1) % D \in Nat
      BY <1>1, <3>1, ModInRange, Zenon
    <3> QED
      BY <1>3, <3>2
  <2>4. queue'[q].head + i - 1 = queue'[q].head + (i - 1)
    BY <2>3
  <2>5. Published(q)'[i] = queue[q].ring[(head + (i - 1) + 1) % D]
    BY <1>3, <1>5, <2>1, <2>2, <2>4
  <2>6. Published(q)[i + 1] = queue[q].ring[(head + (i + 1) - 1) % D]
    BY <2>1, PublishedEntry
  <2>7. head + (i - 1) + 1 = head + (i + 1) - 1
    BY <1>1
  <2> QED
    BY <2>5, <2>6, <2>7
<1>7. Aligned(q)'
  <2>1. n - 1 \in Nat /\ n - 1 < D /\ head + (n - 1) + 1 = head + n
    BY <1>1
  <2>2. (queue'[q].head + (n - 1)) % D = (head + n) % D
    BY <1>5, <2>1
  <2> QED
    BY <1>3, <2>2 DEF Aligned
<1> QED
  BY <1>1, <1>3, <1>4, <1>6, <1>7

-----------------------------------------------------------------------------
(* Flags and ids: a hand-over takes one of each, its wait gives both back.  *)

LEMMA PoolAfterSet ==
  ASSUME CoreTypeOK, PipeTypeOK, NEW e \in Event, NEW id,
         id = NextEventID(e), flags' = FlagsAfterSet(e, id), eventOccupy' = OccupyAfterAlloc(e),
         NEW f \in Event, NEW i \in EventId
  PROVE  /\ flags'[f][i].pending <=> flags[f][i].pending \/ (f = e /\ i = id)
         /\ i \in eventOccupy'[f] <=> i \in eventOccupy[f] \/ (f = e /\ i = id)
         /\ ~ (f = e /\ i = id) => flags'[f][i] = flags[f][i]
<1>1. i \in eventOccupy'[f] <=> i \in eventOccupy[f] \/ (f = e /\ i = id)
  BY DEF OccupyAfterAlloc, PipeTypeOK
<1>2. flags \in [Event -> [EventId -> EventSlot]]
  BY DEF CoreTypeOK
<1>3. CASE f = e /\ i = id
  <2>1. flags'[f][i] = [pending |-> TRUE, snapshot |-> Snapshot(EventSrcPipe[e])]
    BY <1>2, <1>3 DEF FlagsAfterSet
  <2>2. flags'[f][i].pending
    BY <2>1
  <2> QED
    BY <1>1, <1>3, <2>2
<1>4. CASE ~ (f = e /\ i = id)
  <2>1. flags'[f][i] = flags[f][i]
    BY <1>2, <1>4 DEF FlagsAfterSet
  <2> QED
    BY <1>1, <1>4, <2>1
<1> QED
  BY <1>3, <1>4

LEMMA PoolAfterWait ==
  ASSUME CoreTypeOK, PipeTypeOK, NEW e \in Event, NEW id,
         flags' = FlagsAfterWait(e, id), eventOccupy' = OccupyAfterRelease(e, id),
         NEW f \in Event, NEW i \in EventId
  PROVE  /\ flags'[f][i].pending <=> flags[f][i].pending /\ ~ (f = e /\ i = id)
         /\ i \in eventOccupy'[f] <=> i \in eventOccupy[f] /\ ~ (f = e /\ i = id)
         /\ ~ (f = e /\ i = id) => flags'[f][i] = flags[f][i]
<1>1. i \in eventOccupy'[f] <=> i \in eventOccupy[f] /\ ~ (f = e /\ i = id)
  BY DEF OccupyAfterRelease, PipeTypeOK
<1>2. flags \in [Event -> [EventId -> EventSlot]]
  BY DEF CoreTypeOK
<1>3. CASE ~ Raised(e, id)
  <2>1. flags' = flags
    BY <1>3 DEF FlagsAfterWait
  <2>2. f = e /\ i = id => ~ flags[f][i].pending
    BY <1>3 DEF Raised
  <2> QED
    BY <1>1, <2>1, <2>2
<1>4. CASE Raised(e, id)
  <2>1. id \in EventId /\ flags[e][id] \in EventSlot
    BY <1>2, <1>4 DEF Raised
  <2>2. flags' = [flags EXCEPT ![e] = [flags[e] EXCEPT ![id] =
                                         [flags[e][id] EXCEPT !.pending = FALSE]]]
    BY <1>4 DEF FlagsAfterWait
  <2>3. CASE f = e /\ i = id
    <3>1. flags'[f][i] = [flags[e][id] EXCEPT !.pending = FALSE]
      BY <1>2, <2>1, <2>2, <2>3
    <3>2. ~ flags'[f][i].pending
      BY <2>1, <3>1 DEF EventSlot
    <3> QED
      BY <1>1, <2>3, <3>2
  <2>4. CASE ~ (f = e /\ i = id)
    <3>1. flags'[f][i] = flags[f][i]
      BY <1>2, <2>1, <2>2, <2>4
    <3> QED
      BY <1>1, <2>4, <3>1
  <2> QED
    BY <2>3, <2>4
<1> QED
  BY <1>3, <1>4

\* What EnQue and FreeTensor do to the pool, DeQue and AllocTensor.
LEMMA CallsOfPool ==
  ASSUME NEW q \in Queue, NEW h
  PROVE  /\ EnQue(q, h) =>
              /\ flags' = FlagsAfterSet(EnQueEvt[q], NextEventID(EnQueEvt[q]))
              /\ eventOccupy' = OccupyAfterAlloc(EnQueEvt[q])
         /\ FreeTensor(q, h) =>
              /\ flags' = FlagsAfterSet(FreeBufEvt[q], NextEventID(FreeBufEvt[q]))
              /\ eventOccupy' = OccupyAfterAlloc(FreeBufEvt[q])
         /\ DeQue(q) =>
              LET id == buf[OldestSlot(q)].enQueEvtID
              IN  /\ flags' = FlagsAfterWait(EnQueEvt[q], id)
                  /\ eventOccupy' = OccupyAfterRelease(EnQueEvt[q], id)
         /\ AllocTensor(q) =>
              LET id == buf[IdleSlot(q)].freeBufEvtID
              IN  IF id = INVALID_TEVENTID
                    THEN UNCHANGED <<flags, eventOccupy>>
                    ELSE /\ flags' = FlagsAfterWait(FreeBufEvt[q], id)
                         /\ eventOccupy' = OccupyAfterRelease(FreeBufEvt[q], id)
  BY DEF EnQue, FreeTensor, DeQue, AllocTensor
=============================================================================
