------------------------- MODULE QueueKernelProofs --------------------------
(***************************************************************************)
(* A kernel that synchronises through its queues only, for any queues and  *)
(* any pipelining: its buffers stay apart, its rings hold what was         *)
(* published, event ids are exclusive, the queues implement SlotFifo, and, *)
(* if its layout is proper and it never resets its pipe, it is silent.     *)
(***************************************************************************)
EXTENDS QueueKernel, TPipeProofs, SequenceTheorems

-----------------------------------------------------------------------------
(* The invariant.                                                          *)

Place(q) == 1 .. queue[q].used

\* Queues that are ready have buffers of their own.  A queue that is not may
\* still name buffers of the phase before.
Placed ==
  /\ \A q \in Queue : queue[q].start + queue[q].num <= QBUF_MAX_LEN
  /\ \A q \in ready : queue[q].start + queue[q].num <= curBufSize
  /\ \A q, r \in ready : q # r => BuffersOf(q) \cap BuffersOf(r) = {}

\* Until all queues are ready nothing moves, and after Finish nothing does.
AtRest ==
  ready # Queue \/ destroyed =>
    \A q \in ready : \A h \in BuffersOf(q) : buf[h].state = "FREE"

RingOK(q) ==
  /\ Aligned(q)
  /\ \A i \in Place(q) : Published(q)[i] \in BuffersOf(q) /\ buf[Published(q)[i]].state = "ENQUE"
  /\ \A i, j \in Place(q) : Published(q)[i] = Published(q)[j] => i = j
  /\ \A h \in BuffersOf(q) : buf[h].state = "ENQUE" => \E i \in Place(q) : Published(q)[i] = h

\* An id of the forward event from EnQue to DeQue, one of the back event from
\* FreeTensor to AllocTensor.
IdsFollowState ==
  \A q \in ready : \A h \in BuffersOf(q) :
    /\ buf[h].state # "ENQUE" => buf[h].enQueEvtID = INVALID_TEVENTID
    /\ buf[h].state # "FREE" => buf[h].freeBufEvtID = INVALID_TEVENTID

KInv ==
  /\ BaseOK
  /\ ready \subseteq Queue /\ phase \in 0 .. Phases
  /\ Placed
  /\ AtRest
  /\ \A q \in ready : RingOK(q)
  /\ IdsFollowState

LEMMA QueueNumbers ==
  ASSUME PipeTypeOK, NEW q \in Queue
  PROVE  /\ queue[q].start \in Nat /\ queue[q].num \in Nat /\ queue[q].cursor \in Nat
         /\ queue[q].used \in Nat /\ curBufSize \in Nat /\ QBUF_MAX_LEN \in Nat
         /\ curBufSize <= QBUF_MAX_LEN
<1>1. queue[q] \in TQueType(q) /\ Depth[q] \in Nat /\ QBUF_MAX_LEN \in Nat
  BY TPipeAssumption DEF PipeTypeOK
<1>2. curBufSize \in Nat /\ curBufSize <= QBUF_MAX_LEN
  BY <1>1 DEF PipeTypeOK
<1> QED
  BY <1>1, <1>2 DEF TQueType

LEMMA BuffersInTable ==
  ASSUME PipeTypeOK, Placed, NEW q \in Queue, NEW h \in BuffersOf(q)
  PROVE  /\ h \in Handle
         /\ q \in ready => h < curBufSize
<1>1. h \in Nat /\ h < queue[q].start + queue[q].num
  BY QueueNumbers DEF BuffersOf
<1>2. queue[q].start + queue[q].num <= QBUF_MAX_LEN
  BY DEF Placed
<1>3. q \in ready => queue[q].start + queue[q].num <= curBufSize
  BY DEF Placed
<1> QED
  BY <1>1, <1>2, <1>3, QueueNumbers DEF Handle

\* AllocTensor finds a free buffer of its queue.
LEMMA IdleSlotFree ==
  ASSUME PipeTypeOK, NEW q \in Queue, HasIdleBuffer(q)
  PROVE  IdleSlot(q) \in BuffersOf(q) /\ buf[IdleSlot(q)].state = "FREE"
<1>1. IdleOffsets(q) \in SUBSET Nat /\ IdleOffsets(q) # {}
  BY QueueNumbers DEF HasIdleBuffer, IdleOffsets
<1> DEFINE i == Min(IdleOffsets(q))
           n == queue[q].num
           x == queue[q].cursor + i
<1>2. i \in IdleOffsets(q)
  BY <1>1, MinIsLeast
<1>3. i \in 0 .. (n - 1) /\ buf[SlotAfter(q, i)].state = "FREE"
  BY <1>2 DEF IdleOffsets
<1>4. x \in Nat /\ n \in Nat \ {0}
  <2>1. i \in Nat /\ n \in Nat /\ n # 0 /\ queue[q].cursor \in Nat
    <3> HIDE DEF i
    <3> QED
      BY <1>3, QueueNumbers
  <2> HIDE DEF i, n
  <2> QED
    BY <2>1
<1>5. x % n \in 0 .. (n - 1)
  <2> HIDE DEF x, n
  <2> QED
    BY <1>4, ModInRange, Zenon
<1>6. SlotAfter(q, i) \in BuffersOf(q)
  <2> DEFINE y == x % n
  <2>1. SlotAfter(q, i) = queue[q].start + y
    BY Zenon DEF SlotAfter
  <2>2. y \in 0 .. (n - 1)
    BY <1>5
  <2> HIDE DEF i, y
  <2> QED
    BY <2>1, <2>2, QueueNumbers DEF BuffersOf
<1> QED
  BY <1>3, <1>6 DEF IdleSlot

-----------------------------------------------------------------------------
(* What each call moves.                                                   *)

\* A queue keeps its buffers and its ring.
SameRing(r) ==
  /\ queue'[r].start = queue[r].start /\ queue'[r].num = queue[r].num
  /\ queue'[r].used = queue[r].used /\ queue'[r].head = queue[r].head
  /\ queue'[r].tail = queue[r].tail /\ queue'[r].ring = queue[r].ring

LEMMA SameRingSame ==
  ASSUME NEW r \in Queue, SameRing(r)
  PROVE  /\ BuffersOf(r)' = BuffersOf(r) /\ Place(r)' = Place(r)
         /\ Published(r)' = Published(r) /\ (Aligned(r)' <=> Aligned(r))
  BY DEF SameRing, BuffersOf, Place, Published, Aligned

\* Buffer h goes from state s to state t, the others stay as they are.
Moves(h, s, t) ==
  /\ h \in Handle /\ buf[h].state = s /\ buf'[h].state = t
  /\ \A k \in Handle \ {h} : buf'[k] = buf[k]

LEMMA ObtainMoves ==
  ASSUME KInv, NEW q \in Queue, Obtain(q)
  PROVE  LET h == IdleSlot(q)
         IN  /\ q \in ready /\ ready' = ready /\ h \in BuffersOf(q)
             /\ Moves(h, "FREE", "OCCUPIED")
             /\ buf'[h].enQueEvtID = buf[h].enQueEvtID
             /\ buf'[h].freeBufEvtID = INVALID_TEVENTID
             /\ \A r \in Queue : SameRing(r)
<1> DEFINE h == IdleSlot(q)
<1>1. PipeTypeOK /\ Placed /\ q \in ready /\ ready' = ready
  BY DEF KInv, BaseOK, Obtain, kernelVars
<1>2. h \in BuffersOf(q) /\ buf[h].state = "FREE"
  BY <1>1, IdleSlotFree DEF Obtain, AllocTensor
<1>3. h \in Handle
  BY <1>1, <1>2, BuffersInTable
<1>4. buf' = [buf EXCEPT ![h].state = "OCCUPIED", ![h].freeBufEvtID = INVALID_TEVENTID]
  BY DEF Obtain, AllocTensor
<1>5. \A r \in Queue : SameRing(r)
  <2>1. queue[q] \in TQueType(q)
    BY <1>1 DEF PipeTypeOK
  <2> QED
    BY <1>1, <2>1 DEF Obtain, AllocTensor, PipeTypeOK, TQueType, SameRing
<1> HIDE DEF h
<1>6. /\ buf'[h].state = "OCCUPIED" /\ buf'[h].enQueEvtID = buf[h].enQueEvtID
      /\ buf'[h].freeBufEvtID = INVALID_TEVENTID
      /\ \A k \in Handle \ {h} : buf'[k] = buf[k]
  BY <1>1, <1>3, <1>4 DEF PipeTypeOK, TBufType
<1> QED
  BY <1>1, <1>2, <1>3, <1>5, <1>6 DEF Moves, h

LEMMA PublishMoves ==
  ASSUME KInv, NEW q \in Queue, NEW h \in Handle, Publish(q, h)
  PROVE  /\ q \in ready /\ ready' = ready /\ h \in BuffersOf(q)
         /\ Moves(h, "OCCUPIED", "ENQUE")
         /\ buf'[h].enQueEvtID = NextEventID(EnQueEvt[q])
         /\ buf'[h].freeBufEvtID = buf[h].freeBufEvtID
         /\ \A r \in Queue \ {q} : SameRing(r)
<1>1. PipeTypeOK /\ RingOK(q)
  BY DEF KInv, BaseOK, Publish
<1>2. buf' = [buf EXCEPT ![h].state = "ENQUE", ![h].enQueEvtID = NextEventID(EnQueEvt[q])]
      /\ buf[h].state = "OCCUPIED"
  BY DEF Publish, EnQue
<1>3. \A r \in Queue \ {q} : queue'[r] = queue[r]
  BY <1>1, RingAfterEnQue DEF Publish, RingOK
<1>4. /\ buf'[h].state = "ENQUE" /\ buf'[h].enQueEvtID = NextEventID(EnQueEvt[q])
      /\ buf'[h].freeBufEvtID = buf[h].freeBufEvtID
      /\ \A k \in Handle \ {h} : buf'[k] = buf[k]
  BY <1>1, <1>2 DEF PipeTypeOK, TBufType
<1> QED
  BY <1>2, <1>3, <1>4 DEF Moves, SameRing, Publish, kernelVars

LEMMA ConsumeMoves ==
  ASSUME KInv, NEW q \in Queue, Consume(q)
  PROVE  LET h == OldestSlot(q)
         IN  /\ q \in ready /\ ready' = ready /\ h \in BuffersOf(q)
             /\ Moves(h, "ENQUE", "DEQUE")
             /\ buf'[h].enQueEvtID = INVALID_TEVENTID
             /\ buf'[h].freeBufEvtID = buf[h].freeBufEvtID
             /\ \A r \in Queue \ {q} : SameRing(r)
<1> DEFINE h == OldestSlot(q)
<1>1. PipeTypeOK /\ RingOK(q) /\ h \in Handle
  BY OldestIsHandle DEF KInv, BaseOK, Consume
<1>2. buf' = [buf EXCEPT ![h].state = "DEQUE", ![h].enQueEvtID = INVALID_TEVENTID]
      /\ buf[h].state = "ENQUE"
  BY DEF Consume, DeQue
<1>3. /\ queue[q].used >= 1 /\ Published(q)[1] = h
      /\ \A r \in Queue \ {q} : queue'[r] = queue[r]
  BY <1>1, RingAfterTake DEF Consume, DeQue, RingOK
<1>5. h \in BuffersOf(q)
  <2>1. 1 \in Place(q)
    BY <1>1, <1>3, QueueNumbers DEF Place
  <2> QED
    BY <1>1, <1>3, <2>1 DEF RingOK
<1> HIDE DEF h
<1>4. /\ buf'[h].state = "DEQUE" /\ buf'[h].enQueEvtID = INVALID_TEVENTID
      /\ buf'[h].freeBufEvtID = buf[h].freeBufEvtID
      /\ \A k \in Handle \ {h} : buf'[k] = buf[k]
  BY <1>1, <1>2 DEF PipeTypeOK, TBufType
<1> QED
  BY <1>1, <1>2, <1>3, <1>4, <1>5 DEF h, Moves, SameRing, Consume, kernelVars

LEMMA RecycleMoves ==
  ASSUME KInv, NEW q \in Queue, NEW h \in Handle, Recycle(q, h)
  PROVE  /\ q \in ready /\ ready' = ready /\ h \in BuffersOf(q)
         /\ Moves(h, "DEQUE", "FREE")
         /\ buf'[h].enQueEvtID = buf[h].enQueEvtID
         /\ buf'[h].freeBufEvtID = NextEventID(FreeBufEvt[q])
         /\ \A r \in Queue : SameRing(r)
<1>1. PipeTypeOK
  BY DEF KInv, BaseOK
<1>2. buf' = [buf EXCEPT ![h].state = "FREE", ![h].freeBufEvtID = NextEventID(FreeBufEvt[q])]
      /\ buf[h].state = "DEQUE" /\ queue' = queue
  BY DEF Recycle, FreeTensor
<1>4. /\ buf'[h].state = "FREE" /\ buf'[h].freeBufEvtID = NextEventID(FreeBufEvt[q])
      /\ buf'[h].enQueEvtID = buf[h].enQueEvtID
      /\ \A k \in Handle \ {h} : buf'[k] = buf[k]
  BY <1>1, <1>2 DEF PipeTypeOK, TBufType
<1> QED
  BY <1>2, <1>4 DEF Moves, SameRing, Recycle, kernelVars

LEMMA PrepareMoves ==
  ASSUME KInv, NEW q \in Queue, Prepare(q)
  PROVE  /\ q \notin ready /\ ready' = ready \cup {q} /\ Num[q] \in Nat
         /\ queue'[q].start = curBufSize /\ queue'[q].num = Num[q] /\ queue'[q].used = 0
         /\ queue'[q].head = 0 /\ queue'[q].tail = 0
         /\ curBufSize' = curBufSize + Num[q] /\ curBufSize' <= QBUF_MAX_LEN
         /\ \A r \in Queue \ {q} : SameRing(r)
         /\ \A k \in Handle : k < curBufSize => buf'[k] = buf[k]
         /\ \A k \in BuffersOf(q)' :
              /\ k \in Handle
              /\ buf'[k].state = "FREE" /\ buf'[k].enQueEvtID = INVALID_TEVENTID
              /\ buf'[k].freeBufEvtID = INVALID_TEVENTID
         /\ \A k \in Handle \ BuffersOf(q)' : buf'[k] = buf[k]
         /\ UNCHANGED <<coreVars, eventOccupy, destroyed>>
<1>0. PICK len \in BufLen[q] : InitBuffer(q, Num[q], len)
  BY DEF Prepare
<1>1. Num[q] \in Nat /\ len \in Nat /\ InitBuffer(q, Num[q], len)
  BY <1>0, QueueKernelAssumption
<1>2. BaseOK /\ PipeTypeOK /\ curBufSize \in Nat /\ QBUF_MAX_LEN \in Nat
  BY QueueNumbers DEF KInv, BaseOK
<1>3. /\ curBufSize' = curBufSize + Num[q]
      /\ queue'[q].start = curBufSize /\ queue'[q].num = Num[q] /\ queue'[q].used = 0
      /\ queue'[q].head = 0 /\ queue'[q].tail = 0
      /\ \A r \in Queue \ {q} : queue'[r] = queue[r]
  BY <1>1, <1>2, InitBufferPlaces
<1>4. curBufSize' <= QBUF_MAX_LEN
  BY <1>1, <1>3 DEF InitBuffer, InitBufferFits
<1>5. CarveBuffers(BufHardType[q], Num[q], len)
  BY <1>1 DEF InitBuffer
<1>6. BuffersOf(q)' = curBufSize .. (curBufSize + Num[q] - 1)
  BY <1>3 DEF BuffersOf
<1>7. ASSUME NEW m, NEW l, NEW a
      PROVE  LET b == [NewBuffer EXCEPT !.hard = m, !.dataLen = l, !.address = a]
             IN  /\ b.state = "FREE" /\ b.enQueEvtID = INVALID_TEVENTID
                 /\ b.freeBufEvtID = INVALID_TEVENTID
  BY DEF NewBuffer
<1>8. ASSUME NEW k \in BuffersOf(q)'
      PROVE  /\ k \in Handle
             /\ buf'[k].state = "FREE" /\ buf'[k].enQueEvtID = INVALID_TEVENTID
             /\ buf'[k].freeBufEvtID = INVALID_TEVENTID
  <2>1. k \in Handle /\ k \in curBufSize .. (curBufSize + Num[q] - 1)
    BY <1>1, <1>2, <1>3, <1>4, <1>6 DEF Handle
  <2> DEFINE a == maxAddr[BufHardType[q]] + (k - curBufSize) * len
  <2>2. buf'[k] = [NewBuffer EXCEPT !.hard = BufHardType[q], !.dataLen = len, !.address = a]
    BY <1>5, <2>1, Zenon DEF CarveBuffers
  <2> HIDE DEF a
  <2> QED
    BY <1>7, <2>1, <2>2
<1>9. \A k \in Handle \ BuffersOf(q)' : buf'[k] = buf[k]
  BY <1>5, <1>6 DEF CarveBuffers
<1>10. \A k \in Handle : k < curBufSize => k \notin BuffersOf(q)'
  BY <1>2, <1>6 DEF Handle
<1>11. UNCHANGED <<coreVars, eventOccupy, destroyed>>
  BY <1>5 DEF CarveBuffers
<1> QED
  BY <1>1, <1>3, <1>4, <1>8, <1>9, <1>10, <1>11 DEF Prepare, SameRing

-----------------------------------------------------------------------------
(* The invariant is kept.                                                  *)

\* A buffer that is not free: all queues are ready and the pipe is there.
LEMMA Busy ==
  ASSUME KInv, NEW q \in ready, NEW h \in BuffersOf(q), buf[h].state # "FREE"
  PROVE  ready = Queue /\ ~ destroyed
  BY DEF KInv, AtRest

LEMMA OthersStay ==
  ASSUME KInv, NEW q \in ready, NEW h \in BuffersOf(q), NEW s, NEW t, Moves(h, s, t),
         NEW r \in ready, NEW k \in BuffersOf(r), k # h \/ r # q
  PROVE  k \in Handle /\ k # h /\ buf'[k] = buf[k]
<1>1. k # h
  BY DEF KInv, Placed
<1>2. k \in Handle
  BY BuffersInTable DEF KInv, BaseOK
<1> QED
  BY <1>1, <1>2 DEF Moves

LEMMA RingKept ==
  ASSUME NEW r \in Queue, RingOK(r), SameRing(r),
         \A k \in BuffersOf(r) : buf'[k].state = "ENQUE" <=> buf[k].state = "ENQUE"
  PROVE  RingOK(r)'
  BY SameRingSame DEF RingOK

LEMMA RingPublish ==
  ASSUME KInv, NEW q \in Queue, NEW h \in Handle, Publish(q, h)
  PROVE  RingOK(q)'
<1> DEFINE n == queue[q].used
<1>1. PipeTypeOK /\ RingOK(q) /\ n \in Nat
  BY QueueNumbers DEF KInv, BaseOK, Publish
<1>2. /\ q \in ready /\ h \in BuffersOf(q)
      /\ Moves(h, "OCCUPIED", "ENQUE")
  BY PublishMoves
<1>3. /\ queue'[q].used = n + 1
      /\ \A i \in 1 .. n : Published(q)'[i] = Published(q)[i]
      /\ Published(q)'[n + 1] = h
      /\ Aligned(q)'
      /\ UNCHANGED <<queue[q].start, queue[q].num>>
  BY <1>1, RingAfterEnQue DEF Publish, RingOK
<1>4. BuffersOf(q)' = BuffersOf(q) /\ Place(q) = 1 .. n /\ Place(q)' = 1 .. (n + 1)
  BY <1>3 DEF BuffersOf, Place
<1>5. \A k \in BuffersOf(q) : k # h => buf'[k] = buf[k]
  BY <1>2, OthersStay
<1>6. \A i \in Place(q) : Published(q)[i] # h /\ buf'[Published(q)[i]] = buf[Published(q)[i]]
  BY <1>1, <1>2, <1>5 DEF RingOK, Moves
<1>7. \A i \in Place(q)' : i \in Place(q) \/ i = n + 1
  BY <1>1, <1>4
<1>8. \A i \in Place(q)' : Published(q)'[i] \in BuffersOf(q)' /\ buf'[Published(q)'[i]].state = "ENQUE"
  BY <1>1, <1>2, <1>3, <1>4, <1>6, <1>7 DEF RingOK, Moves
<1>9. \A i, j \in Place(q)' : Published(q)'[i] = Published(q)'[j] => i = j
  BY <1>1, <1>3, <1>4, <1>6, <1>7 DEF RingOK
<1>10. ASSUME NEW k \in BuffersOf(q)', buf'[k].state = "ENQUE"
       PROVE  \E i \in Place(q)' : Published(q)'[i] = k
  <2>1. CASE k = h
    <3>1. n + 1 \in Place(q)'
      BY <1>1, <1>4
    <3> QED
      BY <1>3, <2>1, <3>1
  <2>2. CASE k # h
    <3>1. PICK i \in Place(q) : Published(q)[i] = k
      BY <1>1, <1>4, <1>5, <1>10, <2>2 DEF RingOK
    <3>2. i \in Place(q)'
      BY <1>1, <1>4
    <3> QED
      BY <1>3, <1>4, <3>1, <3>2
  <2> QED
    BY <2>1, <2>2
<1> QED
  BY <1>3, <1>8, <1>9, <1>10 DEF RingOK

LEMMA RingConsume ==
  ASSUME KInv, NEW q \in Queue, Consume(q)
  PROVE  RingOK(q)'
<1> DEFINE n == queue[q].used
           h == OldestSlot(q)
<1>1. PipeTypeOK /\ RingOK(q) /\ n \in Nat
  BY QueueNumbers DEF KInv, BaseOK, Consume
<1>2. /\ q \in ready /\ h \in BuffersOf(q)
      /\ Moves(h, "ENQUE", "DEQUE")
  BY ConsumeMoves
<1>3. /\ queue'[q].used = n - 1
      /\ n >= 1
      /\ Published(q)[1] = h
      /\ \A i \in 1 .. (n - 1) : Published(q)'[i] = Published(q)[i + 1]
      /\ Aligned(q)'
      /\ UNCHANGED <<queue[q].start, queue[q].num>>
  BY <1>1, RingAfterTake DEF Consume, DeQue, RingOK
<1> HIDE DEF h
<1>4. BuffersOf(q)' = BuffersOf(q) /\ Place(q) = 1 .. n /\ Place(q)' = 1 .. (n - 1)
  BY <1>3 DEF BuffersOf, Place
<1>5. \A k \in BuffersOf(q) : k # h => buf'[k] = buf[k]
  BY <1>2, OthersStay
<1>6. \A i \in Place(q)' : /\ i \in Int /\ i + 1 \in Place(q)
                           /\ Published(q)'[i] = Published(q)[i + 1]
                           /\ Published(q)'[i] # h
  <2>1. ASSUME NEW i \in 1 .. (n - 1) PROVE i + 1 \in 1 .. n /\ i + 1 # 1 /\ 1 \in 1 .. n
    BY <1>1
  <2> QED
    BY <1>1, <1>3, <1>4, <2>1 DEF RingOK
<1>8. \A i \in Place(q)' : Published(q)'[i] \in BuffersOf(q)' /\ buf'[Published(q)'[i]].state = "ENQUE"
  BY <1>1, <1>4, <1>5, <1>6 DEF RingOK
<1>9. ASSUME NEW i \in Place(q)', NEW j \in Place(q)', Published(q)'[i] = Published(q)'[j]
      PROVE  i = j
  <2>1. i + 1 = j + 1 /\ i \in Int /\ j \in Int
    BY <1>1, <1>6, <1>9 DEF RingOK
  <2> QED
    BY <2>1
<1>10. ASSUME NEW k \in BuffersOf(q)', buf'[k].state = "ENQUE"
       PROVE  \E i \in Place(q)' : Published(q)'[i] = k
  <2>1. k # h
    BY <1>2, <1>10 DEF Moves
  <2>2. PICK i \in Place(q) : Published(q)[i] = k
    BY <1>1, <1>4, <1>5, <1>10, <2>1 DEF RingOK
  <2>3. i # 1 /\ i - 1 \in Place(q)' /\ (i - 1) + 1 = i
    BY <1>1, <1>3, <1>4, <2>1, <2>2
  <2> QED
    BY <1>6, <2>2, <2>3
<1> QED
  BY <1>3, <1>8, <1>9, <1>10 DEF RingOK

\* One buffer of q moves, and no queue changes its buffers.
LEMMA HandOverKeeps ==
  ASSUME KInv, BaseOK', NEW q \in ready, NEW h \in BuffersOf(q), NEW s, NEW t, Moves(h, s, t),
         UNCHANGED <<ready, phase, curBufSize, destroyed>>, ready = Queue, ~ destroyed,
         \A r \in Queue : queue'[r].start = queue[r].start /\ queue'[r].num = queue[r].num,
         \A r \in Queue : RingOK(r)',
         t = "ENQUE" \/ buf'[h].enQueEvtID = INVALID_TEVENTID,
         t = "FREE" \/ buf'[h].freeBufEvtID = INVALID_TEVENTID
  PROVE  KInv'
<1>1. \A r \in Queue : BuffersOf(r)' = BuffersOf(r)
  BY DEF BuffersOf
<1>2. Placed'
  BY <1>1 DEF KInv, Placed
<1>3. IdsFollowState'
  <2> SUFFICES ASSUME NEW r \in ready, NEW k \in BuffersOf(r)
               PROVE  /\ buf'[k].state # "ENQUE" => buf'[k].enQueEvtID = INVALID_TEVENTID
                      /\ buf'[k].state # "FREE" => buf'[k].freeBufEvtID = INVALID_TEVENTID
    BY <1>1 DEF IdsFollowState
  <2>1. CASE k = h
    BY <2>1 DEF Moves
  <2>2. CASE k # h
    BY <2>2, OthersStay DEF KInv, IdsFollowState
  <2> QED
    BY <2>1, <2>2
<1>4. AtRest'
  BY DEF AtRest
<1> QED
  BY <1>2, <1>3, <1>4 DEF KInv

LEMMA HandOverStep ==
  ASSUME KInv, ~ destroyed, NEW q \in Queue, NEW h \in Handle,
         Obtain(q) \/ Publish(q, h) \/ Consume(q) \/ Recycle(q, h)
  PROVE  KInv'
<1>1. BaseOK' /\ UNCHANGED phase
  BY BaseQueueCall DEF KInv, Obtain, Publish, Consume, Recycle, kernelVars
<1>2. UNCHANGED <<curBufSize, destroyed>>
  BY DEF Obtain, Publish, Consume, Recycle, AllocTensor, EnQue, DeQue, FreeTensor
<1>3. \A r \in Queue : queue'[r].start = queue[r].start /\ queue'[r].num = queue[r].num
  <2>1. AllocTensor(q) \/ EnQue(q, h) \/ DeQue(q) \/ DeQueWrongState(q) \/ FreeTensor(q, h)
    BY DEF Obtain, Publish, Consume, Recycle
  <2> QED
    BY <2>1, RingCallKeepsPlace DEF KInv, BaseOK
<1>4. CASE Obtain(q)
  <2> DEFINE k == IdleSlot(q)
  <2>1. /\ q \in ready /\ ready' = ready /\ k \in BuffersOf(q)
        /\ Moves(k, "FREE", "OCCUPIED")
        /\ buf'[k].enQueEvtID = buf[k].enQueEvtID
        /\ buf'[k].freeBufEvtID = INVALID_TEVENTID
        /\ \A r \in Queue : SameRing(r)
    BY <1>4, ObtainMoves
  <2> HIDE DEF k
  <2>2. ready = Queue
    BY <1>4 DEF Obtain
  <2>3. buf[k].enQueEvtID = INVALID_TEVENTID
    BY <2>1 DEF KInv, IdsFollowState, Moves
  <2>4. ASSUME NEW r \in Queue PROVE RingOK(r)'
    <3>1. ASSUME NEW g \in BuffersOf(r) PROVE buf'[g].state = "ENQUE" <=> buf[g].state = "ENQUE"
      BY <2>1, <2>2, OthersStay DEF Moves
    <3> QED
      BY <2>1, <2>2, <3>1, RingKept DEF KInv
  <2> QED
    BY <1>1, <1>2, <1>3, <2>1, <2>2, <2>3, <2>4, HandOverKeeps
<1>5. CASE Publish(q, h)
  <2>1. /\ q \in ready /\ ready' = ready /\ h \in BuffersOf(q)
        /\ Moves(h, "OCCUPIED", "ENQUE")
        /\ buf'[h].freeBufEvtID = buf[h].freeBufEvtID
        /\ \A r \in Queue \ {q} : SameRing(r)
    BY <1>5, PublishMoves
  <2>2. ready = Queue
    BY <2>1, Busy DEF Moves
  <2>3. buf[h].freeBufEvtID = INVALID_TEVENTID
    BY <2>1 DEF KInv, IdsFollowState, Moves
  <2>4. ASSUME NEW r \in Queue PROVE RingOK(r)'
    <3>1. CASE r = q
      BY <1>5, <3>1, RingPublish
    <3>2. CASE r # q
      <4>1. \A g \in BuffersOf(r) : buf'[g].state = "ENQUE" <=> buf[g].state = "ENQUE"
        BY <2>1, <2>2, <3>2, OthersStay
      <4> QED
        BY <2>1, <2>2, <3>2, <4>1, RingKept DEF KInv
    <3> QED
      BY <3>1, <3>2
  <2> QED
    BY <1>1, <1>2, <1>3, <2>1, <2>2, <2>3, <2>4, HandOverKeeps
<1>6. CASE Consume(q)
  <2> DEFINE k == OldestSlot(q)
  <2>1. /\ q \in ready /\ ready' = ready /\ k \in BuffersOf(q)
        /\ Moves(k, "ENQUE", "DEQUE")
        /\ buf'[k].enQueEvtID = INVALID_TEVENTID
        /\ buf'[k].freeBufEvtID = buf[k].freeBufEvtID
        /\ \A r \in Queue \ {q} : SameRing(r)
    BY <1>6, ConsumeMoves
  <2> HIDE DEF k
  <2>2. ready = Queue
    BY <2>1, Busy DEF Moves
  <2>3. buf[k].freeBufEvtID = INVALID_TEVENTID
    BY <2>1 DEF KInv, IdsFollowState, Moves
  <2>4. ASSUME NEW r \in Queue PROVE RingOK(r)'
    <3>1. CASE r = q
      BY <1>6, <3>1, RingConsume
    <3>2. CASE r # q
      <4>1. \A g \in BuffersOf(r) : buf'[g].state = "ENQUE" <=> buf[g].state = "ENQUE"
        BY <2>1, <2>2, <3>2, OthersStay
      <4> QED
        BY <2>1, <2>2, <3>2, <4>1, RingKept DEF KInv
    <3> QED
      BY <3>1, <3>2
  <2> QED
    BY <1>1, <1>2, <1>3, <2>1, <2>2, <2>3, <2>4, HandOverKeeps
<1>7. CASE Recycle(q, h)
  <2>1. /\ q \in ready /\ ready' = ready /\ h \in BuffersOf(q)
        /\ Moves(h, "DEQUE", "FREE")
        /\ buf'[h].enQueEvtID = buf[h].enQueEvtID
        /\ \A r \in Queue : SameRing(r)
    BY <1>7, RecycleMoves
  <2>2. ready = Queue
    BY <2>1, Busy DEF Moves
  <2>3. buf[h].enQueEvtID = INVALID_TEVENTID
    BY <2>1 DEF KInv, IdsFollowState, Moves
  <2>4. ASSUME NEW r \in Queue PROVE RingOK(r)'
    <3>1. ASSUME NEW g \in BuffersOf(r) PROVE buf'[g].state = "ENQUE" <=> buf[g].state = "ENQUE"
      BY <2>1, <2>2, OthersStay DEF Moves
    <3> QED
      BY <2>1, <2>2, <3>1, RingKept DEF KInv
  <2> QED
    BY <1>1, <1>2, <1>3, <2>1, <2>2, <2>3, <2>4, HandOverKeeps
<1> QED
  BY <1>4, <1>5, <1>6, <1>7

LEMMA PrepareStep ==
  ASSUME KInv, NEW q \in Queue, Prepare(q)
  PROVE  KInv'
<1>1. /\ q \notin ready /\ ready' = ready \cup {q} /\ Num[q] \in Nat
      /\ queue'[q].start = curBufSize /\ queue'[q].num = Num[q] /\ queue'[q].used = 0
      /\ queue'[q].head = 0 /\ queue'[q].tail = 0
      /\ curBufSize' = curBufSize + Num[q] /\ curBufSize' <= QBUF_MAX_LEN
      /\ \A r \in Queue \ {q} : SameRing(r)
      /\ \A k \in Handle : k < curBufSize => buf'[k] = buf[k]
      /\ \A k \in BuffersOf(q)' :
           /\ k \in Handle
           /\ buf'[k].state = "FREE" /\ buf'[k].enQueEvtID = INVALID_TEVENTID
           /\ buf'[k].freeBufEvtID = INVALID_TEVENTID
  BY PrepareMoves
<1>2. BaseOK'
  BY QueueKernelAssumption, BaseInitBuffer DEF Prepare, KInv
<1>3. curBufSize \in Nat /\ PipeTypeOK /\ Placed /\ ready \subseteq Queue
  BY QueueNumbers DEF KInv, BaseOK
<1>4. \A r \in Queue \ {q} : BuffersOf(r)' = BuffersOf(r)
  BY <1>1, SameRingSame
<1>5. \A r \in ready : \A k \in BuffersOf(r) : k \in Handle /\ k < curBufSize /\ buf'[k] = buf[k]
  BY <1>1, <1>3, BuffersInTable
<1>6. BuffersOf(q)' = curBufSize .. (curBufSize + Num[q] - 1)
  BY <1>1 DEF BuffersOf
<1>7. Placed'
  <2>1. ASSUME NEW r \in Queue
        PROVE  /\ queue'[r].start + queue'[r].num <= QBUF_MAX_LEN
               /\ r \in ready' => queue'[r].start + queue'[r].num <= curBufSize'
    <3>1. CASE r = q
      <4>1. queue'[q].start + queue'[q].num = curBufSize' /\ curBufSize' <= QBUF_MAX_LEN
        BY <1>1, Zenon
      <4>2. curBufSize' \in Nat
        <5>1. Num[q] \in Nat /\ curBufSize' = curBufSize + Num[q]
          BY <1>1, Zenon
        <5> QED
          BY <1>3, <5>1
      <4> QED
        BY <3>1, <4>1, <4>2
    <3>2. CASE r # q
      <4>1. queue'[r].start = queue[r].start /\ queue'[r].num = queue[r].num
        BY <1>1, <3>2 DEF SameRing
      <4>2. queue[r].start \in Nat /\ queue[r].num \in Nat
        BY <1>3, QueueNumbers
      <4> QED
        BY <1>1, <1>3, <3>2, <4>1, <4>2 DEF Placed
    <3> QED
      BY <3>1, <3>2
  <2>2. \A r \in ready : BuffersOf(r) \cap BuffersOf(q)' = {}
    BY <1>3, <1>5, <1>6
  <2>3. \A r, u \in ready' : r # u => BuffersOf(r)' \cap BuffersOf(u)' = {}
    BY <1>1, <1>3, <1>4, <2>2 DEF Placed
  <2> QED
    BY <1>1, <2>1, <2>3, <1>3 DEF Placed
<1>8. \A r \in ready' : \A k \in BuffersOf(r)' : buf'[k].state = "FREE"
  <2>1. \A r \in ready : \A k \in BuffersOf(r) : buf[k].state = "FREE"
    BY <1>1 DEF KInv, AtRest
  <2> QED
    BY <1>1, <1>3, <1>4, <1>5, <2>1
<1>9. ASSUME NEW r \in ready' PROVE RingOK(r)'
  <2>1. CASE r = q
    <3>1. Place(q)' = {}
      BY <1>1 DEF Place
    <3>2. Aligned(q)'
      <4>1. Depth[q] \in Nat \ {0}
        BY TPipeAssumption
      <4>2. 0 % Depth[q] = 0
        BY <4>1, ModOnce
      <4> QED
        BY <1>1, <4>2 DEF Aligned
    <3> QED
      BY <1>1, <2>1, <3>1, <3>2 DEF RingOK
  <2>2. CASE r # q
    <3>1. r \in ready /\ r \in Queue /\ SameRing(r) /\ RingOK(r)
      BY <1>1, <1>3, <2>2 DEF KInv
    <3>2. \A k \in BuffersOf(r) : buf'[k].state = "ENQUE" <=> buf[k].state = "ENQUE"
      BY <1>5, <3>1
    <3> QED
      BY <2>2, <3>1, <3>2, RingKept
  <2> QED
    BY <2>1, <2>2
<1>10. IdsFollowState'
  BY <1>1, <1>3, <1>4, <1>5 DEF KInv, IdsFollowState
<1>11. ready' \subseteq Queue /\ phase' \in 0 .. Phases
  BY <1>1 DEF KInv, Prepare
<1> QED
  BY <1>2, <1>7, <1>8, <1>9, <1>10, <1>11 DEF KInv, AtRest

LEMMA NoQueueReady ==
  ASSUME ready' = {}, BaseOK', phase' \in 0 .. Phases,
         \A q \in Queue : queue'[q].start + queue'[q].num <= QBUF_MAX_LEN
  PROVE  KInv'
  BY DEF KInv, Placed, AtRest, IdsFollowState

LEMMA FinishStep ==
  ASSUME KInv, Finish
  PROVE  KInv'
<1>1. BaseOK' /\ PipeTypeOK /\ Leaked = {} /\ UNCHANGED <<ready, phase, queue, curBufSize>>
  BY BaseDestroy DEF KInv, BaseOK, Finish, kernelVars, Destroy
<1>2. \A r \in Queue : BuffersOf(r)' = BuffersOf(r) /\ SameRing(r)
  BY <1>1 DEF BuffersOf, SameRing
<1>3. Placed'
  BY <1>1, <1>2 DEF KInv, Placed
<1>4. ASSUME NEW r \in ready, NEW h \in BuffersOf(r)
      PROVE  /\ buf'[h].state = buf[h].state /\ buf[h].state = "FREE"
             /\ buf'[h].enQueEvtID = buf[h].enQueEvtID
  <2>1. h \in Handle /\ h < curBufSize /\ h \in Nat /\ curBufSize \in Nat /\ r \in Queue
    BY <1>1, BuffersInTable, QueueNumbers DEF KInv, Handle
  <2>2. buf[h].state = "FREE"
    BY <1>1, <2>1 DEF Leaked
  <2>3. buf'[h] = [buf[h] EXCEPT !.freeBufEvtID = INVALID_TEVENTID] /\ buf[h] \in TBufType
    BY <1>1, <2>1 DEF Finish, Destroy, PipeTypeOK
  <2> QED
    BY <2>2, <2>3 DEF TBufType
<1>5. \A r \in ready : RingOK(r)'
  BY <1>2, <1>4, RingKept DEF KInv
<1>6. AtRest' /\ IdsFollowState'
  BY <1>1, <1>2, <1>4 DEF AtRest, IdsFollowState, KInv
<1> QED
  BY <1>1, <1>3, <1>5, <1>6 DEF KInv

LEMMA KInvQuiet ==
  ASSUME KInv, BaseOK', UNCHANGED <<ready, phase, queue, buf, curBufSize, destroyed>>
  PROVE  KInv'
<1>1. \A r \in Queue : BuffersOf(r)' = BuffersOf(r) /\ SameRing(r)
  BY DEF BuffersOf, SameRing
<1>2. Placed' /\ AtRest' /\ IdsFollowState'
  BY <1>1 DEF KInv, Placed, AtRest, IdsFollowState
<1>3. \A r \in ready : RingOK(r)'
  BY <1>1, RingKept DEF KInv
<1> QED
  BY <1>2, <1>3 DEF KInv

LEMMA KInvInit == Init => KInv
<1> SUFFICES ASSUME Init PROVE KInv
  OBVIOUS
<1>1. BaseOK /\ ready = {} /\ phase = 0
  BY BaseInit DEF Init
<1>2. \A q \in Queue : queue[q].start = 0 /\ queue[q].num = 0
  BY DEF Init, PipeInit, NewPipe, NewQueue
<1> QED
  BY <1>1, <1>2, TPipeAssumption, QueueKernelAssumption DEF KInv, Placed, AtRest, IdsFollowState

LEMMA KInvStep == KInv /\ [Next]_vars => KInv'
<1> SUFFICES ASSUME KInv, [Next]_vars PROVE KInv'
  OBVIOUS
<1>1. CASE UNCHANGED vars
  <2>1. BaseOK' /\ UNCHANGED <<ready, phase, queue, buf, curBufSize, destroyed>>
    BY <1>1, BaseUnchanged DEF KInv, vars, pipeVars
  <2> QED
    BY <2>1, KInvQuiet
<1>2. ASSUME NEW p \in Pipe, Work(p) PROVE KInv'
  <2>1. BaseOK' /\ UNCHANGED <<ready, phase, queue, buf, curBufSize, destroyed>>
    <3>1. PICK src0, src1, dst \in Operands(p) :
            Instruction(p, src0, src1, dst, 0) /\ UNCHANGED <<pipeVars, kernelVars>>
      BY <1>2 DEF Work
    <3>2. CoreTypeOK'
      BY <3>1, InstructionTyped DEF KInv, BaseOK
    <3>3. PipeTypeOK' /\ Layout'
      BY <3>1 DEF pipeVars, KInv, BaseOK, PipeTypeOK, Layout
    <3> QED
      BY <3>1, <3>2, <3>3 DEF BaseOK, pipeVars, kernelVars
  <2> QED
    BY <2>1, KInvQuiet
<1>3. ASSUME NEW q \in Queue, Prepare(q) PROVE KInv'
  BY <1>3, PrepareStep
<1>4. ASSUME ~ destroyed, NEW q \in Queue, Obtain(q) \/ Consume(q) PROVE KInv'
  <2>1. 0 \in Handle
    BY TPipeAssumption DEF Handle
  <2> QED
    BY <1>4, <2>1, HandOverStep
<1>5. ASSUME ~ destroyed, NEW q \in Queue, NEW h \in Handle, Publish(q, h) \/ Recycle(q, h) PROVE KInv'
  BY <1>5, HandOverStep
<1>6. CASE NextPhase
  <2>1. BaseOK' /\ queue' = queue /\ ready' = {}
    BY <1>6, BaseReset DEF NextPhase, KInv, Reset
  <2>2. phase' \in 0 .. Phases
    BY <1>6, QueueKernelAssumption DEF NextPhase, KInv
  <2> QED
    BY <2>1, <2>2, NoQueueReady DEF KInv, Placed
<1>7. CASE Finish
  BY <1>7, FinishStep
<1>8. CASE Restart
  <2>1. BaseOK' /\ ready' = {} /\ phase' = 0
    BY <1>8, BaseNextKernel DEF Restart, KInv
  <2>2. \A q \in Queue : queue'[q].start = 0 /\ queue'[q].num = 0
    BY <1>8 DEF Restart, NextKernel, NewPipe, NewQueue
  <2> QED
    BY <2>1, <2>2, NoQueueReady, TPipeAssumption, QueueKernelAssumption
<1> QED
  BY <1>1, <1>2, <1>3, <1>4, <1>5, <1>6, <1>7, <1>8 DEF Next, Step

LEMMA KInvAlways == Spec => []KInv
  BY KInvInit, KInvStep, PTL DEF Spec

\* Types hold for every kernel, every ring and every pool.
THEOREM KernelTyped == Spec => []TypeOK
<1>1. KInv => TypeOK
  BY DEF KInv, BaseOK, TypeOK
<1> QED
  BY <1>1, KInvAlways, PTL

\* The buffers of a kernel never overlap, whatever queues it has and however
\* often it starts over with Reset.
THEOREM KernelKeepsBuffersApart == Spec => []BuffersDisjoint
<1>1. KInv => BuffersDisjoint
  BY LayoutDisjoint DEF KInv, BaseOK
<1> QED
  BY <1>1, KInvAlways, PTL

\* The ring of a queue holds its ENQUE buffers, each once, however deep the
\* ring and wherever it wraps.
THEOREM KernelRingsHold == Spec => []RingHoldsPublished
<1>1. ASSUME KInv, NEW q \in ready PROVE RingConsistent(q)
  <2> DEFINE enqueued == {h \in BuffersOf(q) : buf[h].state = "ENQUE"}
             n == queue[q].used
  <2>1. q \in Queue /\ RingOK(q) /\ n \in Nat /\ Place(q) = 1 .. n
    BY <1>1, QueueNumbers DEF KInv, BaseOK, Place
  <2>2. {Published(q)[i] : i \in 1 .. n} = enqueued
    BY <2>1 DEF RingOK
  <2>3. Cardinality(enqueued) = n
    <3> DEFINE f == [i \in 1 .. n |-> Published(q)[i]]
    <3>1. f \in [1 .. n -> enqueued] /\ DOMAIN f = 1 .. n
      BY <2>2
    <3>2. \A i, j \in 1 .. n : f[i] = f[j] => i = j
      BY <2>1 DEF RingOK
    <3>3. \A h \in enqueued : \E i \in 1 .. n : f[i] = h
      BY <2>2
    <3> HIDE DEF enqueued, f
    <3>4. f \in Injection(1 .. n, enqueued)
      BY <3>1, <3>2 DEF Injection, IsInjective
    <3>5. f \in Surjection(1 .. n, enqueued)
      BY <3>1, <3>3 DEF Surjection
    <3>6. ExistsBijection(1 .. n, enqueued)
      BY <3>4, <3>5 DEF ExistsBijection, Bijection
    <3> QED
      BY <2>1, <3>6, FS_CountingElements
  <2> QED
    BY <2>1, <2>2, <2>3 DEF RingConsistent, RingOK, Aligned
<1>2. KInv => RingHoldsPublished
  BY <1>1 DEF RingHoldsPublished
<1> QED
  BY <1>2, KInvAlways, PTL

-----------------------------------------------------------------------------
(* The queues implement SlotFifo.                                          *)

InStates(s) == [q \in Queue |-> InState(q, s)]
Fifos       == [q \in Queue |-> IF q \in ready THEN Published(q) ELSE <<>>]

LEMMA Updated ==
  ASSUME NEW f, NEW g, NEW q \in Queue, NEW v,
         f = [r \in Queue |-> f[r]], g = [r \in Queue |-> g[r]],
         g[q] = v, \A r \in Queue \ {q} : g[r] = f[r]
  PROVE  g = [f EXCEPT ![q] = v]
  OBVIOUS

LEMMA PublishedIsSeq ==
  ASSUME PipeTypeOK, NEW q \in Queue
  PROVE  /\ Published(q) \in Seq(Handle) /\ Len(Published(q)) = queue[q].used
         /\ queue[q].used \in Nat
         /\ queue[q].used = 0 => Published(q) = <<>>
<1>1. /\ queue[q].used \in Nat
      /\ DOMAIN Published(q) = 1 .. queue[q].used
      /\ \A i \in 1 .. queue[q].used : Published(q)[i] \in Handle
  BY PublishedEntry
<1>2. Published(q) = [i \in 1 .. queue[q].used |-> Published(q)[i]]
  BY <1>1 DEF Published
<1>3. Published(q) \in [1 .. queue[q].used -> Handle]
  BY <1>1, <1>2
<1>4. Published(q) \in Seq(Handle)
  BY <1>1, <1>3, SeqDef
<1>5. Len(Published(q)) = queue[q].used
  BY <1>1, <1>4, LenProperties
<1> QED
  BY <1>1, <1>4, <1>5, EmptySeq

\* Where the buffers of a queue are after one of them moved.
LEMMA StatesAfterMove ==
  ASSUME KInv, NEW q \in ready, NEW h \in BuffersOf(q), NEW s, NEW t, s # t, Moves(h, s, t),
         ready' = ready, \A r \in Queue : BuffersOf(r)' = BuffersOf(r)
  PROVE  /\ h \in InState(q, s)
         /\ InStates(s)' = [InStates(s) EXCEPT ![q] = @ \ {h}]
         /\ InStates(t)' = [InStates(t) EXCEPT ![q] = @ \cup {h}]
         /\ \A u : u # s /\ u # t => InStates(u)' = InStates(u)
<1>1. q \in Queue /\ ready \subseteq Queue
  BY DEF KInv
<1>2. h \in InState(q, s)
  BY DEF InState, Moves
<1>3. ASSUME NEW r \in Queue, NEW k \in BuffersOf(r), r \in ready, k # h \/ r # q
      PROVE  buf'[k] = buf[k] /\ k # h
  BY <1>3, OthersStay
<1>4. ASSUME NEW r \in Queue, r # q, NEW u PROVE InState(r, u)' = InState(r, u)
  BY <1>3, <1>4 DEF InState
<1>5. InState(q, s)' = InState(q, s) \ {h}
  BY <1>1, <1>3 DEF InState, Moves
<1>6. InState(q, t)' = InState(q, t) \cup {h}
  BY <1>1, <1>3 DEF InState, Moves
<1>7. ASSUME NEW u, u # s, u # t PROVE InState(q, u)' = InState(q, u)
  BY <1>1, <1>3, <1>7 DEF InState, Moves
<1>8. InStates(s)' = [InStates(s) EXCEPT ![q] = @ \ {h}]
  BY <1>1, <1>4, <1>5 DEF InStates
<1>9. InStates(t)' = [InStates(t) EXCEPT ![q] = @ \cup {h}]
  BY <1>1, <1>4, <1>6 DEF InStates
<1>10. ASSUME NEW u, u # s, u # t PROVE InStates(u)' = InStates(u)
  BY <1>4, <1>7, <1>10 DEF InStates
<1> QED
  BY <1>2, <1>8, <1>9, <1>10

LEMMA FifosKept ==
  ASSUME ready' = ready, \A r \in Queue : SameRing(r)
  PROVE  Fifos' = Fifos
  BY SameRingSame DEF Fifos

\* SlotFifo's actions, spelled out.
LEMMA PromiseActions ==
  ASSUME NEW q \in Queue
  PROVE  /\ (\E h \in InState(q, "FREE") :
               /\ InStates("FREE")' = [InStates("FREE") EXCEPT ![q] = @ \ {h}]
               /\ InStates("OCCUPIED")' = [InStates("OCCUPIED") EXCEPT ![q] = @ \cup {h}]
               /\ Fifos' = Fifos /\ InStates("DEQUE")' = InStates("DEQUE"))
              => Promise!Take(q)
         /\ (\E h \in InState(q, "OCCUPIED") :
               /\ InStates("OCCUPIED")' = [InStates("OCCUPIED") EXCEPT ![q] = @ \ {h}]
               /\ Fifos' = [Fifos EXCEPT ![q] = Append(@, h)]
               /\ InStates("FREE")' = InStates("FREE") /\ InStates("DEQUE")' = InStates("DEQUE"))
              => Promise!Put(q)
         /\ (/\ Fifos[q] # <<>>
             /\ Fifos' = [Fifos EXCEPT ![q] = Tail(@)]
             /\ InStates("DEQUE")' = [InStates("DEQUE") EXCEPT ![q] = @ \cup {Head(Fifos[q])}]
             /\ InStates("FREE")' = InStates("FREE")
             /\ InStates("OCCUPIED")' = InStates("OCCUPIED"))
              => Promise!Get(q)
         /\ (\E h \in InState(q, "DEQUE") :
               /\ InStates("DEQUE")' = [InStates("DEQUE") EXCEPT ![q] = @ \ {h}]
               /\ InStates("FREE")' = [InStates("FREE") EXCEPT ![q] = @ \cup {h}]
               /\ Fifos' = Fifos /\ InStates("OCCUPIED")' = InStates("OCCUPIED"))
              => Promise!GiveBack(q)
<1>1. \A u : InStates(u)[q] = InState(q, u)
  BY DEF InStates
<1> QED
  BY <1>1 DEF InStates, Fifos, Promise!Take, Promise!Put, Promise!Get, Promise!GiveBack

LEMMA PromiseObtain ==
  ASSUME KInv, NEW q \in Queue, Obtain(q)
  PROVE  Promise!Take(q)
<1> DEFINE h == IdleSlot(q)
<1>1. /\ q \in ready /\ ready' = ready /\ h \in BuffersOf(q)
      /\ Moves(h, "FREE", "OCCUPIED")
      /\ \A r \in Queue : SameRing(r)
  BY ObtainMoves
<1> HIDE DEF h
<1>2. \A r \in Queue : BuffersOf(r)' = BuffersOf(r)
  BY <1>1, SameRingSame
<1>3. Fifos' = Fifos
  BY <1>1, FifosKept
<1>4. /\ h \in InState(q, "FREE")
      /\ InStates("FREE")' = [InStates("FREE") EXCEPT ![q] = @ \ {h}]
      /\ InStates("OCCUPIED")' = [InStates("OCCUPIED") EXCEPT ![q] = @ \cup {h}]
      /\ InStates("DEQUE")' = InStates("DEQUE")
  BY <1>1, <1>2, StatesAfterMove
<1> QED
  BY <1>3, <1>4, PromiseActions

LEMMA PromiseRecycle ==
  ASSUME KInv, NEW q \in Queue, NEW h \in Handle, Recycle(q, h)
  PROVE  Promise!GiveBack(q)
<1>1. /\ q \in ready /\ ready' = ready /\ h \in BuffersOf(q)
      /\ Moves(h, "DEQUE", "FREE")
      /\ \A r \in Queue : SameRing(r)
  BY RecycleMoves
<1>2. \A r \in Queue : BuffersOf(r)' = BuffersOf(r)
  BY <1>1, SameRingSame
<1>3. Fifos' = Fifos
  BY <1>1, FifosKept
<1>4. /\ h \in InState(q, "DEQUE")
      /\ InStates("DEQUE")' = [InStates("DEQUE") EXCEPT ![q] = @ \ {h}]
      /\ InStates("FREE")' = [InStates("FREE") EXCEPT ![q] = @ \cup {h}]
      /\ InStates("OCCUPIED")' = InStates("OCCUPIED")
  BY <1>1, <1>2, StatesAfterMove
<1> QED
  BY <1>3, <1>4, PromiseActions

LEMMA PromisePublish ==
  ASSUME KInv, NEW q \in Queue, NEW h \in Handle, Publish(q, h)
  PROVE  Promise!Put(q)
<1> DEFINE n == queue[q].used
<1>1. /\ q \in ready /\ ready' = ready /\ h \in BuffersOf(q)
      /\ Moves(h, "OCCUPIED", "ENQUE")
      /\ \A r \in Queue \ {q} : SameRing(r)
  BY PublishMoves
<1>2. PipeTypeOK /\ PipeTypeOK' /\ RingOK(q) /\ n \in Nat
  BY <1>1, QueueNumbers, BaseQueueCall DEF KInv, BaseOK, Publish
<1>3. /\ queue'[q].used = n + 1
      /\ \A i \in 1 .. n : Published(q)'[i] = Published(q)[i]
      /\ Published(q)'[n + 1] = h
      /\ UNCHANGED <<queue[q].start, queue[q].num>>
  BY <1>2, RingAfterEnQue DEF Publish, RingOK
<1>4. \A r \in Queue : BuffersOf(r)' = BuffersOf(r)
  BY <1>1, <1>3, SameRingSame DEF BuffersOf
<1>5. Published(q)' = Append(Published(q), h)
  <2> DEFINE a == Published(q)'
             b == Append(Published(q), h)
  <2>1. Published(q) \in Seq(Handle) /\ Len(Published(q)) = n
    BY <1>2, PublishedIsSeq
  <2>2. a \in Seq(Handle) /\ Len(a) = n + 1
    <3>1. queue'[q].used \in Nat /\ DOMAIN a = 1 .. queue'[q].used
      BY <1>2, <1>3 DEF Published
    <3>2. a = [i \in 1 .. queue'[q].used |-> a[i]]
      BY <3>1 DEF Published
    <3>3. \A i \in 1 .. (n + 1) : a[i] \in Handle
      BY <1>2, <1>3, PublishedEntry
    <3>4. a \in [1 .. queue'[q].used -> Handle]
      BY <1>3, <3>2, <3>3
    <3> HIDE DEF a
    <3>5. a \in Seq(Handle)
      BY <3>1, <3>4, SeqDef
    <3> QED
      BY <1>3, <3>1, <3>5, LenProperties
  <2>3. /\ b \in Seq(Handle) /\ Len(b) = n + 1
        /\ \A i \in 1 .. n : b[i] = Published(q)[i]
        /\ b[n + 1] = h
    BY <2>1, AppendProperties
  <2>4. \A i \in 1 .. (n + 1) : i \in 1 .. n \/ i = n + 1
    BY <1>2
  <2>5. \A i \in 1 .. (n + 1) : a[i] = b[i]
    BY <1>3, <2>3, <2>4
  <2> HIDE DEF a, b
  <2>6. a = b
    BY <2>2, <2>3, <2>5, SeqEqual
  <2> QED
    BY <2>6 DEF a, b
<1>6. Fifos' = [Fifos EXCEPT ![q] = Append(@, h)]
  <2>1. Fifos[q] = Published(q) /\ Fifos'[q] = Append(Published(q), h)
    BY <1>1, <1>5 DEF Fifos
  <2>2. \A r \in Queue \ {q} : Fifos'[r] = Fifos[r]
    BY <1>1, SameRingSame DEF Fifos
  <2>3. Fifos = [r \in Queue |-> Fifos[r]] /\ Fifos' = [r \in Queue |-> Fifos'[r]]
    BY DEF Fifos
  <2>4. Fifos' = [Fifos EXCEPT ![q] = Append(Published(q), h)]
    BY <2>1, <2>2, <2>3, Updated
  <2> QED
    BY <2>1, <2>4
<1>7. /\ h \in InState(q, "OCCUPIED")
      /\ InStates("OCCUPIED")' = [InStates("OCCUPIED") EXCEPT ![q] = @ \ {h}]
      /\ InStates("FREE")' = InStates("FREE") /\ InStates("DEQUE")' = InStates("DEQUE")
  BY <1>1, <1>4, StatesAfterMove
<1> QED
  BY <1>6, <1>7, PromiseActions

LEMMA PromiseConsume ==
  ASSUME KInv, NEW q \in Queue, Consume(q)
  PROVE  Promise!Get(q)
<1> DEFINE n == queue[q].used
           h == OldestSlot(q)
<1>1. /\ q \in ready /\ ready' = ready /\ h \in BuffersOf(q)
      /\ Moves(h, "ENQUE", "DEQUE")
      /\ \A r \in Queue \ {q} : SameRing(r)
  BY ConsumeMoves
<1>2. PipeTypeOK /\ RingOK(q) /\ n \in Nat
  BY QueueNumbers DEF KInv, BaseOK, Consume
<1>3. /\ queue'[q].used = n - 1
      /\ n >= 1
      /\ Published(q)[1] = h
      /\ \A i \in 1 .. (n - 1) : Published(q)'[i] = Published(q)[i + 1]
      /\ UNCHANGED <<queue[q].start, queue[q].num>>
  BY <1>2, RingAfterTake DEF Consume, DeQue, RingOK
<1> HIDE DEF h
<1>4. \A r \in Queue : BuffersOf(r)' = BuffersOf(r)
  BY <1>1, <1>3, SameRingSame DEF BuffersOf
<1>5. Published(q) \in Seq(Handle) /\ Len(Published(q)) = n
  BY <1>2, PublishedIsSeq
<1>6. Published(q) # <<>> /\ Head(Published(q)) = h
  <2>1. Published(q) # <<>>
    BY <1>2, <1>3, <1>5, EmptySeq
  <2> QED
    BY <1>3, <1>5, <2>1
<1>7. Published(q)' = Tail(Published(q))
  <2> DEFINE a == Published(q)'
             b == Tail(Published(q))
  <2>1. \A i \in 1 .. (n - 1) : i + 1 \in 1 .. n
    BY <1>2
  <2>2. a \in Seq(Handle) /\ Len(a) = n - 1
    <3>1. queue'[q].used \in Nat /\ DOMAIN a = 1 .. queue'[q].used
      BY <1>2, <1>3 DEF Published
    <3>2. a = [i \in 1 .. queue'[q].used |-> a[i]]
      BY <3>1 DEF Published
    <3>3. \A i \in 1 .. (n - 1) : a[i] \in Handle
      BY <1>2, <1>3, <2>1, PublishedEntry
    <3>4. a \in [1 .. queue'[q].used -> Handle]
      BY <1>3, <3>2, <3>3
    <3> HIDE DEF a
    <3>5. a \in Seq(Handle)
      BY <3>1, <3>4, SeqDef
    <3> QED
      BY <1>3, <3>1, <3>5, LenProperties
  <2>3. /\ b \in Seq(Handle) /\ Len(b) = n - 1
        /\ \A i \in 1 .. (n - 1) : b[i] = Published(q)[i + 1]
    BY <1>5, <1>6, HeadTailProperties
  <2>4. \A i \in 1 .. (n - 1) : a[i] = b[i]
    BY <1>3, <2>3
  <2> HIDE DEF a, b
  <2>5. a = b
    BY <2>2, <2>3, <2>4, SeqEqual
  <2> QED
    BY <2>5 DEF a, b
<1>8. /\ Fifos[q] = Published(q) /\ Fifos' = [Fifos EXCEPT ![q] = Tail(@)]
  <2>1. Fifos[q] = Published(q) /\ Fifos'[q] = Tail(Published(q))
    BY <1>1, <1>7 DEF Fifos
  <2>2. \A r \in Queue \ {q} : Fifos'[r] = Fifos[r]
    BY <1>1, SameRingSame DEF Fifos
  <2>3. Fifos = [r \in Queue |-> Fifos[r]] /\ Fifos' = [r \in Queue |-> Fifos'[r]]
    BY DEF Fifos
  <2>4. Fifos' = [Fifos EXCEPT ![q] = Tail(Published(q))]
    BY <2>1, <2>2, <2>3, Updated
  <2> QED
    BY <2>1, <2>4
<1>9. /\ InStates("DEQUE")' = [InStates("DEQUE") EXCEPT ![q] = @ \cup {h}]
      /\ InStates("FREE")' = InStates("FREE") /\ InStates("OCCUPIED")' = InStates("OCCUPIED")
  BY <1>1, <1>4, StatesAfterMove
<1> QED
  BY <1>6, <1>8, <1>9, PromiseActions

LEMMA PromisePrepare ==
  ASSUME KInv, NEW q \in Queue, Prepare(q)
  PROVE  Promise!Provide(q)
<1> DEFINE S == BuffersOf(q)'
<1>1. /\ q \notin ready /\ ready' = ready \cup {q} /\ Num[q] \in Nat
      /\ queue'[q].start = curBufSize /\ queue'[q].num = Num[q]
      /\ \A r \in Queue \ {q} : SameRing(r)
      /\ \A k \in Handle : k < curBufSize => buf'[k] = buf[k]
      /\ \A k \in S : k \in Handle /\ buf'[k].state = "FREE"
  BY PrepareMoves
<1>2. PipeTypeOK /\ Placed /\ curBufSize \in Nat /\ ready \subseteq Queue
  BY QueueNumbers DEF KInv, BaseOK
<1>3. \A r \in Queue \ {q} : BuffersOf(r)' = BuffersOf(r) /\ Published(r)' = Published(r)
  BY <1>1, SameRingSame
<1>4. \A r \in ready : \A k \in BuffersOf(r) : k \in Handle /\ k < curBufSize /\ buf'[k] = buf[k]
  BY <1>1, <1>2, BuffersInTable
<1>5. \A k \in S : ~ (k < curBufSize)
  BY <1>1, <1>2 DEF BuffersOf
<1>6. Promise!Slots(q) = {}
  <2>1. Published(q) \in Seq(Handle)
    BY <1>2, PublishedIsSeq
  <2>2. Fifos[q] = <<>>
    BY <1>1 DEF Fifos
  <2>3. DOMAIN <<>> = {}
    OBVIOUS
  <2> QED
    BY <1>1, <2>2, <2>3 DEF Promise!Slots, Promise!Entries, InState, Fifos
<1>7. S \subseteq Handle \ UNION {Promise!Slots(r) : r \in Queue}
  <2>1. ASSUME NEW r \in Queue, r # q, NEW k \in Promise!Slots(r) PROVE k < curBufSize
    <3>1. k \in InState(r, "FREE") \/ k \in InState(r, "OCCUPIED") \/ k \in InState(r, "DEQUE")
          \/ \E i \in DOMAIN Fifos[r] : k = Fifos[r][i]
      BY <2>1 DEF Promise!Slots, Promise!Entries, Fifos
    <3>2. CASE k \in InState(r, "FREE") \/ k \in InState(r, "OCCUPIED") \/ k \in InState(r, "DEQUE")
      <4>1. r \in ready /\ k \in BuffersOf(r)
        BY <3>2 DEF InState
      <4> QED
        BY <1>4, <4>1
    <3>3. CASE \E i \in DOMAIN Fifos[r] : k = Fifos[r][i]
      <4>1. r \in ready
        BY <3>3 DEF Fifos
      <4>2. Fifos[r] = Published(r) /\ RingOK(r) /\ DOMAIN Published(r) = Place(r)
        BY <1>2, <4>1, PublishedEntry DEF Fifos, KInv, Place
      <4>3. k \in BuffersOf(r)
        BY <3>3, <4>2 DEF RingOK
      <4> QED
        BY <1>4, <4>1, <4>3
    <3> QED
      BY <3>1, <3>2, <3>3
  <2>2. \A r \in Queue : \A k \in Promise!Slots(r) : k \notin S
    BY <1>5, <1>6, <2>1
  <2> QED
    BY <1>1, <2>2
<1>8. \A r \in Queue \ {q}, u \in TBufState : InState(r, u)' = InState(r, u)
  BY <1>1, <1>3, <1>4 DEF InState
<1>9. InState(q, "FREE")' = S /\ InState(q, "OCCUPIED")' = {} /\ InState(q, "DEQUE")' = {}
  BY <1>1 DEF InState
<1>10. \A u : InState(q, u) = {}
  BY <1>1 DEF InState
<1>11. InStates("FREE")' = [InStates("FREE") EXCEPT ![q] = S]
  BY <1>8, <1>9 DEF InStates, TBufState
<1>12. InStates("OCCUPIED")' = InStates("OCCUPIED") /\ InStates("DEQUE")' = InStates("DEQUE")
  BY <1>8, <1>9, <1>10 DEF InStates, TBufState
<1>13. Fifos' = Fifos
  <2>1. queue'[q].used = 0
    BY PrepareMoves
  <2>2. PipeTypeOK'
    BY QueueKernelAssumption, BaseInitBuffer DEF Prepare, KInv, BaseOK
  <2>3. Published(q)' = <<>>
    <3>1. DOMAIN Published(q)' = 1 .. 0
      BY <2>1 DEF Published
    <3>2. Published(q)' = [i \in 1 .. queue'[q].used |-> Published(q)'[i]]
      BY <2>1 DEF Published
    <3> DEFINE a == Published(q)'
    <3>3. a \in [1 .. 0 -> Handle]
      BY <2>1, <3>2
    <3> HIDE DEF a
    <3>4. a \in Seq(Handle)
      BY <3>3, SeqDef
    <3>5. DOMAIN a = 1 .. 0
      BY <3>3
    <3>6. Len(a) = 0
      BY <3>4, <3>5, LenProperties
    <3>7. a = <<>>
      BY <3>4, <3>6, EmptySeq
    <3> QED
      BY <3>7 DEF a
  <2> QED
    BY <1>1, <1>3, <2>3 DEF Fifos
<1> HIDE DEF S
<1> QED
  BY <1>6, <1>7, <1>11, <1>12, <1>13 DEF Promise!Provide, InStates, Fifos

\* With all buffers free, nothing is published or in use.
LEMMA AllFree ==
  ASSUME KInv, \A q \in ready : \A h \in BuffersOf(q) : buf[h].state = "FREE"
  PROVE  /\ \A q \in Queue : Promise!Slots(q) = InState(q, "FREE")
         /\ InStates("OCCUPIED") = [q \in Queue |-> {}] /\ InStates("DEQUE") = [q \in Queue |-> {}]
         /\ Fifos = [q \in Queue |-> <<>>]
<1>1. ASSUME NEW q \in Queue
      PROVE  InState(q, "OCCUPIED") = {} /\ InState(q, "DEQUE") = {} /\ Fifos[q] = <<>>
  <2>1. CASE q \notin ready
    BY <2>1 DEF InState, Fifos
  <2>2. CASE q \in ready
    <3>1. queue[q].used = 0
      <4>1. RingOK(q) /\ queue[q].used \in Nat
        BY <2>2, QueueNumbers DEF KInv, BaseOK
      <4>2. Place(q) = {}
        BY <2>2, <4>1 DEF RingOK
      <4>3. 1 \notin 1 .. queue[q].used
        BY <4>2 DEF Place
      <4> QED
        BY <4>1, <4>3
    <3>2. Published(q) = <<>>
      BY <3>1, PublishedIsSeq DEF KInv, BaseOK
    <3> QED
      BY <2>2, <3>2 DEF InState, Fifos
  <2> QED
    BY <2>1, <2>2
<1>2. ASSUME NEW q \in Queue PROVE Promise!Slots(q) = InState(q, "FREE")
  <2>1. DOMAIN <<>> = {}
    OBVIOUS
  <2> QED
    BY <1>1, <2>1 DEF Promise!Slots, Promise!Entries, Fifos
<1>3. Fifos = [q \in Queue |-> Fifos[q]]
  BY DEF Fifos
<1>4. Fifos = [q \in Queue |-> <<>>]
  BY <1>1, <1>3
<1> QED
  BY <1>1, <1>2, <1>4 DEF InStates

LEMMA PromiseStartOver ==
  ASSUME KInv, ready' = {}, \A q \in ready : \A h \in BuffersOf(q) : buf[h].state = "FREE"
  PROVE  Promise!StartOver
<1>1. /\ \A q \in Queue : Promise!Slots(q) = InState(q, "FREE")
      /\ InStates("OCCUPIED") = [q \in Queue |-> {}] /\ InStates("DEQUE") = [q \in Queue |-> {}]
      /\ Fifos = [q \in Queue |-> <<>>]
  BY AllFree
<1>2. \A u : InStates(u)' = [q \in Queue |-> {}]
  BY DEF InStates, InState
<1>3. Fifos' = [q \in Queue |-> <<>>]
  BY DEF Fifos
<1>4. \A q \in Queue : InStates("FREE")[q] = InState(q, "FREE")
  BY DEF InStates
<1> QED
  BY <1>1, <1>2, <1>3, <1>4 DEF Promise!StartOver, Promise!Nothing, InStates, Fifos

LEMMA PromiseInit == Init => Promise!Init
<1> SUFFICES ASSUME Init PROVE Promise!Init
  OBVIOUS
<1>1. ready = {}
  BY DEF Init
<1> QED
  BY <1>1 DEF Promise!Init, Promise!Nothing, InState

LEMMA PromiseQuiet ==
  ASSUME ready' = ready, queue' = queue,
         \A q \in ready : \A h \in BuffersOf(q) : buf'[h].state = buf[h].state
  PROVE  UNCHANGED Promise!vars
<1>1. \A r \in Queue : BuffersOf(r)' = BuffersOf(r) /\ SameRing(r)
  BY DEF BuffersOf, SameRing
<1>2. Fifos' = Fifos
  BY <1>1, FifosKept
<1>3. ASSUME NEW u PROVE InStates(u)' = InStates(u)
  BY <1>1 DEF InStates, InState
<1> QED
  BY <1>2, <1>3 DEF Promise!vars, InStates, Fifos

LEMMA PromiseStep == KInv /\ [Next]_vars => [Promise!Next]_Promise!vars
<1> SUFFICES ASSUME KInv, [Next]_vars PROVE Promise!Next \/ UNCHANGED Promise!vars
  OBVIOUS
<1> USE DEF Promise!Next
<1>1. CASE UNCHANGED vars
  BY <1>1, PromiseQuiet DEF vars, pipeVars
<1>2. ASSUME NEW p \in Pipe, Work(p) PROVE UNCHANGED Promise!vars
  BY <1>2, PromiseQuiet DEF Work, pipeVars, kernelVars
<1>3. ASSUME NEW q \in Queue, Prepare(q) PROVE Promise!Provide(q)
  BY <1>3, PromisePrepare
<1>4. ASSUME NEW q \in Queue, Obtain(q) PROVE Promise!Take(q)
  BY <1>4, PromiseObtain
<1>5. ASSUME NEW q \in Queue, Consume(q) PROVE Promise!Get(q)
  BY <1>5, PromiseConsume
<1>6. ASSUME NEW q \in Queue, NEW h \in Handle, Publish(q, h) PROVE Promise!Put(q)
  BY <1>6, PromisePublish
<1>7. ASSUME NEW q \in Queue, NEW h \in Handle, Recycle(q, h) PROVE Promise!GiveBack(q)
  BY <1>7, PromiseRecycle
<1>8. ASSUME NextPhase \/ Finish, NEW q \in ready, NEW h \in BuffersOf(q) PROVE buf[h].state = "FREE"
  <2>1. h \in Handle /\ h < curBufSize /\ curBufSize \in Nat
    BY BuffersInTable, QueueNumbers DEF KInv, BaseOK
  <2> QED
    BY <1>8, <2>1 DEF NextPhase, Finish, Leaked, Handle
<1>9. CASE NextPhase
  <2>1. ready' = {}
    BY <1>9 DEF NextPhase
  <2> QED
    BY <1>8, <1>9, <2>1, PromiseStartOver
<1>10. CASE Finish
  <2>1. ready' = ready /\ queue' = queue
    BY <1>10 DEF Finish, Destroy, kernelVars
  <2>2. \A h \in Handle : buf'[h].state = buf[h].state
    BY <1>10 DEF Finish, Destroy, KInv, BaseOK, PipeTypeOK, TBufType
  <2>3. \A q \in ready : \A h \in BuffersOf(q) : h \in Handle
    BY BuffersInTable DEF KInv, BaseOK
  <2> QED
    BY <2>1, <2>2, <2>3, PromiseQuiet
<1>11. CASE Restart
  <2>1. ready' = {} /\ destroyed
    BY <1>11 DEF Restart, NextKernel
  <2> QED
    BY <2>1, PromiseStartOver DEF KInv, AtRest
<1> QED
  BY <1>1, <1>2, <1>3, <1>4, <1>5, <1>6, <1>7, <1>9, <1>10, <1>11 DEF Next, Step

\* For any queues, depths and pipelining, the life cycle of the descriptors and
\* the ring hand every buffer from one owner to the next, first in, first out.
THEOREM KernelKeepsPromise == Spec => QueuesKeepTheirPromise
<1>1. Init => Promise!Init
  BY PromiseInit
<1>2. KInv /\ [Next]_vars => [Promise!Next]_Promise!vars
  BY PromiseStep
<1> QED
  BY <1>1, <1>2, KInvAlways, PTL DEF Spec, QueuesKeepTheirPromise, Promise!Spec

-----------------------------------------------------------------------------
(* Event ids.                                                              *)

Holds(q, h, e, id) ==
  /\ id \in EventId
  /\ \/ e = EnQueEvt[q] /\ id = buf[h].enQueEvtID
     \/ e = FreeBufEvt[q] /\ id = buf[h].freeBufEvtID

LEMMA HeldByHolds ==
  ASSUME NEW q \in Queue, NEW h
  PROVE  /\ \A e, id : <<e, id>> \in HeldBy(q, h) <=> Holds(q, h, e, id)
         /\ \A f \in HeldBy(q, h) : f = <<f[1], f[2]>> /\ f[1] \in Event /\ f[2] \in EventId
<1>1. EnQueEvt[q] \in Event /\ FreeBufEvt[q] \in Event
  BY TPipeAssumption
<1> QED
  BY <1>1 DEF HeldBy, Holds

\* A queue that is not ready may still name the buffers it had before Reset:
\* they are free, but their back events are not forgotten until InitBuffer
\* hands the descriptors out again.
StaleAtRest ==
  ready # Queue => \A q \in Queue : \A h \in BuffersOf(q) : buf[h].state = "FREE"

Settled(q, h) ==
  /\ buf[h].state # "ENQUE" => buf[h].enQueEvtID = INVALID_TEVENTID
  /\ buf[h].state # "FREE" => buf[h].freeBufEvtID = INVALID_TEVENTID

Claimed ==
  \A q \in Queue : \A h \in BuffersOf(q) : \A e \in Event, id \in EventId :
    Holds(q, h, e, id) => flags[e][id].pending /\ id \in eventOccupy[e]

\* Whoever holds an id, through whatever queue, is one buffer.
Exclusive ==
  \A q, r \in Queue : \A h \in BuffersOf(q), k \in BuffersOf(r) :
    \A e \in Event, id \in EventId :
      Holds(q, h, e, id) => /\ Holds(r, k, e, id) => h = k
                            /\ h = k => q = r

EInv ==
  ~ destroyed =>
    /\ StaleAtRest
    /\ \A q \in Queue : \A h \in BuffersOf(q) : Settled(q, h)
    /\ Claimed
    /\ Exclusive

\* Nothing is up or taken that no buffer holds.
NoLeak ==
  ~ destroyed => \A e \in Event, id \in EventId :
    flags[e][id].pending \/ id \in eventOccupy[e] =>
      \E q \in ready : \E h \in BuffersOf(q) : Holds(q, h, e, id)

\* What taking and giving back an id does to the pool.
Taken(e, id) ==
  \A f \in Event, i \in EventId :
    /\ flags'[f][i].pending <=> flags[f][i].pending \/ (f = e /\ i = id)
    /\ i \in eventOccupy'[f] <=> i \in eventOccupy[f] \/ (f = e /\ i = id)

Dropped(e, id) ==
  \A f \in Event, i \in EventId :
    /\ flags'[f][i].pending <=> flags[f][i].pending /\ ~ (f = e /\ i = id)
    /\ i \in eventOccupy'[f] <=> i \in eventOccupy[f] /\ ~ (f = e /\ i = id)

LEMMA PoolOfCalls ==
  ASSUME KInv, EInv, NEW q \in Queue, NEW h \in Handle
  PROVE  /\ Publish(q, h) => Taken(EnQueEvt[q], NextEventID(EnQueEvt[q]))
         /\ Recycle(q, h) => Taken(FreeBufEvt[q], NextEventID(FreeBufEvt[q]))
         /\ Consume(q) => Dropped(EnQueEvt[q], buf[OldestSlot(q)].enQueEvtID)
         /\ Obtain(q) => Dropped(FreeBufEvt[q], buf[IdleSlot(q)].freeBufEvtID)
<1>1. EnQueEvt[q] \in Event /\ FreeBufEvt[q] \in Event /\ CoreTypeOK /\ PipeTypeOK
  BY TPipeAssumption DEF KInv, BaseOK
<1>2. Publish(q, h) => Taken(EnQueEvt[q], NextEventID(EnQueEvt[q]))
  BY <1>1, CallsOfPool, PoolAfterSet DEF Publish, Taken
<1>3. Recycle(q, h) => Taken(FreeBufEvt[q], NextEventID(FreeBufEvt[q]))
  BY <1>1, CallsOfPool, PoolAfterSet DEF Recycle, Taken
<1>4. Consume(q) => Dropped(EnQueEvt[q], buf[OldestSlot(q)].enQueEvtID)
  BY <1>1, CallsOfPool, PoolAfterWait DEF Consume, Dropped
<1>5. ASSUME Obtain(q) PROVE Dropped(FreeBufEvt[q], buf[IdleSlot(q)].freeBufEvtID)
  <2> DEFINE id == buf[IdleSlot(q)].freeBufEvtID
  <2>1. CASE id = INVALID_TEVENTID
    <3>1. UNCHANGED <<flags, eventOccupy>>
      BY <1>5, <2>1, CallsOfPool DEF Obtain
    <3> QED
      BY <2>1, <3>1, NoIdTyped DEF Dropped
  <2>2. CASE id # INVALID_TEVENTID
    <3>1. /\ flags' = FlagsAfterWait(FreeBufEvt[q], id)
          /\ eventOccupy' = OccupyAfterRelease(FreeBufEvt[q], id)
      BY <1>5, <2>2, CallsOfPool DEF Obtain
    <3> HIDE DEF id
    <3>2. Dropped(FreeBufEvt[q], id)
      BY <1>1, <3>1, PoolAfterWait DEF Dropped
    <3> QED
      BY <3>2 DEF id
  <2> QED
    BY <2>1, <2>2
<1> QED
  BY <1>2, <1>3, <1>4, <1>5

\* A hand-over by buffer h of q, which holds nothing but <<e, id>> before it.
LEMMA IdsAfterWait ==
  ASSUME KInv, EInv, ~ destroyed, NEW q \in ready, NEW h \in BuffersOf(q), NEW s, NEW t,
         Moves(h, s, t), ready = Queue, UNCHANGED <<ready, destroyed>>,
         \A r \in Queue : BuffersOf(r)' = BuffersOf(r),
         Settled(q, h)', NEW e \in Event, NEW id, Dropped(e, id),
         \A f \in Event, i \in EventId : Holds(q, h, f, i) <=> i \in EventId /\ f = e /\ i = id,
         \A f \in Event, i \in EventId : ~ Holds(q, h, f, i)'
  PROVE  EInv' /\ (NoLeak => NoLeak')
<1>1. ASSUME NEW r \in Queue, NEW k \in BuffersOf(r), k # h \/ r # q
      PROVE  /\ k # h
             /\ Settled(r, k)' <=> Settled(r, k)
             /\ \A f \in Event, i \in EventId : Holds(r, k, f, i)' <=> Holds(r, k, f, i)
  <2>1. k # h /\ buf'[k] = buf[k]
    BY <1>1, OthersStay
  <2> QED
    BY <2>1 DEF Settled, Holds
<1>2. \A r \in Queue : \A k \in BuffersOf(r)' : Settled(r, k)'
  BY <1>1 DEF EInv
<1>3. Claimed'
  <2> SUFFICES ASSUME NEW r \in Queue, NEW k \in BuffersOf(r), NEW f \in Event, NEW i \in EventId,
                      Holds(r, k, f, i)'
               PROVE  flags'[f][i].pending /\ i \in eventOccupy'[f]
    BY DEF Claimed
  <2>1. (k # h \/ r # q) /\ Holds(r, k, f, i)
    BY <1>1
  <2>2. flags[f][i].pending /\ i \in eventOccupy[f] /\ k # h
    BY <1>1, <2>1 DEF EInv, Claimed
  <2>3. ~ (f = e /\ i = id)
    BY <2>1, <2>2 DEF EInv, Exclusive
  <2> QED
    BY <2>2, <2>3 DEF Dropped
<1>4. Exclusive'
  BY <1>1 DEF EInv, Exclusive
<1>5. StaleAtRest'
  BY DEF StaleAtRest
<1>6. ASSUME NoLeak PROVE NoLeak'
  <2> SUFFICES ASSUME NEW f \in Event, NEW i \in EventId,
                      flags'[f][i].pending \/ i \in eventOccupy'[f]
               PROVE  \E r \in ready : \E k \in BuffersOf(r) : Holds(r, k, f, i)'
    BY DEF NoLeak
  <2>1. PICK r \in Queue : \E k \in BuffersOf(r) : Holds(r, k, f, i)
    BY <1>6 DEF NoLeak, Dropped
  <2>2. PICK k \in BuffersOf(r) : Holds(r, k, f, i)
    BY <2>1
  <2>3. k # h \/ r # q
    BY <2>2 DEF Dropped
  <2> QED
    BY <1>1, <2>2, <2>3
<1> QED
  BY <1>2, <1>3, <1>4, <1>5, <1>6 DEF EInv

\* A hand-over by buffer h of q, which holds nothing but <<e, id>> after it.
LEMMA IdsAfterSet ==
  ASSUME KInv, EInv, ~ destroyed, NEW q \in ready, NEW h \in BuffersOf(q), NEW s, NEW t,
         Moves(h, s, t), ready = Queue, UNCHANGED <<ready, destroyed>>,
         \A r \in Queue : BuffersOf(r)' = BuffersOf(r),
         Settled(q, h)', NEW e \in Event, NEW id, id = NextEventID(e), Taken(e, id),
         \A f \in Event, i \in EventId : ~ Holds(q, h, f, i),
         \A f \in Event, i \in EventId : Holds(q, h, f, i)' <=> i \in EventId /\ f = e /\ i = id
  PROVE  EInv' /\ (NoLeak => NoLeak')
<1>1. ASSUME NEW r \in Queue, NEW k \in BuffersOf(r), k # h \/ r # q
      PROVE  /\ k # h
             /\ Settled(r, k)' <=> Settled(r, k)
             /\ \A f \in Event, i \in EventId : Holds(r, k, f, i)' <=> Holds(r, k, f, i)
  <2>1. k # h /\ buf'[k] = buf[k]
    BY <1>1, OthersStay
  <2> QED
    BY <2>1 DEF Settled, Holds
<1>2. \A r \in Queue : \A k \in BuffersOf(r)' : Settled(r, k)'
  BY <1>1 DEF EInv
<1>3. Claimed'
  <2> SUFFICES ASSUME NEW r \in Queue, NEW k \in BuffersOf(r), NEW f \in Event, NEW i \in EventId,
                      Holds(r, k, f, i)'
               PROVE  flags'[f][i].pending /\ i \in eventOccupy'[f]
    BY DEF Claimed
  <2>1. CASE k # h \/ r # q
    <3>1. Holds(r, k, f, i)
      BY <1>1, <2>1
    <3> QED
      BY <3>1 DEF EInv, Claimed, Taken
  <2>2. CASE k = h /\ r = q
    BY <2>2 DEF Taken
  <2> QED
    BY <2>1, <2>2
<1>4. id \in EventId => id \notin eventOccupy[e]
  BY NextEventIDFree DEF KInv, BaseOK
<1>5. ASSUME NEW r \in Queue, NEW k \in BuffersOf(r), k # h \/ r # q, id \in EventId
      PROVE  ~ Holds(r, k, e, id)'
  BY <1>1, <1>4, <1>5 DEF EInv, Claimed
<1>6. Exclusive'
  <2> SUFFICES ASSUME NEW r \in Queue, NEW u \in Queue, NEW k \in BuffersOf(r), NEW g \in BuffersOf(u),
                      NEW f \in Event, NEW i \in EventId, Holds(r, k, f, i)'
               PROVE  /\ Holds(u, g, f, i)' => k = g
                      /\ k = g => r = u
    BY DEF Exclusive
  <2>1. k = g => r = u
    BY DEF KInv, Placed
  <2>2. ASSUME Holds(u, g, f, i)' PROVE k = g
    <3>1. CASE (k # h \/ r # q) /\ (g # h \/ u # q)
      BY <1>1, <2>2, <3>1 DEF EInv, Exclusive
    <3>2. CASE k = h /\ r = q
      BY <1>5, <2>2, <3>2
    <3>3. CASE g = h /\ u = q
      BY <1>5, <2>2, <3>3
    <3> QED
      BY <3>1, <3>2, <3>3
  <2> QED
    BY <2>1, <2>2
<1>7. StaleAtRest'
  BY DEF StaleAtRest
<1>8. ASSUME NoLeak PROVE NoLeak'
  <2> SUFFICES ASSUME NEW f \in Event, NEW i \in EventId,
                      flags'[f][i].pending \/ i \in eventOccupy'[f]
               PROVE  \E r \in ready : \E k \in BuffersOf(r) : Holds(r, k, f, i)'
    BY DEF NoLeak
  <2>1. CASE f = e /\ i = id
    BY <2>1
  <2>2. CASE ~ (f = e /\ i = id)
    <3>1. PICK r \in Queue : \E k \in BuffersOf(r) : Holds(r, k, f, i)
      BY <1>8, <2>2 DEF NoLeak, Taken
    <3>2. PICK k \in BuffersOf(r) : Holds(r, k, f, i)
      BY <3>1
    <3>3. k # h \/ r # q
      BY <3>2
    <3> QED
      BY <1>1, <3>2, <3>3
  <2> QED
    BY <2>1, <2>2
<1> QED
  BY <1>2, <1>3, <1>6, <1>7, <1>8 DEF EInv

LEMMA IdsObtain ==
  ASSUME KInv, EInv, ~ destroyed, NEW q \in Queue, Obtain(q)
  PROVE  EInv' /\ (NoLeak => NoLeak')
<1>1. PICK h \in Handle : h = IdleSlot(q)
  BY ObtainMoves DEF Moves
<1>2. /\ q \in ready /\ ready' = ready /\ h \in BuffersOf(q)
      /\ Moves(h, "FREE", "OCCUPIED")
      /\ buf'[h].enQueEvtID = INVALID_TEVENTID /\ buf'[h].freeBufEvtID = INVALID_TEVENTID
      /\ buf[h].enQueEvtID = INVALID_TEVENTID
  <2>1. /\ q \in ready /\ ready' = ready /\ h \in BuffersOf(q)
        /\ Moves(h, "FREE", "OCCUPIED")
        /\ buf'[h].freeBufEvtID = INVALID_TEVENTID
        /\ buf'[h].enQueEvtID = buf[h].enQueEvtID
    BY <1>1, ObtainMoves
  <2>2. buf[h].enQueEvtID = INVALID_TEVENTID
    BY <2>1 DEF EInv, Settled, Moves
  <2> QED
    BY <2>1, <2>2
<1>3. ready = Queue /\ UNCHANGED destroyed
  BY <1>2, Busy DEF Obtain, AllocTensor, Moves
<1>4. \A r \in Queue : BuffersOf(r)' = BuffersOf(r)
  <2>1. AllocTensor(q)
    BY DEF Obtain
  <2> QED
    BY <2>1, RingCallKeepsPlace DEF BuffersOf, KInv, BaseOK
<1>5. PICK id : id = buf[h].freeBufEvtID
  OBVIOUS
<1>6. Dropped(FreeBufEvt[q], id) /\ FreeBufEvt[q] \in Event
  BY <1>1, <1>5, PoolOfCalls, TPipeAssumption
<1>7. Settled(q, h)'
  BY <1>2 DEF Settled
<1>8. \A f \in Event, i \in EventId : Holds(q, h, f, i) <=> i \in EventId /\ f = FreeBufEvt[q] /\ i = id
  BY <1>2, <1>5, NoIdTyped DEF Holds
<1>9. \A f \in Event, i \in EventId : ~ Holds(q, h, f, i)'
  BY <1>2, NoIdTyped DEF Holds
<1> QED
  BY <1>2, <1>3, <1>4, <1>6, <1>7, <1>8, <1>9, IdsAfterWait

LEMMA IdsConsume ==
  ASSUME KInv, EInv, ~ destroyed, NEW q \in Queue, Consume(q)
  PROVE  EInv' /\ (NoLeak => NoLeak')
<1>1. PICK h \in Handle : h = OldestSlot(q)
  BY ConsumeMoves DEF Moves
<1>2. /\ q \in ready /\ ready' = ready /\ h \in BuffersOf(q)
      /\ Moves(h, "ENQUE", "DEQUE")
      /\ buf'[h].enQueEvtID = INVALID_TEVENTID /\ buf'[h].freeBufEvtID = INVALID_TEVENTID
      /\ buf[h].freeBufEvtID = INVALID_TEVENTID
  <2>1. /\ q \in ready /\ ready' = ready /\ h \in BuffersOf(q)
        /\ Moves(h, "ENQUE", "DEQUE")
        /\ buf'[h].enQueEvtID = INVALID_TEVENTID
        /\ buf'[h].freeBufEvtID = buf[h].freeBufEvtID
    BY <1>1, ConsumeMoves
  <2>2. buf[h].freeBufEvtID = INVALID_TEVENTID
    BY <2>1 DEF EInv, Settled, Moves
  <2> QED
    BY <2>1, <2>2
<1>3. ready = Queue /\ UNCHANGED destroyed
  BY <1>2, Busy DEF Consume, DeQue, Moves
<1>4. \A r \in Queue : BuffersOf(r)' = BuffersOf(r)
  <2>1. DeQue(q)
    BY DEF Consume
  <2> QED
    BY <2>1, RingCallKeepsPlace DEF BuffersOf, KInv, BaseOK
<1>5. PICK id : id = buf[h].enQueEvtID
  OBVIOUS
<1>6. Dropped(EnQueEvt[q], id) /\ EnQueEvt[q] \in Event
  BY <1>1, <1>5, PoolOfCalls, TPipeAssumption
<1>7. Settled(q, h)'
  BY <1>2 DEF Settled
<1>8. \A f \in Event, i \in EventId : Holds(q, h, f, i) <=> i \in EventId /\ f = EnQueEvt[q] /\ i = id
  BY <1>2, <1>5, NoIdTyped DEF Holds
<1>9. \A f \in Event, i \in EventId : ~ Holds(q, h, f, i)'
  BY <1>2, NoIdTyped DEF Holds
<1> QED
  BY <1>2, <1>3, <1>4, <1>6, <1>7, <1>8, <1>9, IdsAfterWait

LEMMA IdsPublish ==
  ASSUME KInv, EInv, ~ destroyed, NEW q \in Queue, NEW h \in Handle, Publish(q, h)
  PROVE  EInv' /\ (NoLeak => NoLeak')
<1>1. PICK id : id = NextEventID(EnQueEvt[q])
  OBVIOUS
<1>2. /\ q \in ready /\ ready' = ready /\ h \in BuffersOf(q)
      /\ Moves(h, "OCCUPIED", "ENQUE")
      /\ buf[h].enQueEvtID = INVALID_TEVENTID /\ buf[h].freeBufEvtID = INVALID_TEVENTID
      /\ buf'[h].enQueEvtID = id
      /\ buf'[h].freeBufEvtID = INVALID_TEVENTID
  <2>1. /\ q \in ready /\ ready' = ready /\ h \in BuffersOf(q)
        /\ Moves(h, "OCCUPIED", "ENQUE")
        /\ buf'[h].enQueEvtID = id
        /\ buf'[h].freeBufEvtID = buf[h].freeBufEvtID
    BY <1>1, PublishMoves
  <2>2. buf[h].enQueEvtID = INVALID_TEVENTID /\ buf[h].freeBufEvtID = INVALID_TEVENTID
    BY <2>1 DEF EInv, Settled, Moves
  <2> QED
    BY <2>1, <2>2
<1>3. ready = Queue /\ UNCHANGED destroyed
  BY <1>2, Busy DEF Publish, EnQue, Moves
<1>4. \A r \in Queue : BuffersOf(r)' = BuffersOf(r)
  <2>1. EnQue(q, h)
    BY DEF Publish
  <2> QED
    BY <2>1, RingCallKeepsPlace DEF BuffersOf, KInv, BaseOK
<1>6. Taken(EnQueEvt[q], id) /\ EnQueEvt[q] \in Event
  BY <1>1, PoolOfCalls, TPipeAssumption
<1>7. Settled(q, h)'
  BY <1>2 DEF Settled, Moves
<1>8. \A f \in Event, i \in EventId : ~ Holds(q, h, f, i)
  BY <1>2, NoIdTyped DEF Holds
<1>9. \A f \in Event, i \in EventId : Holds(q, h, f, i)' <=> i \in EventId /\ f = EnQueEvt[q] /\ i = id
  BY <1>2, NoIdTyped DEF Holds
<1> QED
  BY <1>1, <1>2, <1>3, <1>4, <1>6, <1>7, <1>8, <1>9, IdsAfterSet

LEMMA IdsRecycle ==
  ASSUME KInv, EInv, ~ destroyed, NEW q \in Queue, NEW h \in Handle, Recycle(q, h)
  PROVE  EInv' /\ (NoLeak => NoLeak')
<1>1. PICK id : id = NextEventID(FreeBufEvt[q])
  OBVIOUS
<1>2. /\ q \in ready /\ ready' = ready /\ h \in BuffersOf(q)
      /\ Moves(h, "DEQUE", "FREE")
      /\ buf[h].enQueEvtID = INVALID_TEVENTID /\ buf[h].freeBufEvtID = INVALID_TEVENTID
      /\ buf'[h].freeBufEvtID = id
      /\ buf'[h].enQueEvtID = INVALID_TEVENTID
  <2>1. /\ q \in ready /\ ready' = ready /\ h \in BuffersOf(q)
        /\ Moves(h, "DEQUE", "FREE")
        /\ buf'[h].freeBufEvtID = id
        /\ buf'[h].enQueEvtID = buf[h].enQueEvtID
    BY <1>1, RecycleMoves
  <2>2. buf[h].enQueEvtID = INVALID_TEVENTID /\ buf[h].freeBufEvtID = INVALID_TEVENTID
    BY <2>1 DEF EInv, Settled, Moves
  <2> QED
    BY <2>1, <2>2
<1>3. ready = Queue /\ UNCHANGED destroyed
  BY <1>2, Busy DEF Recycle, FreeTensor, Moves
<1>4. \A r \in Queue : BuffersOf(r)' = BuffersOf(r)
  <2>1. FreeTensor(q, h)
    BY DEF Recycle
  <2> QED
    BY <2>1, RingCallKeepsPlace DEF BuffersOf, KInv, BaseOK
<1>6. Taken(FreeBufEvt[q], id) /\ FreeBufEvt[q] \in Event
  BY <1>1, PoolOfCalls, TPipeAssumption
<1>7. Settled(q, h)'
  BY <1>2 DEF Settled, Moves
<1>8. \A f \in Event, i \in EventId : ~ Holds(q, h, f, i)
  BY <1>2, NoIdTyped DEF Holds
<1>9. \A f \in Event, i \in EventId : Holds(q, h, f, i)' <=> i \in EventId /\ f = FreeBufEvt[q] /\ i = id
  BY <1>2, NoIdTyped DEF Holds
<1> QED
  BY <1>1, <1>2, <1>3, <1>4, <1>6, <1>7, <1>8, <1>9, IdsAfterSet

LEMMA IdsPrepare ==
  ASSUME KInv, EInv, ~ destroyed, NEW q \in Queue, Prepare(q)
  PROVE  EInv' /\ (NoLeak => NoLeak')
<1>1. /\ q \notin ready /\ ready' = ready \cup {q}
      /\ \A r \in Queue \ {q} : SameRing(r)
      /\ \A k \in BuffersOf(q)' :
           /\ k \in Handle
           /\ buf'[k].state = "FREE" /\ buf'[k].enQueEvtID = INVALID_TEVENTID
           /\ buf'[k].freeBufEvtID = INVALID_TEVENTID
      /\ \A k \in Handle \ BuffersOf(q)' : buf'[k] = buf[k]
      /\ UNCHANGED <<flags, eventOccupy, destroyed>>
  BY PrepareMoves DEF coreVars
<1>2. \A r \in Queue \ {q} : BuffersOf(r)' = BuffersOf(r)
  BY <1>1, SameRingSame
<1>3. ASSUME NEW r \in Queue, NEW k \in BuffersOf(r)'
      PROVE  k \in BuffersOf(q)' \/ (r # q /\ k \in BuffersOf(r) /\ buf'[k] = buf[k])
  BY <1>1, <1>2, BuffersInTable DEF KInv, BaseOK
<1>4. ASSUME NEW r \in Queue, NEW k \in BuffersOf(r)'
      PROVE  /\ buf'[k].state = "FREE"
             /\ Settled(r, k)'
             /\ \A e \in Event, id \in EventId :
                  Holds(r, k, e, id)' => r # q /\ k \in BuffersOf(r) /\ Holds(r, k, e, id)
  <2>1. CASE k \in BuffersOf(q)'
    BY <1>1, <2>1, NoIdTyped DEF Settled, Holds
  <2>2. CASE r # q /\ k \in BuffersOf(r) /\ buf'[k] = buf[k]
    BY <1>1, <2>2 DEF EInv, StaleAtRest, Settled, Holds
  <2> QED
    BY <1>3, <2>1, <2>2
<1>5. Claimed'
  BY <1>1, <1>4 DEF EInv, Claimed
<1>6. Exclusive'
  <2> SUFFICES ASSUME NEW r \in Queue, NEW u \in Queue, NEW k \in BuffersOf(r)', NEW g \in BuffersOf(u)',
                      NEW f \in Event, NEW i \in EventId, Holds(r, k, f, i)'
               PROVE  /\ Holds(u, g, f, i)' => k = g
                      /\ k = g => r = u
    BY DEF Exclusive
  <2>1. r # q /\ k \in BuffersOf(r) /\ Holds(r, k, f, i) /\ k \notin BuffersOf(q)'
    BY <1>1, <1>4, NoIdTyped DEF Holds
  <2>2. ASSUME Holds(u, g, f, i)' PROVE k = g
    BY <1>4, <2>1, <2>2 DEF EInv, Exclusive
  <2>3. ASSUME k = g PROVE r = u
    <3>1. u # q /\ g \in BuffersOf(u)
      BY <1>3, <2>1, <2>3
    <3> QED
      BY <2>1, <2>3, <3>1 DEF EInv, Exclusive
  <2> QED
    BY <2>2, <2>3
<1>7. ASSUME NoLeak PROVE NoLeak'
  <2>1. ASSUME NEW r \in ready, NEW k \in BuffersOf(r), NEW f \in Event, NEW i \in EventId,
               Holds(r, k, f, i)
        PROVE  r \in ready' /\ k \in BuffersOf(r)' /\ Holds(r, k, f, i)'
    <3>1. r \in Queue /\ r # q /\ k \in Handle /\ k < curBufSize
      BY <1>1, BuffersInTable DEF KInv, BaseOK
    <3>2. buf'[k] = buf[k]
      BY <3>1, PrepareMoves
    <3> QED
      BY <1>1, <1>2, <2>1, <3>1, <3>2 DEF Holds
  <2> QED
    BY <1>1, <1>7, <2>1 DEF NoLeak
<1> QED
  BY <1>4, <1>5, <1>6, <1>7 DEF EInv, StaleAtRest

LEMMA IdsEmpty ==
  ASSUME \A q \in Queue : queue'[q].start = 0 /\ queue'[q].num = 0
  PROVE  EInv'
<1>1. \A q \in Queue : BuffersOf(q)' = {}
  BY DEF BuffersOf
<1> QED
  BY <1>1 DEF EInv, StaleAtRest, Claimed, Exclusive

LEMMA EInvStep == KInv /\ EInv /\ [Next]_vars => EInv'
<1> SUFFICES ASSUME KInv, EInv, [Next]_vars PROVE EInv'
  OBVIOUS
<1>1. ASSUME UNCHANGED <<flags, eventOccupy, destroyed, buf, queue>>, UNCHANGED ready \/ NextPhase
      PROVE  EInv'
  <2>1. \A r \in Queue : BuffersOf(r)' = BuffersOf(r)
    BY <1>1 DEF BuffersOf
  <2>2. ~ destroyed' => Claimed' /\ Exclusive' /\ \A q \in Queue : \A h \in BuffersOf(q)' : Settled(q, h)'
    BY <1>1, <2>1 DEF EInv, Claimed, Exclusive, Settled, Holds
  <2>3. ~ destroyed' => StaleAtRest'
    <3>1. CASE UNCHANGED ready
      BY <1>1, <2>1, <3>1 DEF EInv, StaleAtRest
    <3>2. ASSUME NextPhase, ~ destroyed, NEW q \in Queue, NEW h \in BuffersOf(q)
          PROVE  buf[h].state = "FREE"
      <4>1. CASE ready # Queue
        BY <3>2, <4>1 DEF EInv, StaleAtRest
      <4>2. CASE ready = Queue
        <5>1. h \in Handle /\ h < curBufSize /\ curBufSize \in Nat
          BY <4>2, BuffersInTable, QueueNumbers DEF KInv, BaseOK
        <5> QED
          BY <3>2, <5>1 DEF NextPhase, Leaked, Handle
      <4> QED
        BY <4>1, <4>2
    <3> QED
      BY <1>1, <2>1, <3>1, <3>2 DEF StaleAtRest
  <2> QED
    BY <2>2, <2>3 DEF EInv
<1>2. CASE UNCHANGED vars
  BY <1>1, <1>2 DEF vars, coreVars, pipeVars
<1>3. ASSUME NEW p \in Pipe, Work(p) PROVE EInv'
  BY <1>1, <1>3 DEF Work, Instruction, pipeVars, kernelVars
<1>4. CASE NextPhase
  BY <1>1, <1>4 DEF NextPhase, Reset, coreVars
<1>5. CASE Finish
  BY <1>5 DEF Finish, Destroy, EInv
<1>6. CASE Restart
  <2>1. \A q \in Queue : queue'[q].start = 0 /\ queue'[q].num = 0
    BY <1>6 DEF Restart, NextKernel, NewPipe, NewQueue
  <2> QED
    BY <2>1, IdsEmpty
<1>7. ASSUME ~ destroyed, NEW q \in Queue, Prepare(q) \/ Obtain(q) \/ Consume(q) PROVE EInv'
  BY <1>7, IdsPrepare, IdsObtain, IdsConsume
<1>8. ASSUME ~ destroyed, NEW q \in Queue, NEW h \in Handle, Publish(q, h) \/ Recycle(q, h) PROVE EInv'
  BY <1>8, IdsPublish, IdsRecycle
<1> QED
  BY <1>2, <1>3, <1>4, <1>5, <1>6, <1>7, <1>8 DEF Next, Step

LEMMA EInvInit == Init => EInv
<1> SUFFICES ASSUME Init PROVE EInv
  OBVIOUS
<1>1. \A q \in Queue : queue[q].start = 0 /\ queue[q].num = 0
  BY DEF Init, PipeInit, NewPipe, NewQueue
<1>2. \A q \in Queue : BuffersOf(q) = {}
  BY <1>1 DEF BuffersOf
<1> QED
  BY <1>2 DEF EInv, StaleAtRest, Claimed, Exclusive

LEMMA EInvAlways == Spec => []EInv
  BY EInvInit, EInvStep, KInvAlways, PTL DEF Spec

\* An id names one hand-over at a time and its flag is up, whatever the pools
\* and queues, also while queues of a phase before still wait for a back event.
THEOREM KernelIdsExclusive == Spec => []EventIdsExclusive
<1>1. EInv => EventIdsExclusive
  <2> SUFFICES ASSUME EInv, ~ destroyed, NEW q \in Queue, NEW r \in Queue,
                      NEW h \in BuffersOf(q), NEW k \in BuffersOf(r), NEW f \in HeldBy(q, h)
               PROVE  /\ h # k => f \notin HeldBy(r, k)
                      /\ flags[f[1]][f[2]].pending
    BY DEF EventIdsExclusive
  <2>1. f = <<f[1], f[2]>> /\ f[1] \in Event /\ f[2] \in EventId
    BY HeldByHolds
  <2>2. Holds(q, h, f[1], f[2])
    BY <2>1, HeldByHolds
  <2>3. f \in HeldBy(r, k) => Holds(r, k, f[1], f[2])
    BY <2>1, HeldByHolds
  <2> QED
    BY <2>1, <2>2, <2>3 DEF EInv, Claimed, Exclusive
<1> QED
  BY <1>1, EInvAlways, PTL

LEMMA NoLeakStep == Phases = 0 /\ KInv /\ EInv /\ NoLeak /\ [Next]_vars => NoLeak'
<1> SUFFICES ASSUME Phases = 0, KInv, EInv, NoLeak, [Next]_vars PROVE NoLeak'
  OBVIOUS
<1>1. ASSUME UNCHANGED <<flags, eventOccupy, destroyed, buf, queue, ready>> PROVE NoLeak'
  BY <1>1 DEF NoLeak, Holds, BuffersOf
<1>2. CASE UNCHANGED vars
  BY <1>1, <1>2 DEF vars, coreVars, pipeVars
<1>3. ASSUME NEW p \in Pipe, Work(p) PROVE NoLeak'
  BY <1>1, <1>3 DEF Work, Instruction, pipeVars, kernelVars
<1>4. ~ NextPhase
  BY DEF NextPhase, KInv
<1>5. CASE Finish
  BY <1>5 DEF Finish, Destroy, NoLeak
<1>6. CASE Restart
  <2>1. \A e \in Event, id \in EventId : ~ flags'[e][id].pending /\ eventOccupy'[e] = {}
    BY <1>6 DEF Restart, NextKernel, KernelLaunch, Fresh, Lowered, NewPipe
  <2> QED
    BY <2>1 DEF NoLeak
<1>7. ASSUME ~ destroyed, NEW q \in Queue, Prepare(q) \/ Obtain(q) \/ Consume(q) PROVE NoLeak'
  BY <1>7, IdsPrepare, IdsObtain, IdsConsume
<1>8. ASSUME ~ destroyed, NEW q \in Queue, NEW h \in Handle, Publish(q, h) \/ Recycle(q, h) PROVE NoLeak'
  BY <1>8, IdsPublish, IdsRecycle
<1> QED
  BY <1>2, <1>3, <1>4, <1>5, <1>6, <1>7, <1>8 DEF Next, Step

LEMMA NoLeakInit == Init => NoLeak
<1> SUFFICES ASSUME Init PROVE NoLeak
  OBVIOUS
<1>1. \A e \in Event, id \in EventId : ~ flags[e][id].pending /\ eventOccupy[e] = {}
  BY DEF Init, CoreInit, PipeInit, NewPipe, Fresh, Lowered
<1> QED
  BY <1>1 DEF NoLeak

\* A kernel that never resets its pipe leaks nothing: every flag that is up and
\* every id that is taken belongs to a buffer on its way.
THEOREM KernelLeaksNoEvents ==
  ASSUME Phases = 0
  PROVE  Spec => []NoEventLeaks
<1>1. Init => NoLeak
  BY NoLeakInit
<1>2. KInv /\ EInv /\ NoLeak /\ [Next]_vars => NoLeak'
  BY NoLeakStep
<1>3. KInv /\ NoLeak => NoEventLeaks
  <2> SUFFICES ASSUME KInv, NoLeak, ~ destroyed, NEW e \in Event, NEW id \in EventId,
                      flags[e][id].pending \/ id \in eventOccupy[e]
               PROVE  \E q \in ready : \E h \in BuffersOf(q) : <<e, id>> \in HeldBy(q, h)
    BY DEF NoEventLeaks
  <2>1. PICK q \in ready : \E h \in BuffersOf(q) : Holds(q, h, e, id)
    BY DEF NoLeak
  <2>2. PICK h \in BuffersOf(q) : Holds(q, h, e, id)
    BY <2>1
  <2>3. q \in Queue
    BY DEF KInv
  <2> QED
    BY <2>2, <2>3, HeldByHolds
<1> QED
  BY <1>1, <1>2, <1>3, KInvAlways, EInvAlways, PTL DEF Spec

-----------------------------------------------------------------------------
(* Silence.                                                                *)

\* A buffer that holds no id of e leaves one for itself.
LEMMA PoolSuffices ==
  ASSUME EnoughIds, KInv, EInv, NoLeak, ~ destroyed, ready = Queue,
         \A r \in Queue : queue[r].num = Num[r],
         NEW q \in Queue, NEW h \in BuffersOf(q), NEW e \in Event, q \in Users(e),
         \A id \in EventId : ~ Holds(q, h, e, id)
  PROVE  NextEventID(e) \in EventId
<1> SUFFICES ASSUME NextEventID(e) \notin EventId PROVE FALSE
  OBVIOUS
<1> DEFINE S    == SlotsOf(e)
           own  == <<q, h - queue[q].start>>
           T    == S \ {own}
           Has(s, id) == Holds(s[1], queue[s[1]].start + s[2], e, id)
           f    == [id \in EventId |-> CHOOSE s \in T : Has(s, id)]
<1>1. EventId \subseteq eventOccupy[e]
  BY NextEventIDFree DEF KInv, BaseOK
<1>2. ASSUME NEW r \in Queue, r \in Users(e), NEW k \in BuffersOf(r)
      PROVE  /\ <<r, k - queue[r].start>> \in S
             /\ queue[r].start + (k - queue[r].start) = k
             /\ k \in Int /\ queue[r].start \in Nat
  <2>1. queue[r].start \in Nat /\ queue[r].num \in Nat /\ queue[r].num = Num[r]
    BY QueueNumbers DEF KInv, BaseOK
  <2>2. k \in Int /\ k - queue[r].start \in 0 .. (Num[r] - 1)
        /\ queue[r].start + (k - queue[r].start) = k
    BY <2>1 DEF BuffersOf
  <2> QED
    BY <1>2, <2>1, <2>2 DEF SlotsOf
<1>3. own \in S
  BY <1>2
<1>4. ASSUME NEW id \in EventId PROVE \E s \in T : Has(s, id)
  <2>1. PICK r \in Queue : \E k \in BuffersOf(r) : Holds(r, k, e, id)
    BY <1>1 DEF NoLeak
  <2>2. PICK k \in BuffersOf(r) : Holds(r, k, e, id)
    BY <2>1
  <2>3. r \in Users(e)
    BY <2>2 DEF Holds, Users
  <2> DEFINE s == <<r, k - queue[r].start>>
  <2>4. s \in S /\ s[1] = r /\ queue[s[1]].start + s[2] = k
    BY <1>2, <2>3
  <2>5. s # own
    <3>1. ASSUME s = own PROVE r = q /\ k = h
      <4>1. r = q /\ k - queue[q].start = h - queue[q].start
        BY <3>1
      <4>2. k \in Int /\ h \in Int /\ queue[q].start \in Nat
        BY <1>2, <2>3, <4>1
      <4> QED
        BY <4>1, <4>2
    <3> QED
      BY <2>2, <3>1
  <2>6. Has(s, id)
    BY <2>2, <2>4
  <2> QED
    BY <2>4, <2>5, <2>6
<1>5. \A id \in EventId : f[id] \in T /\ Has(f[id], id)
  <2> HIDE DEF T, Has
  <2> QED
    BY <1>4
<1>6. ASSUME NEW i \in EventId, NEW j \in EventId, f[i] = f[j] PROVE i = j
  <2>1. PICK s \in S : s = f[i] /\ Has(s, i) /\ Has(s, j)
    <3> HIDE DEF S, Has, own, f
    <3> QED
      BY <1>5, <1>6
  <2>2. PICK r \in Users(e) : s \in {r} \X (0 .. (Num[r] - 1))
    BY DEF SlotsOf
  <2> DEFINE k == queue[r].start + s[2]
  <2>3. r \in Queue /\ s[1] = r /\ k \in BuffersOf(r)
    <3>1. r \in Queue /\ queue[r].start \in Nat /\ queue[r].num = Num[r] /\ Num[r] \in Nat
      BY QueueNumbers, QueueKernelAssumption DEF Users, KInv, BaseOK
    <3>2. s[1] = r /\ s[2] \in 0 .. (Num[r] - 1)
      BY <2>2
    <3> QED
      BY <3>1, <3>2 DEF BuffersOf
  <2>4. Holds(r, k, e, i) /\ Holds(r, k, e, j)
    BY <2>1, <2>3
  <2>5. Settled(r, k)
    BY <2>3 DEF EInv
  <2> HIDE DEF k
  <2> QED
    BY <2>4, <2>5, NoIdTyped DEF Holds, Settled
<1>7. IsFiniteSet(T) /\ Cardinality(T) = Cardinality(S) - 1
      /\ Cardinality(S) <= EVENT_ID_NUM /\ Cardinality(S) \in Nat
  <2>1. IsFiniteSet(S) /\ Cardinality(S) <= EVENT_ID_NUM
    BY DEF EnoughIds
  <2> HIDE DEF S, own
  <2> QED
    BY <1>3, <2>1, FS_RemoveElement, FS_CardinalityType
<1>8. Cardinality(EventId) = EVENT_ID_NUM /\ EVENT_ID_NUM \in Nat
  <2>1. EVENT_ID_NUM \in Nat \ {0} /\ 0 \in Int /\ EVENT_ID_NUM - 1 \in Int
    BY SyncCoreAssumption
  <2>2. Cardinality(0 .. (EVENT_ID_NUM - 1)) =
          IF 0 > EVENT_ID_NUM - 1 THEN 0 ELSE (EVENT_ID_NUM - 1) - 0 + 1
    BY <2>1, FS_Interval, Zenon
  <2> QED
    BY <2>1, <2>2 DEF EventId
<1>9. f \in Injection(EventId, T)
  <2>1. f \in [EventId -> T] /\ DOMAIN f = EventId
    <3> HIDE DEF T, Has
    <3> QED
      BY <1>5
  <2> HIDE DEF f, T
  <2> QED
    BY <1>6, <2>1 DEF Injection, IsInjective
<1>10. Cardinality(EventId) <= Cardinality(T)
  <2> HIDE DEF f, T
  <2> QED
    BY <1>7, <1>9, FS_Injection
<1> QED
  <2> HIDE DEF S, T
  <2> QED
    BY <1>7, <1>8, <1>10

\* Untouched since the launch.
Clean(g) == gran[g].writer = NoPipe /\ gran[g].reader = NoPipe

\* The row v of some pipe, or of a snapshot, covers all touches of g.
Covers(v, g) ==
  /\ gran[g].writer # NoPipe => v[gran[g].writer] >= gran[g].clock
  /\ gran[g].reader # NoPipe => v[gran[g].reader] >= gran[g].readClock

\* Pipe p may read and write g.
Seen(p, g) ==
  /\ gran[g].writer \notin {NoPipe, p} => view[p][gran[g].writer] >= gran[g].clock
  /\ gran[g].reader \notin {NoPipe, p} => view[p][gran[g].reader] >= gran[g].readClock

\* No touch is later than its pipe's clock.
Dated(g) ==
  /\ gran[g].writer # NoPipe => gran[g].clock <= clock[gran[g].writer]
  /\ gran[g].reader # NoPipe => gran[g].readClock <= clock[gran[g].reader]

\* Who has a buffer has seen all of it; while nobody has it, the flag of its
\* event id covers it.
InTime(q, h) ==
  /\ buf[h].state = "OCCUPIED" => \A g \in BufferGranules(h) : Seen(Producer(q), g)
  /\ buf[h].state = "DEQUE" => \A g \in BufferGranules(h) : Seen(Consumer(q), g)
  /\ buf[h].state = "ENQUE" =>
       /\ buf[h].enQueEvtID \in EventId
       /\ \A g \in BufferGranules(h) :
            Covers(flags[EnQueEvt[q]][buf[h].enQueEvtID].snapshot, g)
  /\ buf[h].state = "FREE" =>
       \A g \in BufferGranules(h) :
         \/ Clean(g)
         \/ /\ buf[h].freeBufEvtID \in EventId
            /\ Covers(flags[FreeBufEvt[q]][buf[h].freeBufEvtID].snapshot, g)

SInv ==
  /\ checkMode = "Report" /\ syncErrors = 0
  /\ ~ destroyed =>
       /\ ready # Queue => \A g \in Granule : Clean(g)
       /\ \A q \in ready : queue[q].num = Num[q]
       /\ \A g \in Granule : Dated(g)
       /\ \A q \in ready : \A h \in BuffersOf(q) : InTime(q, h)

Quiet == KInv /\ EInv /\ NoLeak /\ SInv

LEMMA BufferWatched ==
  ASSUME MemoryWatched, KInv, NEW q \in ready, NEW h \in BuffersOf(q)
  PROVE  BufferGranules(h) \subseteq Granule
<1>1. h \in Handle /\ h < curBufSize /\ q \in Queue /\ curBufSize \in Nat
  BY BuffersInTable, QueueNumbers DEF KInv, BaseOK
<1>2. h \in 0 .. (curBufSize - 1) /\ buf[h] \in TBufType
  BY <1>1 DEF Handle, KInv, BaseOK, PipeTypeOK
<1>3. BuffersDisjoint
  BY LayoutDisjoint DEF KInv, BaseOK
<1> DEFINE m == buf[h].hard   a == buf[h].address   l == buf[h].dataLen
<1>4. m \in Mem /\ a \in Nat /\ l \in Nat /\ HardwareSize[m] \in Nat /\ a + l <= HardwareSize[m]
  BY <1>2, <1>3, TPipeAssumption DEF TBufType, BuffersDisjoint
<1>5. BlocksOf(a, l) \subseteq BlocksOf(0, HardwareSize[m])
  <2> HIDE DEF m, a, l
  <2> QED
    BY <1>4 DEF BlocksOf, ONE_BLK_SIZE
<1> QED
  BY <1>4, <1>5 DEF BufferGranules, MemoryWatched

\* The buffers of ready queues are disjoint, down to the granule.
LEMMA BuffersApart ==
  ASSUME KInv, NEW q \in ready, NEW h \in BuffersOf(q), NEW r \in ready, NEW k \in BuffersOf(r),
         NEW g \in BufferGranules(h), g \in BufferGranules(k)
  PROVE  h = k /\ q = r
<1>1. /\ h \in Handle /\ h < curBufSize /\ k \in Handle /\ k < curBufSize
      /\ q \in Queue /\ curBufSize \in Nat
  BY BuffersInTable, QueueNumbers DEF KInv, BaseOK
<1>2. h \in 0 .. (curBufSize - 1) /\ k \in 0 .. (curBufSize - 1)
  BY <1>1 DEF Handle
<1>3. BuffersDisjoint
  BY LayoutDisjoint DEF KInv, BaseOK
<1>4. h = k
  BY <1>2, <1>3 DEF BuffersDisjoint
<1> QED
  BY <1>4 DEF KInv, Placed

-----------------------------------------------------------------------------
(* Instructions.                                                           *)

LEMMA WorkQuiet ==
  ASSUME Proper, Quiet, ~ destroyed, NEW p \in Pipe, Work(p)
  PROVE  SInv'
<1> USE DEF Quiet
<1>1. PICK src0, src1, dst \in Operands(p) :
        /\ src0 \cup src1 \cup dst # {}
        /\ Instruction(p, src0, src1, dst, 0) /\ UNCHANGED <<pipeVars, kernelVars>>
  BY DEF Work
<1> DEFINE all == src0 \cup src1 \cup dst
           tick == clock[p] + 1
\* Every operand belongs to a buffer the pipe has.
<1>2. ASSUME NEW g \in all
      PROVE  \E q \in ready : \E h \in BuffersOf(q) :
               /\ g \in BufferGranules(h) /\ g \in Granule
               /\ \/ buf[h].state = "OCCUPIED" /\ Producer(q) = p
                  \/ buf[h].state = "DEQUE" /\ Consumer(q) = p
  <2>1. PICK h \in Held(p) : g \in BufferGranules(h)
    BY DEF Operands
  <2>2. PICK q \in ready : /\ h \in BuffersOf(q)
                           /\ \/ buf[h].state = "OCCUPIED" /\ Producer(q) = p
                              \/ buf[h].state = "DEQUE" /\ Consumer(q) = p
    BY DEF Held
  <2>3. g \in Granule
    BY <2>1, <2>2, BufferWatched DEF Proper
  <2> QED
    BY <2>1, <2>2, <2>3
<1>3. \A g \in all : g \in Granule /\ Seen(p, g)
  BY <1>2 DEF SInv, InTime
<1>4. ready = Queue
  BY <1>1, <1>2, Busy
<1>5. CoreTypeOK /\ tick \in Nat /\ clock[p] \in Nat
  BY DEF KInv, BaseOK, CoreTypeOK
<1> HIDE DEF tick
\* What reading does to a granule.
<1> DEFINE R(G, gs) == RecordRead(G, p, gs, tick)
           G1 == R(gran, src0)
           G2 == R(G1, src1)
           G3 == RecordWrite(G2, p, dst, tick)
<1>6. ASSUME NEW g \in Granule
      PROVE  /\ gran[g] \in GranuleInfo
             /\ G1[g] = IF g \in src0 THEN [gran[g] EXCEPT !.reader = p, !.readClock = tick] ELSE gran[g]
             /\ G2[g] = IF g \in src1 THEN [G1[g] EXCEPT !.reader = p, !.readClock = tick] ELSE G1[g]
             /\ G3[g] = IF g \in dst THEN [writer |-> p, clock |-> tick, reader |-> NoPipe, readClock |-> 0]
                        ELSE G2[g]
  BY <1>5 DEF RecordRead, RecordWrite, CoreTypeOK
<1>7. ASSUME NEW g \in Granule, NEW G, G \in {gran[g], G1[g], G2[g]}
      PROVE  /\ G.writer = gran[g].writer /\ G.clock = gran[g].clock
             /\ \/ G.reader = gran[g].reader /\ G.readClock = gran[g].readClock
                \/ g \in all /\ G.reader = p /\ G.readClock = tick
  <2>1. /\ gran[g] \in GranuleInfo
        /\ G1[g] = IF g \in src0 THEN [gran[g] EXCEPT !.reader = p, !.readClock = tick] ELSE gran[g]
        /\ G2[g] = IF g \in src1 THEN [G1[g] EXCEPT !.reader = p, !.readClock = tick] ELSE G1[g]
    BY <1>6
  <2> HIDE DEF G1, G2
  <2>2. /\ G1[g].writer = gran[g].writer /\ G1[g].clock = gran[g].clock
        /\ \/ G1[g].reader = gran[g].reader /\ G1[g].readClock = gran[g].readClock
           \/ g \in all /\ G1[g].reader = p /\ G1[g].readClock = tick
        /\ G1[g] = [writer |-> G1[g].writer, clock |-> G1[g].clock,
                    reader |-> G1[g].reader, readClock |-> G1[g].readClock]
    BY <2>1 DEF GranuleInfo
  <2>3. /\ G2[g].writer = gran[g].writer /\ G2[g].clock = gran[g].clock
        /\ \/ G2[g].reader = gran[g].reader /\ G2[g].readClock = gran[g].readClock
           \/ g \in all /\ G2[g].reader = p /\ G2[g].readClock = tick
    BY <2>1, <2>2
  <2> QED
    BY <1>7, <2>2, <2>3
<1> HIDE DEF G1, G2, G3
\* No operand is out of order.
<1>8. ASSUME NEW g \in all, NEW G, G \in {gran[g], G1[g], G2[g]}
      PROVE  ~ NotYetObserved(p, G.writer, G.clock) /\ ~ NotYetObserved(p, G.reader, G.readClock)
  <2>1. g \in Granule /\ Seen(p, g)
    BY <1>3
  <2>2. /\ G.writer = gran[g].writer /\ G.clock = gran[g].clock
        /\ \/ G.reader = gran[g].reader /\ G.readClock = gran[g].readClock
           \/ g \in all /\ G.reader = p /\ G.readClock = tick
    BY <1>7, <1>8, <2>1
  <2>3. gran[g] \in GranuleInfo /\ view \in [Pipe -> [Pipe -> Nat]]
    BY <1>6, <1>5, <2>1 DEF CoreTypeOK
  <2> QED
    BY <2>1, <2>2, <2>3 DEF Seen, NotYetObserved, GranuleInfo
<1>9. TouchErrors(p, src0, src1, dst)[1] = 0 /\ TouchErrors(p, src0, src1, dst)[2] = 0
      /\ TouchErrors(p, src0, src1, dst)[3] = 0
  <2>1. AfterSrc0(p, src0) = G1 /\ AfterSrc1(p, src0, src1) = G2
    BY DEF AfterSrc0, AfterSrc1, G1, G2, tick
  <2>2. /\ CheckAccess(gran, p, src0, FALSE) = 0
        /\ CheckAccess(G1, p, src1, FALSE) = 0
        /\ CheckAccess(G2, p, dst, TRUE) = 0
    BY <1>8 DEF CheckAccess, OneIf
  <2> QED
    BY <2>1, <2>2 DEF TouchErrors
<1>10. /\ gran' = G3 /\ syncErrors' = 0 /\ clock' = [clock EXCEPT ![p] = tick]
       /\ UNCHANGED <<view, flags, checkMode>>
  <2>1. checkMode = "Report" /\ syncErrors = 0
    BY DEF SInv
  <2> QED
    BY <1>1, <1>9, <2>1 DEF Instruction, ReportSyncErrors, AfterSrc0, AfterSrc1, G1, G2, G3, tick
\* A touched granule is the pipe's own, the others stay as they are.
<1>11. ASSUME NEW g \in Granule
       PROVE  \/ g \notin all /\ gran'[g] = gran[g]
              \/ g \in all /\ gran'[g].writer = p /\ gran'[g].clock = tick /\ gran'[g].reader = NoPipe
              \/ /\ g \in all /\ gran'[g].writer = gran[g].writer /\ gran'[g].clock = gran[g].clock
                 /\ \/ gran'[g].reader = gran[g].reader /\ gran'[g].readClock = gran[g].readClock
                    \/ gran'[g].reader = p /\ gran'[g].readClock = tick
  <2>1. CASE g \notin all
    BY <1>6, <1>10, <2>1
  <2>2. CASE g \in dst
    <3>1. gran'[g] = [writer |-> p, clock |-> tick, reader |-> NoPipe, readClock |-> 0]
      BY <1>6, <1>10, <2>2
    <3> DEFINE new == gran'[g]
    <3>2. new = [writer |-> p, clock |-> tick, reader |-> NoPipe, readClock |-> 0]
      BY <3>1
    <3> HIDE DEF new
    <3>3. new.writer = p /\ new.clock = tick /\ new.reader = NoPipe
      BY <3>2
    <3> USE DEF new
    <3> QED
      BY <2>2, <3>3
  <2>3. CASE g \in all /\ g \notin dst
    <3>1. gran'[g] = G2[g]
      BY <1>6, <1>10, <2>3
    <3> QED
      BY <1>7, <2>3, <3>1
  <2> QED
    BY <2>1, <2>2, <2>3
<1>12. \A g \in Granule : Dated(g)' /\ (g \in all => Seen(p, g)')
  <2> SUFFICES ASSUME NEW g \in Granule PROVE Dated(g)' /\ (g \in all => Seen(p, g)')
    OBVIOUS
  <2>1. Dated(g) /\ gran[g] \in GranuleInfo /\ clock \in [Pipe -> Nat] /\ NoPipe \notin Pipe
        /\ (g \in all => Seen(p, g))
    BY <1>3, <1>5, <1>6, SyncCoreAssumption, Busy, <1>4 DEF SInv, CoreTypeOK
  <2>2. /\ clock'[p] = tick /\ tick \in Nat /\ view' = view
        /\ \A x \in Pipe : clock'[x] \in Nat /\ clock'[x] >= clock[x]
    BY <1>5, <1>10, <2>1 DEF tick
  <2> DEFINE old == gran[g]
             new == gran'[g]
  <2>3. \/ g \notin all /\ new = old
        \/ g \in all /\ new.writer = p /\ new.clock = tick /\ new.reader = NoPipe
        \/ /\ g \in all /\ new.writer = old.writer /\ new.clock = old.clock
           /\ \/ new.reader = old.reader /\ new.readClock = old.readClock
              \/ new.reader = p /\ new.readClock = tick
    BY <1>11
  <2>4. /\ old.writer # NoPipe => old.writer \in Pipe /\ old.clock <= clock[old.writer] /\ old.clock \in Nat
        /\ old.reader # NoPipe => old.reader \in Pipe /\ old.readClock <= clock[old.reader] /\ old.readClock \in Nat
    BY <2>1 DEF Dated, GranuleInfo
  <2>5. clock \in [Pipe -> Nat]
    BY <2>1
  <2> HIDE DEF old, new, all
  <2>6. /\ new.writer # NoPipe => new.clock <= clock'[new.writer]
        /\ new.reader # NoPipe => new.readClock <= clock'[new.reader]
    <3>1. new.writer # NoPipe => new.clock <= clock'[new.writer]
      BY <2>2, <2>3, <2>4, <2>5
    <3>2. new.reader # NoPipe => new.readClock <= clock'[new.reader]
      BY <2>2, <2>3, <2>4, <2>5
    <3> QED
      BY <3>1, <3>2
  <2>7. g \in all => /\ new.writer \notin {NoPipe, p} => view'[p][new.writer] >= new.clock
                     /\ new.reader \notin {NoPipe, p} => view'[p][new.reader] >= new.readClock
    BY <2>1, <2>2, <2>3 DEF Seen, old
  <2>8. Dated(g)'
    BY <2>6 DEF Dated, new
  <2>9. g \in all => Seen(p, g)'
    BY <2>7 DEF Seen, new
  <2> QED
    BY <2>8, <2>9
<1>13. \A r \in Queue : BuffersOf(r)' = BuffersOf(r)
  BY <1>1 DEF pipeVars, BuffersOf
<1>14. ASSUME NEW r \in ready, NEW k \in BuffersOf(r)
       PROVE  InTime(r, k)'
  <2>1. UNCHANGED <<buf, view, flags>> /\ BufferGranules(k)' = BufferGranules(k)
    BY <1>1, <1>10 DEF pipeVars, BufferGranules
  <2>2. ASSUME NEW g \in BufferGranules(k), g \in all
        PROVE  \/ buf[k].state = "OCCUPIED" /\ Producer(r) = p
               \/ buf[k].state = "DEQUE" /\ Consumer(r) = p
    BY <1>2, <2>2, BuffersApart
  <2>3. \A g \in BufferGranules(k) : g \in Granule
    BY BufferWatched DEF Proper
  <2>4. InTime(r, k)
    BY DEF SInv
  <2>5. \A g \in BufferGranules(k) : g \notin all => gran'[g] = gran[g]
    BY <1>11, <2>3
  <2>6. \A g \in BufferGranules(k) : g \in all => Seen(p, g)'
    BY <1>12, <2>3
  <2>7. \A g \in BufferGranules(k) : \A x : g \notin all /\ Seen(x, g) => Seen(x, g)'
    BY <2>1, <2>5 DEF Seen
  <2>8. \A g \in BufferGranules(k) : \A v : g \notin all =>
          (Covers(v, g) => Covers(v, g)') /\ (Clean(g) => Clean(g)')
    BY <2>5 DEF Covers, Clean
  <2>9. buf[k].state = "OCCUPIED" => \A g \in BufferGranules(k) : Seen(Producer(r), g)'
    BY <2>2, <2>4, <2>6, <2>7 DEF InTime
  <2>10. buf[k].state = "DEQUE" => \A g \in BufferGranules(k) : Seen(Consumer(r), g)'
    BY <2>2, <2>4, <2>6, <2>7 DEF InTime
  <2>11. buf[k].state = "ENQUE" =>
           /\ buf[k].enQueEvtID \in EventId
           /\ \A g \in BufferGranules(k) : Covers(flags[EnQueEvt[r]][buf[k].enQueEvtID].snapshot, g)'
    BY <2>1, <2>2, <2>4, <2>8 DEF InTime
  <2>12. buf[k].state = "FREE" =>
           \A g \in BufferGranules(k) :
             \/ Clean(g)'
             \/ /\ buf[k].freeBufEvtID \in EventId
                /\ Covers(flags[FreeBufEvt[r]][buf[k].freeBufEvtID].snapshot, g)'
    BY <2>1, <2>2, <2>4, <2>8 DEF InTime
  <2> QED
    BY <2>1, <2>9, <2>10, <2>11, <2>12 DEF InTime, Producer, Consumer
<1>15. UNCHANGED <<ready, queue, destroyed>>
  BY <1>1 DEF pipeVars, kernelVars
<1> QED
  BY <1>4, <1>10, <1>12, <1>13, <1>14, <1>15 DEF SInv, KInv

-----------------------------------------------------------------------------
(* Flags.                                                                  *)

LEMMA SnapshotCovers ==
  ASSUME CoreTypeOK, NEW p \in Pipe, NEW g \in Granule, Seen(p, g), Dated(g)
  PROVE  Covers(Snapshot(p), g)
<1>1. /\ gran[g].writer \in Pipe \cup {NoPipe} /\ gran[g].reader \in Pipe \cup {NoPipe}
      /\ view[p] \in [Pipe -> Nat]
  BY DEF CoreTypeOK, GranuleInfo
<1>2. \A x \in Pipe : Snapshot(p)[x] = IF x = p THEN clock[p] ELSE view[p][x]
  BY <1>1 DEF Snapshot
<1>3. gran[g].writer # NoPipe => Snapshot(p)[gran[g].writer] >= gran[g].clock
  BY <1>1, <1>2 DEF Seen, Dated
<1>4. gran[g].reader # NoPipe => Snapshot(p)[gran[g].reader] >= gran[g].readClock
  BY <1>1, <1>2 DEF Seen, Dated
<1> QED
  BY <1>3, <1>4 DEF Covers

\* A wait makes no pipe forget, and its own pipe know what the flag carried.
LEMMA WaitLearns ==
  ASSUME CoreTypeOK, NEW e \in Event, NEW id, view' = ViewAfterWait(e, id), NEW x \in Pipe
  PROVE  /\ \A p \in Pipe : view'[p][x] \in Nat /\ view'[p][x] >= view[p][x]
         /\ Raised(e, id) => view'[EventDstPipe[e]][x] >= flags[e][id].snapshot[x]
<1> DEFINE d == EventDstPipe[e]
<1>1. d \in Pipe /\ view \in [Pipe -> [Pipe -> Nat]]
  BY SyncCoreAssumption DEF CoreTypeOK
<1>2. CASE ~ Raised(e, id)
  BY <1>1, <1>2 DEF ViewAfterWait
<1>3. CASE Raised(e, id)
  <2>1. flags[e][id].snapshot \in [Pipe -> Nat]
    BY <1>3 DEF Raised, CoreTypeOK, EventSlot
  <2>2. \A p \in Pipe : view'[p][x] = IF p = d THEN Larger(flags[e][id].snapshot[x], view[d][x])
                                      ELSE view[p][x]
    BY <1>1, <1>3 DEF ViewAfterWait
  <2>3. view[d][x] \in Nat /\ flags[e][id].snapshot[x] \in Nat
    BY <1>1, <2>1
  <2> QED
    BY <1>1, <2>2, <2>3 DEF Larger
<1> QED
  BY <1>2, <1>3

\* Only buffer h and flag <<e, id>>, which no other buffer holds, change.
LEMMA HandOverSilent ==
  ASSUME Proper, Quiet, ~ destroyed, ready = Queue, NEW q \in ready, NEW h \in BuffersOf(q),
         NEW s, NEW t, Moves(h, s, t), InPlace,
         UNCHANGED <<ready, destroyed, gran, clock, checkMode>>, syncErrors' = 0,
         \A r \in Queue : queue'[r].start = queue[r].start /\ queue'[r].num = queue[r].num,
         \A p, x \in Pipe : view'[p][x] \in Nat /\ view'[p][x] >= view[p][x],
         NEW e \in Event, NEW id,
         \A f \in Event, i \in EventId : ~ (f = e /\ i = id) => flags'[f][i].snapshot = flags[f][i].snapshot,
         \A r \in ready : \A k \in BuffersOf(r) : k # h \/ r # q => ~ Holds(r, k, e, id),
         InTime(q, h)'
  PROVE  SInv'
<1> USE DEF Quiet
<1>1. \A r \in Queue : BuffersOf(r)' = BuffersOf(r)
  BY DEF BuffersOf
<1>2. ASSUME NEW r \in ready, NEW k \in BuffersOf(r), k # h \/ r # q
      PROVE  InTime(r, k)'
  <2>1. k \in Handle /\ buf'[k] = buf[k]
    BY <1>2, OthersStay
  <2>2. BufferGranules(k)' = BufferGranules(k)
    BY <2>1 DEF BufferGranules
  <2>3. InTime(r, k)
    BY DEF SInv
  <2>4. ASSUME NEW p \in Pipe, NEW g \in BufferGranules(k), Seen(p, g)
        PROVE  Seen(p, g)'
    <3>1. gran[g] \in GranuleInfo /\ view \in [Pipe -> [Pipe -> Nat]]
      BY BufferWatched DEF Proper, KInv, BaseOK, CoreTypeOK
    <3> DEFINE G == gran[g]
    <3>2. /\ G.writer \in Pipe \cup {NoPipe} /\ G.reader \in Pipe \cup {NoPipe}
          /\ G.clock \in Nat /\ G.readClock \in Nat
      BY <3>1 DEF GranuleInfo
    <3>3. /\ G.writer \notin {NoPipe, p} => view[p][G.writer] >= G.clock
          /\ G.reader \notin {NoPipe, p} => view[p][G.reader] >= G.readClock
      BY <2>4 DEF Seen
    <3>4. \A x \in Pipe : view[p][x] \in Nat
      BY <3>1
    <3> HIDE DEF G
    <3>5. G.writer \notin {NoPipe, p} => view'[p][G.writer] >= G.clock
      BY <3>2, <3>3, <3>4
    <3>6. G.reader \notin {NoPipe, p} => view'[p][G.reader] >= G.readClock
      BY <3>2, <3>3, <3>4
    <3> QED
      BY <3>5, <3>6 DEF G, Seen
  <2>5. Producer(r) \in Pipe /\ Consumer(r) \in Pipe /\ EnQueEvt[r] \in Event /\ FreeBufEvt[r] \in Event
    BY SyncCoreAssumption, TPipeAssumption DEF Producer, Consumer
  <2>6. buf[k].state = "OCCUPIED" => \A g \in BufferGranules(k) : Seen(Producer(r), g)'
    BY <2>3, <2>4, <2>5 DEF InTime
  <2>7. buf[k].state = "DEQUE" => \A g \in BufferGranules(k) : Seen(Consumer(r), g)'
    BY <2>3, <2>4, <2>5 DEF InTime
  <2>8. ASSUME buf[k].enQueEvtID \in EventId
        PROVE  flags'[EnQueEvt[r]][buf[k].enQueEvtID].snapshot
               = flags[EnQueEvt[r]][buf[k].enQueEvtID].snapshot
    BY <1>2, <2>5, <2>8 DEF Holds
  <2>9. ASSUME buf[k].freeBufEvtID \in EventId
        PROVE  flags'[FreeBufEvt[r]][buf[k].freeBufEvtID].snapshot
               = flags[FreeBufEvt[r]][buf[k].freeBufEvtID].snapshot
    BY <1>2, <2>5, <2>9 DEF Holds
  <2>10. buf[k].state = "ENQUE" =>
           /\ buf[k].enQueEvtID \in EventId
           /\ \A g \in BufferGranules(k) :
                Covers(flags'[EnQueEvt[r]][buf[k].enQueEvtID].snapshot, g)
    BY <2>3, <2>8 DEF InTime
  <2>11. buf[k].state = "FREE" =>
           \A g \in BufferGranules(k) :
             \/ Clean(g)
             \/ /\ buf[k].freeBufEvtID \in EventId
                /\ Covers(flags'[FreeBufEvt[r]][buf[k].freeBufEvtID].snapshot, g)
    BY <2>3, <2>9 DEF InTime
  <2> QED
    BY <2>1, <2>2, <2>6, <2>7, <2>10, <2>11 DEF InTime, Covers, Clean, Producer, Consumer
<1>3. \A r \in ready : \A k \in BuffersOf(r) : InTime(r, k)'
  BY <1>2
<1>4. \A g \in Granule : Dated(g)'
  BY DEF SInv, Dated
<1>5. \A r \in ready : queue'[r].num = Num[r]
  BY DEF SInv
<1> QED
  BY <1>1, <1>3, <1>4, <1>5 DEF SInv

\* Who has waited for a flag has seen what the flag covers.
LEMMA KnownFromSnapshot ==
  ASSUME CoreTypeOK, NEW e \in Event, NEW id \in EventId, NEW p \in Pipe, NEW g \in Granule,
         Clean(g) \/ Covers(flags[e][id].snapshot, g), UNCHANGED gran,
         \A x \in Pipe : view'[p][x] \in Nat /\ view'[p][x] >= flags[e][id].snapshot[x]
  PROVE  Seen(p, g)'
<1>1. gran[g] \in GranuleInfo /\ flags[e][id].snapshot \in [Pipe -> Nat]
  BY DEF CoreTypeOK, EventSlot
<1> DEFINE G == gran[g]   v == flags[e][id].snapshot
<1>2. /\ G.writer \in Pipe \cup {NoPipe} /\ G.reader \in Pipe \cup {NoPipe}
      /\ G.clock \in Nat /\ G.readClock \in Nat
      /\ \A x \in Pipe : v[x] \in Nat
  BY <1>1 DEF GranuleInfo
<1>3. /\ G.writer # NoPipe => v[G.writer] >= G.clock
      /\ G.reader # NoPipe => v[G.reader] >= G.readClock
  BY DEF Clean, Covers
<1>4. \A x \in Pipe : view'[p][x] \in Nat /\ view'[p][x] >= v[x]
  OBVIOUS
<1> HIDE DEF G, v
<1>5. G.writer \notin {NoPipe, p} => view'[p][G.writer] >= G.clock
  BY <1>2, <1>3, <1>4
<1>6. G.reader \notin {NoPipe, p} => view'[p][G.reader] >= G.readClock
  BY <1>2, <1>3, <1>4
<1> QED
  BY <1>5, <1>6 DEF G, Seen

\* What the four calls have in common.
LEMMA HandOverFrame ==
  ASSUME Quiet, ~ destroyed, NEW q \in Queue, NEW h \in Handle,
         Obtain(q) \/ Consume(q) \/ Publish(q, h) \/ Recycle(q, h)
  PROVE  /\ InPlace /\ UNCHANGED <<ready, destroyed, gran, clock, checkMode>>
         /\ \A r \in Queue : queue'[r].start = queue[r].start /\ queue'[r].num = queue[r].num
         /\ \A k \in Handle : BufferGranules(k)' = BufferGranules(k)
         /\ \A n \in Nat : ReportSyncErrors(n) => syncErrors' = n
<1>1. AllocTensor(q) \/ EnQue(q, h) \/ DeQue(q) \/ FreeTensor(q, h)
  BY DEF Obtain, Consume, Publish, Recycle
<1>2. InPlace
  BY <1>1, BaseQueueCall DEF Quiet, KInv
<1>3. \A r \in Queue : queue'[r].start = queue[r].start /\ queue'[r].num = queue[r].num
  BY <1>1, RingCallKeepsPlace DEF Quiet, KInv, BaseOK
<1>4. UNCHANGED <<ready, destroyed, gran, clock, checkMode>>
  BY DEF Obtain, Consume, Publish, Recycle, AllocTensor, EnQue, DeQue, FreeTensor, kernelVars
<1>5. \A n \in Nat : ReportSyncErrors(n) => syncErrors' = n
  BY DEF ReportSyncErrors, Quiet, SInv
<1> QED
  BY <1>2, <1>3, <1>4, <1>5 DEF InPlace, BufferGranules

LEMMA ObtainQuiet ==
  ASSUME Proper, Quiet, ~ destroyed, NEW q \in Queue, Obtain(q)
  PROVE  SInv'
<1> USE DEF Quiet
<1>1. PICK h \in Handle : h = IdleSlot(q)
  BY ObtainMoves DEF Moves
<1>2. q \in ready /\ h \in BuffersOf(q) /\ Moves(h, "FREE", "OCCUPIED") /\ ready = Queue
  BY <1>1, ObtainMoves DEF Obtain
<1>3. PICK e \in Event : e = FreeBufEvt[q]
  BY TPipeAssumption
<1>4. PICK id : id = buf[h].freeBufEvtID
  OBVIOUS
<1>5. CoreTypeOK /\ PipeTypeOK /\ buf[h] \in TBufType
  BY <1>2 DEF KInv, BaseOK, PipeTypeOK
<1>6. InTime(q, h) /\ buf[h].state = "FREE" /\ buf'[h].state = "OCCUPIED"
  BY <1>2 DEF SInv, Moves
\* The kernel waits for the flag of a buffer used before.
<1>7. CASE id = INVALID_TEVENTID
  <2>1. UNCHANGED <<view, flags, syncErrors>>
    BY <1>1, <1>4, <1>7 DEF Obtain, AllocTensor
  <2>2. \A g \in BufferGranules(h) : Clean(g)
    BY <1>4, <1>6, <1>7, NoIdTyped DEF InTime
  <2>3. InTime(q, h)'
    <3>1. \A g \in BufferGranules(h) : gran[g].writer = NoPipe /\ gran[g].reader = NoPipe
      BY <2>2 DEF Clean
    <3>2. BufferGranules(h)' = BufferGranules(h) /\ gran' = gran
      BY HandOverFrame
    <3> QED
      BY <1>6, <3>1, <3>2 DEF InTime, Seen
  <2>4. \A p, x \in Pipe : view'[p][x] \in Nat /\ view'[p][x] >= view[p][x]
    BY <1>5, <2>1 DEF CoreTypeOK
  <2>5. \A r \in ready : \A k \in BuffersOf(r) : ~ Holds(r, k, e, id)
    BY <1>7, NoIdTyped DEF Holds
  <2>6. syncErrors' = 0
    BY <2>1 DEF SInv
  <2> QED
    BY <1>2, <2>1, <2>3, <2>4, <2>5, <2>6, HandOverFrame, HandOverSilent
<1>8. CASE id # INVALID_TEVENTID
  <2>1. /\ view' = ViewAfterWait(e, id) /\ flags' = FlagsAfterWait(e, id)
        /\ ReportSyncErrors(WaitFlagErrors(e, id)) /\ eventOccupy' = OccupyAfterRelease(e, id)
    BY <1>1, <1>3, <1>4, <1>8 DEF Obtain, AllocTensor
  <2>2. id \in EventId /\ Holds(q, h, e, id)
    BY <1>3, <1>4, <1>5, <1>8 DEF TBufType, TEventID, Holds
  <2>3. Raised(e, id)
    BY <1>2, <2>2 DEF EInv, Claimed, Raised
  <2>4. syncErrors' = 0
    <3>1. WaitFlagErrors(e, id) = 0
      BY <2>3 DEF WaitFlagErrors, OneIf
    <3> QED
      BY <2>1, <3>1, HandOverFrame
  <2>5. \A p, x \in Pipe : view'[p][x] \in Nat /\ view'[p][x] >= view[p][x]
    BY <1>5, <2>1, WaitLearns
  <2>6. \A f \in Event, i \in EventId :
          ~ (f = e /\ i = id) => flags'[f][i].snapshot = flags[f][i].snapshot
    BY <1>5, <2>1, PoolAfterWait
  <2>7. \A r \in ready : \A k \in BuffersOf(r) : k # h \/ r # q => ~ Holds(r, k, e, id)
    BY <1>2, <2>2 DEF EInv, Exclusive
  <2>8. InTime(q, h)'
    <3>1. EventDstPipe[e] = Producer(q) /\ Producer(q) \in Pipe
      BY <1>3, SyncCoreAssumption DEF Proper, BackEventsReturn
    <3>2. ASSUME NEW g \in BufferGranules(h)
          PROVE  Seen(Producer(q), g)'
      <4>1. g \in Granule
        BY <1>2, BufferWatched DEF Proper
      <4>2. Clean(g) \/ Covers(flags[e][id].snapshot, g)
        BY <1>3, <1>4, <1>6 DEF InTime
      <4>3. \A x \in Pipe : /\ view'[Producer(q)][x] \in Nat
                            /\ view'[Producer(q)][x] >= flags[e][id].snapshot[x]
        BY <1>5, <2>1, <2>3, <3>1, WaitLearns
      <4>4. gran' = gran
        BY HandOverFrame
      <4> QED
        BY <1>5, <2>2, <3>1, <4>1, <4>2, <4>3, <4>4, KnownFromSnapshot
    <3>3. BufferGranules(h)' = BufferGranules(h)
      BY HandOverFrame
    <3> QED
      BY <1>6, <3>2, <3>3 DEF InTime, Producer
  <2> QED
    BY <1>2, <2>4, <2>5, <2>6, <2>7, <2>8, HandOverFrame, HandOverSilent
<1> QED
  BY <1>7, <1>8

LEMMA ConsumeQuiet ==
  ASSUME Proper, Quiet, ~ destroyed, NEW q \in Queue, Consume(q)
  PROVE  SInv'
<1> USE DEF Quiet
<1>1. PICK h \in Handle : h = OldestSlot(q)
  BY ConsumeMoves DEF Moves
<1>2. q \in ready /\ h \in BuffersOf(q) /\ Moves(h, "ENQUE", "DEQUE")
  BY <1>1, ConsumeMoves
<1>3. PICK e \in Event : e = EnQueEvt[q]
  BY TPipeAssumption
<1>4. PICK id : id = buf[h].enQueEvtID
  OBVIOUS
<1>5. CoreTypeOK /\ PipeTypeOK
  BY DEF KInv, BaseOK
<1>6. InTime(q, h) /\ buf[h].state = "ENQUE" /\ buf'[h].state = "DEQUE" /\ ready = Queue
  BY <1>2, Busy DEF SInv, Moves
<1>7. /\ view' = ViewAfterWait(e, id) /\ flags' = FlagsAfterWait(e, id)
      /\ ReportSyncErrors(WaitFlagErrors(e, id)) /\ eventOccupy' = OccupyAfterRelease(e, id)
  BY <1>1, <1>3, <1>4 DEF Consume, DeQue
<1>8. id \in EventId /\ Holds(q, h, e, id)
  BY <1>3, <1>4, <1>6 DEF InTime, Holds
<1>9. Raised(e, id)
  BY <1>2, <1>6, <1>8 DEF EInv, Claimed, Raised
<1>10. syncErrors' = 0
  <2>1. WaitFlagErrors(e, id) = 0
    BY <1>9 DEF WaitFlagErrors, OneIf
  <2> QED
    BY <1>7, <2>1, HandOverFrame
<1>11. \A p, x \in Pipe : view'[p][x] \in Nat /\ view'[p][x] >= view[p][x]
  BY <1>5, <1>7, WaitLearns
<1>12. \A f \in Event, i \in EventId :
         ~ (f = e /\ i = id) => flags'[f][i].snapshot = flags[f][i].snapshot
  BY <1>5, <1>7, PoolAfterWait
<1>13. \A r \in ready : \A k \in BuffersOf(r) : k # h \/ r # q => ~ Holds(r, k, e, id)
  BY <1>2, <1>6, <1>8 DEF EInv, Exclusive
<1>14. InTime(q, h)'
  <2>1. EventDstPipe[e] = Consumer(q) /\ Consumer(q) \in Pipe
    BY <1>3, SyncCoreAssumption DEF Consumer
  <2>2. ASSUME NEW g \in BufferGranules(h)
        PROVE  Seen(Consumer(q), g)'
    <3>1. g \in Granule
      BY <1>2, BufferWatched DEF Proper
    <3>2. Covers(flags[e][id].snapshot, g)
      BY <1>3, <1>4, <1>6 DEF InTime
    <3>3. \A x \in Pipe : /\ view'[Consumer(q)][x] \in Nat
                          /\ view'[Consumer(q)][x] >= flags[e][id].snapshot[x]
      BY <1>5, <1>7, <1>9, <2>1, WaitLearns
    <3>4. gran' = gran
      BY HandOverFrame
    <3> QED
      BY <1>5, <1>8, <2>1, <3>1, <3>2, <3>3, <3>4, KnownFromSnapshot
  <2>3. BufferGranules(h)' = BufferGranules(h)
    BY HandOverFrame
  <2> QED
    BY <1>6, <2>2, <2>3 DEF InTime, Consumer
<1> QED
  BY <1>2, <1>6, <1>10, <1>11, <1>12, <1>13, <1>14, HandOverFrame, HandOverSilent

\* A hand-over that raises a flag: the pipe of the flag has seen the buffer.
LEMMA RaiseCovers ==
  ASSUME Proper, Quiet, ~ destroyed, ready = Queue, NEW q \in ready, NEW h \in BuffersOf(q),
         NEW e \in Event, q \in Users(e), NEW id, id = NextEventID(e),
         \A i \in EventId : ~ Holds(q, h, e, i),
         \A g \in BufferGranules(h) : Seen(EventSrcPipe[e], g),
         flags' = FlagsAfterSet(e, id), eventOccupy' = OccupyAfterAlloc(e)
  PROVE  /\ id \in EventId
         /\ AllocEventIDErrors(e) + SetFlagErrors(e, id) = 0
         /\ \A f \in Event, i \in EventId :
              ~ (f = e /\ i = id) => flags'[f][i].snapshot = flags[f][i].snapshot
         /\ \A r \in ready : \A k \in BuffersOf(r) : ~ Holds(r, k, e, id)
         /\ \A g \in BufferGranules(h) : Covers(flags'[e][id].snapshot, g)
<1> USE DEF Quiet
<1>1. CoreTypeOK /\ PipeTypeOK /\ EventSrcPipe[e] \in Pipe
  BY SyncCoreAssumption DEF KInv, BaseOK
<1>2. id \in EventId
  BY PoolSuffices DEF Proper, SInv
<1>3. id \notin eventOccupy[e] /\ id \in IdleEventIDs(e)
  BY <1>1, <1>2, NextEventIDFree DEF IdleEventIDs
<1>4. \A r \in ready : \A k \in BuffersOf(r) : ~ Holds(r, k, e, id)
  BY <1>2, <1>3 DEF EInv, Claimed
<1>5. ~ flags[e][id].pending
  BY <1>2, <1>4 DEF NoLeak
<1>6. AllocEventIDErrors(e) + SetFlagErrors(e, id) = 0
  BY <1>2, <1>3, <1>5 DEF AllocEventIDErrors, SetFlagErrors, OneIf
<1>7. \A f \in Event, i \in EventId :
        ~ (f = e /\ i = id) => flags'[f][i].snapshot = flags[f][i].snapshot
  BY <1>1, PoolAfterSet
<1>8. flags'[e][id].snapshot = Snapshot(EventSrcPipe[e])
  <2>1. flags'[e][id] = [pending |-> TRUE, snapshot |-> Snapshot(EventSrcPipe[e])]
    BY <1>1, <1>2 DEF FlagsAfterSet, CoreTypeOK
  <2> QED
    BY <2>1
<1>9. \A g \in BufferGranules(h) : Covers(Snapshot(EventSrcPipe[e]), g)
  <2> TAKE g \in BufferGranules(h)
  <2>1. g \in Granule /\ Dated(g) /\ Seen(EventSrcPipe[e], g)
    BY BufferWatched DEF Proper, SInv
  <2> QED
    BY <1>1, <2>1, SnapshotCovers
<1> QED
  BY <1>2, <1>4, <1>6, <1>7, <1>8, <1>9

LEMMA PublishQuiet ==
  ASSUME Proper, Quiet, ~ destroyed, NEW q \in Queue, NEW h \in Handle, Publish(q, h)
  PROVE  SInv'
<1> USE DEF Quiet
<1>1. PICK e \in Event : e = EnQueEvt[q]
  BY TPipeAssumption
<1>2. PICK id : id = NextEventID(e)
  OBVIOUS
<1>3. /\ q \in ready /\ h \in BuffersOf(q) /\ Moves(h, "OCCUPIED", "ENQUE")
      /\ buf'[h].enQueEvtID = id
  BY <1>1, <1>2, PublishMoves
<1>4. ready = Queue /\ InTime(q, h) /\ buf[h].state = "OCCUPIED" /\ buf'[h].state = "ENQUE"
  BY <1>3, Busy DEF SInv, Moves
<1>5. /\ flags' = FlagsAfterSet(e, id) /\ eventOccupy' = OccupyAfterAlloc(e)
      /\ ReportSyncErrors(AllocEventIDErrors(e) + SetFlagErrors(e, id)) /\ view' = view
  BY <1>1, <1>2 DEF Publish, EnQue
<1>6. \A i \in EventId : ~ Holds(q, h, e, i)
  BY <1>3, <1>4, NoIdTyped DEF EInv, Settled, Holds
<1>7. q \in Users(e)
  BY <1>1 DEF Users
<1>8. \A g \in BufferGranules(h) : Seen(EventSrcPipe[e], g)
  BY <1>1, <1>4 DEF InTime, Producer
<1>9. /\ id \in EventId
      /\ AllocEventIDErrors(e) + SetFlagErrors(e, id) = 0
      /\ \A f \in Event, i \in EventId :
           ~ (f = e /\ i = id) => flags'[f][i].snapshot = flags[f][i].snapshot
      /\ \A r \in ready : \A k \in BuffersOf(r) : ~ Holds(r, k, e, id)
      /\ \A g \in BufferGranules(h) : Covers(flags'[e][id].snapshot, g)
  BY <1>2, <1>3, <1>4, <1>5, <1>6, <1>7, <1>8, RaiseCovers
<1>10. syncErrors' = 0
  BY <1>5, <1>9, HandOverFrame
<1>11. \A p, x \in Pipe : view'[p][x] \in Nat /\ view'[p][x] >= view[p][x]
  BY <1>5 DEF KInv, BaseOK, CoreTypeOK
<1>12. InTime(q, h)'
  <2>1. BufferGranules(h)' = BufferGranules(h) /\ gran' = gran
    BY HandOverFrame
  <2> QED
    BY <1>1, <1>3, <1>4, <1>9, <2>1 DEF InTime, Covers
<1> QED
  BY <1>3, <1>4, <1>9, <1>10, <1>11, <1>12, HandOverFrame, HandOverSilent

LEMMA RecycleQuiet ==
  ASSUME Proper, Quiet, ~ destroyed, NEW q \in Queue, NEW h \in Handle, Recycle(q, h)
  PROVE  SInv'
<1> USE DEF Quiet
<1>1. PICK e \in Event : e = FreeBufEvt[q]
  BY TPipeAssumption
<1>2. PICK id : id = NextEventID(e)
  OBVIOUS
<1>3. /\ q \in ready /\ h \in BuffersOf(q) /\ Moves(h, "DEQUE", "FREE")
      /\ buf'[h].freeBufEvtID = id
  BY <1>1, <1>2, RecycleMoves
<1>4. ready = Queue /\ InTime(q, h) /\ buf[h].state = "DEQUE" /\ buf'[h].state = "FREE"
  BY <1>3, Busy DEF SInv, Moves
<1>5. /\ flags' = FlagsAfterSet(e, id) /\ eventOccupy' = OccupyAfterAlloc(e)
      /\ ReportSyncErrors(AllocEventIDErrors(e) + SetFlagErrors(e, id)) /\ view' = view
  BY <1>1, <1>2 DEF Recycle, FreeTensor
<1>6. \A i \in EventId : ~ Holds(q, h, e, i)
  BY <1>3, <1>4, NoIdTyped DEF EInv, Settled, Holds
<1>7. q \in Users(e)
  BY <1>1 DEF Users
<1>8. \A g \in BufferGranules(h) : Seen(EventSrcPipe[e], g)
  BY <1>1, <1>4 DEF InTime, Proper, BackEventsReturn
<1>9. /\ id \in EventId
      /\ AllocEventIDErrors(e) + SetFlagErrors(e, id) = 0
      /\ \A f \in Event, i \in EventId :
           ~ (f = e /\ i = id) => flags'[f][i].snapshot = flags[f][i].snapshot
      /\ \A r \in ready : \A k \in BuffersOf(r) : ~ Holds(r, k, e, id)
      /\ \A g \in BufferGranules(h) : Covers(flags'[e][id].snapshot, g)
  BY <1>2, <1>3, <1>4, <1>5, <1>6, <1>7, <1>8, RaiseCovers
<1>10. syncErrors' = 0
  BY <1>5, <1>9, HandOverFrame
<1>11. \A p, x \in Pipe : view'[p][x] \in Nat /\ view'[p][x] >= view[p][x]
  BY <1>5 DEF KInv, BaseOK, CoreTypeOK
<1>12. InTime(q, h)'
  <2>1. BufferGranules(h)' = BufferGranules(h) /\ gran' = gran
    BY HandOverFrame
  <2> QED
    BY <1>1, <1>3, <1>4, <1>9, <2>1 DEF InTime, Covers
<1> QED
  BY <1>3, <1>4, <1>9, <1>10, <1>11, <1>12, HandOverFrame, HandOverSilent

Watched == \A q \in ready : \A h \in BuffersOf(q) : BufferGranules(h) \subseteq Granule

\* Until the last queue is ready no buffer is touched.
LEMMA PrepareQuiet ==
  ASSUME Quiet, Watched', ~ destroyed, NEW q \in Queue, Prepare(q)
  PROVE  SInv'
<1> USE DEF Quiet
<1>1. /\ q \notin ready /\ ready' = ready \cup {q}
      /\ queue'[q].num = Num[q]
      /\ \A r \in Queue \ {q} : SameRing(r)
      /\ \A k \in BuffersOf(q)' : buf'[k].state = "FREE"
      /\ UNCHANGED <<coreVars, eventOccupy, destroyed>>
  BY PrepareMoves
<1>2. UNCHANGED <<clock, view, flags, gran, checkMode, syncErrors, destroyed>>
  BY <1>1 DEF coreVars
<1>3. ready \subseteq Queue /\ \A g \in Granule : Clean(g) /\ Dated(g)
  BY <1>1 DEF SInv, KInv
<1>4. \A r \in ready : BuffersOf(r)' = BuffersOf(r) /\ queue'[r].num = queue[r].num
  BY <1>1, <1>3 DEF SameRing, BuffersOf
<1>5. ASSUME NEW r \in ready, NEW k \in BuffersOf(r)
      PROVE  buf'[k].state = "FREE"
  <2>1. k \in Handle /\ k < curBufSize
    BY <1>3, BuffersInTable DEF KInv, BaseOK
  <2>2. buf'[k] = buf[k]
    BY <2>1, PrepareMoves
  <2> QED
    BY <1>1, <1>3, <2>2 DEF KInv, AtRest
<1>6. \A r \in ready' : \A k \in BuffersOf(r)' : buf'[k].state = "FREE"
  BY <1>1, <1>4, <1>5
<1>7. \A r \in ready' : \A k \in BuffersOf(r)' : InTime(r, k)'
  <2> SUFFICES ASSUME NEW r \in ready', NEW k \in BuffersOf(r)'
               PROVE  InTime(r, k)'
    OBVIOUS
  <2>1. \A g \in BufferGranules(k)' : g \in Granule
    BY DEF Watched
  <2>2. \A g \in BufferGranules(k)' : Clean(g)'
    BY <1>2, <1>3, <2>1 DEF Clean
  <2> QED
    BY <1>6, <2>2 DEF InTime
<1>8. \A g \in Granule : Clean(g)' /\ Dated(g)'
  BY <1>2, <1>3 DEF Clean, Dated
<1>9. \A r \in ready' : queue'[r].num = Num[r]
  BY <1>1, <1>4 DEF SInv
<1> QED
  BY <1>2, <1>7, <1>8, <1>9 DEF SInv

LEMMA FinishQuiet ==
  ASSUME Quiet, Finish
  PROVE  SInv'
<1>1. Cardinality(Leaked) = 0
  BY FS_EmptySet DEF Finish
<1>2. checkMode' = "Report" /\ syncErrors' = 0 /\ destroyed'
  BY <1>1 DEF Finish, Destroy, ReportSyncErrors, Quiet, SInv
<1> QED
  BY <1>2 DEF SInv

\* Nothing was touched, and no queue is ready.
LEMMA CleanStart ==
  ASSUME gran = Fresh.gran, ready = {}, syncErrors = 0, checkMode = "Report"
  PROVE  SInv
<1>1. \A g \in Granule : gran[g] = Untouched
  BY DEF Fresh
<1>2. Untouched.writer = NoPipe /\ Untouched.reader = NoPipe
  BY DEF Untouched
<1> QED
  BY <1>1, <1>2 DEF SInv, Clean, Dated

LEMMA RestartQuiet ==
  ASSUME Quiet, Restart
  PROVE  SInv'
<1>1. gran' = Fresh.gran /\ ready' = {} /\ syncErrors' = 0 /\ checkMode' = "Report"
  BY DEF Restart, NextKernel, KernelLaunch, Quiet, SInv
<1>2. \A g \in Granule : gran'[g] = Untouched
  BY <1>1 DEF Fresh
<1>3. Untouched.writer = NoPipe /\ Untouched.reader = NoPipe
  BY DEF Untouched
<1> QED
  BY <1>1, <1>2, <1>3 DEF SInv, Clean, Dated

LEMMA SInvStep == Phases = 0 /\ Proper /\ Quiet /\ Watched' /\ [Next]_vars => SInv'
<1> SUFFICES ASSUME Phases = 0, Proper, Quiet, Watched', [Next]_vars PROVE SInv'
  OBVIOUS
<1>1. CASE UNCHANGED vars
  <2>1. \A q \in Queue : BuffersOf(q)' = BuffersOf(q)
    BY <1>1 DEF vars, pipeVars, BuffersOf
  <2>2. ready \subseteq Queue /\ UNCHANGED <<clock, view, flags, gran, checkMode, syncErrors, buf,
                                             queue, destroyed, ready>>
    BY <1>1 DEF vars, coreVars, pipeVars, Quiet, KInv
  <2>3. \A r, k : InTime(r, k)' <=> InTime(r, k)
    BY <2>2 DEF InTime, Clean, Seen, Covers, BufferGranules, Producer, Consumer
  <2>4. \A g : (Clean(g)' <=> Clean(g)) /\ (Dated(g)' <=> Dated(g))
    BY <2>2 DEF Clean, Dated
  <2> QED
    BY <2>1, <2>2, <2>3, <2>4 DEF Quiet, SInv
<1>2. ASSUME ~ destroyed, NEW p \in Pipe, Work(p) PROVE SInv'
  BY <1>2, WorkQuiet
<1>3. ASSUME ~ destroyed, NEW q \in Queue, Prepare(q) \/ Obtain(q) \/ Consume(q) PROVE SInv'
  BY <1>3, PrepareQuiet, ObtainQuiet, ConsumeQuiet
<1>4. ASSUME ~ destroyed, NEW q \in Queue, NEW h \in Handle, Publish(q, h) \/ Recycle(q, h) PROVE SInv'
  BY <1>4, PublishQuiet, RecycleQuiet
<1>5. ~ NextPhase
  BY DEF NextPhase, Quiet, KInv
<1> QED
  BY <1>1, <1>2, <1>3, <1>4, <1>5, FinishQuiet, RestartQuiet DEF Next, Step

\* With a proper layout and no Reset every kernel of this shape is silent: no
\* touch is unordered, no flag is raised twice or waited for in vain, no pool
\* and no ring runs out, and nothing is leaked at the end, however its queues
\* are interleaved.
THEOREM KernelIsSilent ==
  ASSUME Phases = 0, Proper
  PROVE  Spec => []NoReports
<1>1. Init => NoLeak
  BY NoLeakInit
<1>2. Init => SInv
  BY CleanStart DEF Init, CoreInit
<1>3. KInv => Watched
  BY BufferWatched DEF Watched, Proper
<1>4. KInv /\ EInv /\ NoLeak /\ [Next]_vars => NoLeak'
  BY NoLeakStep
<1>5. KInv /\ EInv /\ NoLeak /\ SInv /\ Watched' /\ [Next]_vars => SInv'
  BY SInvStep DEF Quiet
<1>6. SInv => NoReports
  BY DEF SInv, NoReports
<1> QED
  BY <1>1, <1>2, <1>3, <1>4, <1>5, <1>6, KInvAlways, EInvAlways, PTL DEF Spec
=============================================================================
