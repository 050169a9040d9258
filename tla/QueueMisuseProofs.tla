------------------------- MODULE QueueMisuseProofs --------------------------
(***************************************************************************)
(* Whatever a kernel calls, for any queues, buffers and pool: the types,   *)
(* the layout of memory and the flags' claim on their ids survive it, and  *)
(* so do the rings until a published buffer is robbed.                     *)
(***************************************************************************)
EXTENDS QueueMisuse, TPipeProofs

-----------------------------------------------------------------------------
(* The calls of a kernel, each with what it is called with.                *)

\* The buffers of every queue, and the handles the kernel got, are in the table.
InTable ==
  /\ \A q \in Queue : queue[q].start + queue[q].num <= QBUF_MAX_LEN
  /\ known \subseteq Handle

BaseInv == BaseOK /\ robbed \in BOOLEAN /\ InTable

LEMMA QueueNumbers ==
  ASSUME PipeTypeOK, NEW q \in Queue
  PROVE  /\ queue[q].start \in Nat /\ queue[q].num \in Nat
         /\ curBufSize \in Nat /\ curBufSize <= QBUF_MAX_LEN /\ QBUF_MAX_LEN \in Nat
<1>1. queue[q] \in TQueType(q) /\ Depth[q] \in Nat /\ QBUF_MAX_LEN \in Nat
  BY TPipeAssumption DEF PipeTypeOK
<1> QED
  BY <1>1 DEF TQueType, PipeTypeOK

\* What AllocTensor finds is FREE, and in the table.
LEMMA IdleIsHandle ==
  ASSUME PipeTypeOK, InTable, NEW q \in Queue, HasIdleBuffer(q)
  PROVE  IdleSlot(q) \in Handle /\ buf[IdleSlot(q)].state = "FREE"
<1>1. queue[q].start \in Nat /\ queue[q].num \in Nat /\ QBUF_MAX_LEN \in Nat /\ queue[q].cursor \in Nat
  <2>1. queue[q] \in TQueType(q)
    BY DEF PipeTypeOK
  <2> QED
    BY <2>1, QueueNumbers DEF TQueType
<1>2. IdleOffsets(q) \in SUBSET Nat /\ IdleOffsets(q) # {}
  BY <1>1 DEF HasIdleBuffer, IdleOffsets
<1> DEFINE i == Min(IdleOffsets(q))
<1>3. i \in IdleOffsets(q)
  BY <1>2, MinIsLeast
<1>4. i \in Nat /\ i <= queue[q].num - 1 /\ buf[SlotAfter(q, i)].state = "FREE"
  BY <1>1, <1>3 DEF IdleOffsets
<1>5. queue[q].cursor + i \in Nat /\ queue[q].num \in Nat \ {0}
  BY <1>1, <1>4
<1>6. (queue[q].cursor + i) % queue[q].num \in 0 .. (queue[q].num - 1)
  BY <1>5, ModInRange
<1>7. SlotAfter(q, i) \in Handle
  BY <1>1, <1>6 DEF SlotAfter, InTable, Handle
<1> QED
  BY <1>4, <1>7 DEF IdleSlot

FillsQueue ==
  \E q \in Queue, num, len \in Nat :
    /\ InitBuffer(q, num, len)
    /\ robbed' = (\/ robbed \/ HasTensorInQue(q)
                  \/ \E h \in Handle \cap curBufSize .. (curBufSize + num - 1) : buf[h].state = "ENQUE")
    /\ UNCHANGED known

TakesTensor ==
  \E q \in Queue : /\ \/ AllocTensor(q) /\ known' = known \cup {IdleSlot(q)}
                      \/ (DeQue(q) \/ DeQueWrongState(q)) /\ UNCHANGED known
                   /\ UNCHANGED robbed

GivesTensor ==
  \E q \in Queue, h \in known :
    /\ \/ EnQue(q, h) /\ UNCHANGED robbed
       \/ FreeTensor(q, h) /\ robbed' = (robbed \/ buf[h].state = "ENQUE")
    /\ UNCHANGED known

\* Every step of the kernel is one of these.
LEMMA StepCases ==
  ASSUME Next
  PROVE  \/ FillsQueue \/ TakesTensor \/ GivesTensor \/ OutOfScope
         \/ (Refuse(1) \/ Reset \/ Destroy) /\ UNCHANGED <<known, robbed>>
         \/ NextKernel /\ known' = {} /\ robbed' = FALSE
<1>1. CASE \E q \in Queue : Setup(q)
  BY <1>1, QueueMisuseAssumption DEF Setup, InitBufferRefused, FillsQueue
<1>2. CASE \E q \in Queue : Call(q)
  BY <1>2 DEF Call, AllocTensorRefused, DeQueEmpty, TakesTensor
<1>3. CASE \E q \in Queue, h \in known : CallWith(q, h)
  BY <1>3 DEF CallWith, EnQueRefused, DoubleFree, GivesTensor
<1> QED
  BY <1>1, <1>2, <1>3 DEF Next, Finish, Restart, StartOver

\* A call that keeps the places and numbers of all buffers.
LEMMA TableStays ==
  ASSUME InTable, known' \subseteq Handle,
         \A q \in Queue : queue'[q].start = queue[q].start /\ queue'[q].num = queue[q].num
  PROVE  InTable'
  BY DEF InTable, Handle

LEMMA DeclaredEmpty ==
  ASSUME NEW r \in Queue
  PROVE  /\ NewPipe.queue[r].start = 0 /\ NewPipe.queue[r].num = 0 /\ NewPipe.queue[r].used = 0
         /\ NewPipe.queue[r].head = 0 /\ NewPipe.queue[r].tail = 0
  BY DEF NewPipe, NewQueue

\* New queues lie in the table.
LEMMA DeclaredInTable ==
  ASSUME queue' = NewPipe.queue, known' \subseteq Handle
  PROVE  InTable'
<1>1. QBUF_MAX_LEN \in Nat
  BY TPipeAssumption
<1> QED
  BY <1>1, DeclaredEmpty DEF InTable, Handle

LEMMA BaseInvInit == Init => BaseInv
<1> SUFFICES ASSUME Init PROVE BaseInv
  OBVIOUS
<1>1. BaseOK /\ robbed \in BOOLEAN
  BY BaseInit DEF Init
<1>2. queue = NewPipe.queue /\ known = {} /\ QBUF_MAX_LEN \in Nat
  BY TPipeAssumption DEF Init, PipeInit
<1>3. InTable
  BY <1>2, DeclaredEmpty DEF InTable
<1> QED
  BY <1>1, <1>3 DEF BaseInv

LEMMA BaseInvStep == BaseInv /\ [Next]_vars => BaseInv'
<1> SUFFICES ASSUME BaseInv, [Next]_vars PROVE BaseInv'
  OBVIOUS
<1>0. BaseOK /\ PipeTypeOK /\ InTable /\ known \subseteq Handle /\ robbed \in BOOLEAN
  BY DEF BaseInv, BaseOK, InTable
<1>1. ASSUME NEW q \in Queue, NEW num \in Nat, NEW len \in Nat, InitBuffer(q, num, len),
             UNCHANGED known, robbed' \in BOOLEAN
      PROVE  BaseInv'
  <2>1. BaseOK'
    BY <1>0, <1>1, BaseInitBuffer
  <2>2. InTable'
    <3>1. /\ queue'[q].start = curBufSize /\ queue'[q].num = num
          /\ \A r \in Queue \ {q} : queue'[r] = queue[r]
      BY <1>0, <1>1, InitBufferPlaces
    <3>2. curBufSize + num <= QBUF_MAX_LEN
      BY <1>1 DEF InitBuffer, InitBufferFits
    <3> QED
      BY <1>0, <1>1, <3>1, <3>2 DEF InTable, Handle
  <2> QED
    BY <1>0, <1>1, <2>1, <2>2 DEF BaseInv
<1>2. ASSUME NEW q \in Queue, AllocTensor(q) \/ DeQue(q) \/ DeQueWrongState(q),
             known' \subseteq Handle, UNCHANGED robbed
      PROVE  BaseInv'
  <2>1. BaseOK'
    <3>1. 0 \in Handle
      BY TPipeAssumption DEF Handle
    <3> QED
      BY <1>0, <1>2, <3>1, BaseQueueCall, BaseDeQueWrongState
  <2>2. InTable'
    BY <1>0, <1>2, RingCallKeepsPlace, TableStays
  <2> QED
    BY <1>0, <1>2, <2>1, <2>2 DEF BaseInv
<1>3. ASSUME NEW q \in Queue, AllocTensor(q), known' = known \cup {IdleSlot(q)}, UNCHANGED robbed
      PROVE  BaseInv'
  <2>1. IdleSlot(q) \in Handle
    BY <1>0, <1>3, IdleIsHandle DEF AllocTensor
  <2>2. known' \subseteq Handle
    BY <1>0, <1>3, <2>1
  <2> QED
    BY <1>2, <1>3, <2>2
<1>4. ASSUME NEW q \in Queue, NEW h \in known, EnQue(q, h) \/ FreeTensor(q, h),
             UNCHANGED known, robbed' \in BOOLEAN
      PROVE  BaseInv'
  <2>1. BaseOK'
    BY <1>0, <1>4, BaseQueueCall
  <2>2. InTable'
    BY <1>0, <1>4, RingCallKeepsPlace, TableStays DEF Handle
  <2> QED
    BY <1>4, <2>1, <2>2 DEF BaseInv
<1>5. CASE Refuse(1) /\ UNCHANGED <<known, robbed>>
  <2>1. BaseOK' /\ UNCHANGED pipeVars
    BY <1>0, <1>5, BaseRefuse
  <2>2. InTable'
    BY <1>0, <1>5, <2>1 DEF pipeVars, InTable, Handle
  <2> QED
    BY <1>0, <1>5, <2>1, <2>2 DEF BaseInv
<1>6. CASE OutOfScope
  <2>1. /\ queue' = NewPipe.queue /\ robbed' \in BOOLEAN
        /\ UNCHANGED <<coreVars, buf, curBufSize, maxAddr, eventOccupy, destroyed, known>>
    BY <1>0, <1>6 DEF OutOfScope
  <2>2. CoreTypeOK' /\ Layout'
    BY <1>0, <2>1 DEF coreVars, BaseOK, CoreTypeOK, Layout
  <2>3. PipeTypeOK'
    <3>1. QueueTypeOK'
      <4>1. \A q \in Queue : NewQueue(q) \in TQueType(q)
        BY NewPipeTyped
      <4>2. \A q \in Queue : TQueType(q)' = TQueType(q)
        BY DEF TQueType
      <4> QED
        BY <2>1, <4>1, <4>2 DEF QueueTypeOK, NewPipe
    <3> QED
      BY <1>0, <2>1, <3>1 DEF BaseOK, PipeTypeOK, QueueTypeOK
  <2>4. InTable'
    BY <1>0, <2>1, DeclaredInTable DEF Handle
  <2> QED
    BY <2>1, <2>2, <2>3, <2>4 DEF BaseInv, BaseOK
<1>7. CASE Reset /\ UNCHANGED <<known, robbed>>
  <2>1. InTable'
    BY <1>0, <1>7 DEF Reset, InTable, Handle
  <2> QED
    BY <1>0, <1>7, <2>1, BaseReset DEF BaseInv
<1>8. CASE Destroy /\ UNCHANGED <<known, robbed>>
  <2>1. BaseOK'
    BY <1>0, <1>8, BaseDestroy
  <2>2. InTable'
    BY <1>0, <1>8 DEF Destroy, InTable, Handle
  <2> QED
    BY <1>0, <1>8, <2>1, <2>2 DEF BaseInv
<1>9. CASE NextKernel /\ known' = {} /\ robbed' = FALSE
  <2>1. queue' = NewPipe.queue
    BY <1>9 DEF NextKernel
  <2>2. InTable'
    BY <1>9, <2>1, DeclaredInTable
  <2> QED
    BY <1>0, <1>9, <2>2, BaseNextKernel DEF BaseInv
<1>10. CASE UNCHANGED vars
  <2>1. BaseOK'
    BY <1>0, <1>10, BaseUnchanged DEF vars
  <2>2. InTable'
    BY <1>0, <1>10 DEF vars, pipeVars, InTable, Handle
  <2> QED
    BY <1>0, <1>10, <2>1, <2>2 DEF vars, BaseInv
<1>11. CASE Next
  <2>1. CASE FillsQueue
    BY <1>0, <1>1, <2>1 DEF FillsQueue
  <2>2. CASE TakesTensor
    BY <1>0, <1>2, <1>3, <2>2 DEF TakesTensor
  <2>3. CASE GivesTensor
    BY <1>0, <1>4, <2>3 DEF GivesTensor
  <2> QED
    BY <1>5, <1>6, <1>7, <1>8, <1>9, <1>11, <2>1, <2>2, <2>3, StepCases
<1> QED
  BY <1>10, <1>11

LEMMA BaseInvAlways == Spec => []BaseInv
  BY BaseInvInit, BaseInvStep, PTL DEF Spec

\* The types are right whatever is called, and however it fails.
THEOREM MisuseTyped == Spec => []TypeOK
<1>1. BaseInv => TypeOK
  BY DEF BaseInv, BaseOK, InTable, TypeOK
<1> QED
  BY <1>1, BaseInvAlways, PTL

\* Whatever is asked for, refused and Reset, buffers do not overlap and stay
\* inside their memory.
THEOREM MisuseKeepsBuffersApart == Spec => []BuffersDisjoint
<1>1. BaseInv => BuffersDisjoint
  BY LayoutDisjoint DEF BaseInv, BaseOK
<1> QED
  BY <1>1, BaseInvAlways, PTL

-----------------------------------------------------------------------------
(* Flags.                                                                  *)

LEMMA FlagsStayOccupied ==
  ASSUME BaseInv, RaisedFlagsAreOccupied, [Next]_vars
  PROVE  RaisedFlagsAreOccupied'
<1> DEFINE Claimed(e, id) == flags[e][id].pending => id \in eventOccupy[e]
<1> SUFFICES ASSUME ~ destroyed', NEW f \in Event, NEW i \in EventId
             PROVE  Claimed(f, i)'
  BY DEF RaisedFlagsAreOccupied
<1>1. ~ destroyed => Claimed(f, i)
  BY DEF RaisedFlagsAreOccupied
<1>2. CoreTypeOK /\ PipeTypeOK
  BY DEF BaseInv, BaseOK
<1>3. CASE UNCHANGED <<flags, eventOccupy, destroyed>>
  BY <1>1, <1>3
<1>4. ASSUME NEW q \in Queue, NEW h, EnQue(q, h) \/ FreeTensor(q, h)
      PROVE  Claimed(f, i)'
  <2>1. ~ destroyed
    BY <1>4 DEF EnQue, FreeTensor
  <2>2. EnQueEvt[q] \in Event /\ FreeBufEvt[q] \in Event
    BY TPipeAssumption
  <2> QED
    BY <1>1, <1>2, <1>4, <2>1, <2>2, CallsOfPool, PoolAfterSet
<1>5. ASSUME NEW q \in Queue, DeQue(q) \/ AllocTensor(q)
      PROVE  Claimed(f, i)'
  <2>1. ~ destroyed
    BY <1>5 DEF DeQue, AllocTensor
  <2>2. EnQueEvt[q] \in Event /\ FreeBufEvt[q] \in Event
    BY TPipeAssumption
  <2> QED
    BY <1>1, <1>2, <1>5, <2>1, <2>2, CallsOfPool, PoolAfterWait
<1>6. CASE NextKernel
  <2>1. ~ flags'[f][i].pending
    BY <1>6 DEF NextKernel, KernelLaunch, Fresh, Lowered
  <2> QED
    BY <2>1
<1>7. CASE Destroy
  BY <1>7 DEF Destroy
<1>8. CASE FillsQueue
  <2>1. PICK q \in Queue, num \in Nat, len \in Nat : InitBuffer(q, num, len)
    BY <1>8 DEF FillsQueue
  <2>2. CarveBuffers(BufHardType[q], num, len)
    BY <2>1 DEF InitBuffer
  <2>3. UNCHANGED <<flags, eventOccupy, destroyed>>
    BY <2>2 DEF CarveBuffers, coreVars
  <2> QED
    BY <1>3, <2>3
<1>9. CASE \E q \in Queue : DeQueWrongState(q)
  BY <1>3, <1>9 DEF DeQueWrongState
<1>10. CASE Refuse(1) \/ OutOfScope \/ Reset \/ UNCHANGED vars
  BY <1>3, <1>10 DEF Refuse, OutOfScope, Reset, vars, coreVars, pipeVars
<1>11. CASE TakesTensor \/ GivesTensor
  BY <1>4, <1>5, <1>9, <1>11 DEF TakesTensor, GivesTensor
<1> QED
  BY <1>6, <1>7, <1>8, <1>10, <1>11, StepCases

\* The pool never hands out a register whose flag is still up, whatever was
\* given back to which queue before.
THEOREM FlagsAreClaimed == Spec => []RaisedFlagsAreOccupied
<1>1. Init => RaisedFlagsAreOccupied
  BY DEF Init, CoreInit, Fresh, Lowered, RaisedFlagsAreOccupied
<1>2. BaseInv /\ RaisedFlagsAreOccupied /\ [Next]_vars => RaisedFlagsAreOccupied'
  BY FlagsStayOccupied
<1> QED
  BY <1>1, <1>2, BaseInvAlways, PTL DEF Spec

-----------------------------------------------------------------------------
(* The rings.                                                              *)

Place(q) == 1 .. queue[q].used

\* Head, tail and count agree; and until a published buffer is robbed, a ring
\* holds published buffers only, and every published buffer is in one place.
RingInv ==
  /\ \A q \in Queue : Aligned(q)
  /\ ~ robbed =>
       /\ \A q \in Queue : \A i \in Place(q) : buf[Published(q)[i]].state = "ENQUE"
       /\ \A q, r \in Queue : \A i \in Place(q), j \in Place(r) :
            Published(q)[i] = Published(r)[j] => q = r /\ i = j
       /\ \A h \in Handle : buf[h].state = "ENQUE" =>
            \E q \in Queue : \E i \in Place(q) : Published(q)[i] = h

LEMMA RingInvSurvives ==
  ASSUME RingInv
  PROVE  RingSurvivesMisuse
<1> SUFFICES ASSUME ~ robbed, NEW h \in Handle
             PROVE  Cardinality(Entries(h)) = OneIf(buf[h].state = "ENQUE")
  BY DEF RingSurvivesMisuse, RingInv, Aligned
<1>1. ASSUME NEW e
      PROVE  e \in Entries(h) <=>
               \E q \in Queue : \E i \in Place(q) : e = <<q, i>> /\ Published(q)[i] = h
  BY DEF Entries, Place
<1>2. CASE buf[h].state = "ENQUE"
  <2>0. PICK q \in Queue : \E i \in Place(q) : Published(q)[i] = h
    BY <1>2 DEF RingInv
  <2>1. PICK i \in Place(q) : Published(q)[i] = h
    BY <2>0
  <2>2. Entries(h) = {<<q, i>>}
    BY <1>1, <2>1 DEF RingInv
  <2> QED
    BY <1>2, <2>2, FS_Singleton DEF OneIf
<1>3. CASE buf[h].state # "ENQUE"
  <2>1. Entries(h) = {}
    BY <1>1, <1>3 DEF RingInv
  <2> QED
    BY <1>3, <2>1, FS_EmptySet DEF OneIf
<1> QED
  BY <1>2, <1>3

\* A step that neither publishes nor takes, and publishes no new handle.
LEMMA RingQuiet ==
  ASSUME PipeTypeOK, RingInv, robbed => robbed',
         \A q \in Queue : Aligned(q)',
         ~ robbed' =>
           /\ \A q \in Queue : /\ queue'[q].used = queue[q].used
                              /\ \A i \in Place(q) : Published(q)'[i] = Published(q)[i]
           /\ \A h \in Handle : buf'[h].state = "ENQUE" <=> buf[h].state = "ENQUE"
  PROVE  RingInv'
<1>0. \A h : h \in Handle' <=> h \in Handle
  BY DEF Handle
<1> SUFFICES ASSUME ~ robbed'
             PROVE  /\ \A q \in Queue : \A i \in Place(q)' : buf'[Published(q)'[i]].state = "ENQUE"
                    /\ \A q, r \in Queue : \A i \in Place(q)', j \in Place(r)' :
                         Published(q)'[i] = Published(r)'[j] => q = r /\ i = j
                    /\ \A h \in Handle : buf'[h].state = "ENQUE" =>
                         \E q \in Queue : \E i \in Place(q)' : Published(q)'[i] = h
  BY <1>0 DEF RingInv
<1>1. ~ robbed
  OBVIOUS
<1>2. \A q \in Queue : Place(q)' = Place(q)
  BY DEF Place
<1>3. \A q \in Queue : \A i \in Place(q) : Published(q)[i] \in Handle
  BY PublishedEntry DEF Place
<1> QED
  BY <1>1, <1>2, <1>3 DEF RingInv

LEMMA RingEnQue ==
  ASSUME BaseInv, RingInv, NEW q \in Queue, NEW h \in Handle, EnQue(q, h), UNCHANGED robbed
  PROVE  RingInv'
<1>1. PipeTypeOK
  BY DEF BaseInv, BaseOK
<1> DEFINE n == queue[q].used
<1>2. /\ queue'[q].used = n + 1
      /\ \A i \in 1 .. n : Published(q)'[i] = Published(q)[i]
      /\ Published(q)'[n + 1] = h
      /\ Aligned(q)'
      /\ \A r \in Queue \ {q} : queue'[r] = queue[r]
  BY <1>1, RingAfterEnQue DEF RingInv
<1>3. n \in Nat
  BY <1>1, PublishedEntry
<1>4. \A k : k \in Handle' <=> k \in Handle
  BY DEF Handle
<1>5. /\ buf[h].state = "OCCUPIED" /\ buf'[h].state = "ENQUE"
      /\ \A k \in Handle \ {h} : buf'[k].state = buf[k].state
  BY <1>1 DEF EnQue, PipeTypeOK, TBufType
<1>6. \A r \in Queue \ {q} : /\ Place(r)' = Place(r)
                             /\ Aligned(r)' <=> Aligned(r)
                             /\ Published(r)' = Published(r)
  BY <1>2 DEF Place, Aligned, Published
<1>7. ~ robbed => \A r \in Queue : \A i \in Place(r) : Published(r)[i] # h /\ Published(r)[i] \in Handle
  BY <1>1, <1>5, PublishedEntry DEF RingInv, Place
<1>8. Place(q)' = Place(q) \cup {n + 1} /\ n + 1 \notin Place(q)
  BY <1>2, <1>3 DEF Place
<1>9. \A r \in Queue : \A i \in Place(r) : i \in Place(r)' /\ Published(r)'[i] = Published(r)[i]
  BY <1>2, <1>6, <1>8 DEF Place
<1>10. ASSUME NEW r \in Queue, NEW i \in Place(r)'
       PROVE  \/ i \in Place(r) /\ Published(r)'[i] = Published(r)[i]
              \/ r = q /\ i = n + 1 /\ Published(r)'[i] = h
  BY <1>2, <1>6, <1>8, <1>9
<1>11. ASSUME ~ robbed, NEW r \in Queue, NEW i \in Place(r)'
       PROVE  buf'[Published(r)'[i]].state = "ENQUE"
  BY <1>5, <1>7, <1>10, <1>11 DEF RingInv
<1>12. ASSUME ~ robbed, NEW r \in Queue, NEW t \in Queue, NEW i \in Place(r)', NEW j \in Place(t)',
              Published(r)'[i] = Published(t)'[j]
       PROVE  r = t /\ i = j
  <2>1. CASE r = q /\ i = n + 1 /\ Published(r)'[i] = h
    BY <1>7, <1>10, <1>12, <2>1
  <2>2. CASE i \in Place(r) /\ Published(r)'[i] = Published(r)[i]
    <3>1. Published(t)'[j] # h
      BY <1>7, <1>12, <2>2
    <3>2. j \in Place(t) /\ Published(t)'[j] = Published(t)[j]
      BY <1>10, <3>1
    <3>3. \A k \in Place(r), l \in Place(t) :
            Published(r)[k] = Published(t)[l] => r = t /\ k = l
      BY <1>12 DEF RingInv
    <3> QED
      BY <1>12, <2>2, <3>2, <3>3
  <2> QED
    BY <1>10, <2>1, <2>2
<1>13. ASSUME ~ robbed, NEW k \in Handle, buf'[k].state = "ENQUE"
       PROVE  \E r \in Queue : \E i \in Place(r)' : Published(r)'[i] = k
  <2>1. CASE k = h
    BY <1>2, <1>8, <2>1
  <2>2. CASE k # h
    <3>1. buf[k].state = "ENQUE"
      BY <1>5, <1>13, <2>2
    <3>2. PICK r \in Queue : \E i \in Place(r) : Published(r)[i] = k
      BY <1>13, <3>1 DEF RingInv
    <3>3. PICK i \in Place(r) : Published(r)[i] = k
      BY <3>2
    <3> QED
      BY <1>9, <3>3
  <2> QED
    BY <2>1, <2>2
<1>14. \A r \in Queue : Aligned(r)'
  BY <1>2, <1>6 DEF RingInv
<1> QED
  BY <1>4, <1>11, <1>12, <1>13, <1>14 DEF RingInv

LEMMA RingDeQue ==
  ASSUME BaseInv, RingInv, ~ robbed, NEW q \in Queue, DeQue(q), UNCHANGED robbed
  PROVE  RingInv'
<1> DEFINE h == OldestSlot(q)
           n == queue[q].used
<1>1. PipeTypeOK /\ h \in Handle
  BY OldestIsHandle DEF BaseInv, BaseOK
<1>2. /\ queue'[q].used = n - 1
      /\ n >= 1
      /\ Published(q)[1] = h
      /\ \A i \in 1 .. (n - 1) : Published(q)'[i] = Published(q)[i + 1]
      /\ Aligned(q)'
      /\ \A r \in Queue \ {q} : queue'[r] = queue[r]
  BY <1>1, RingAfterTake DEF RingInv, DeQue
<1>3. n \in Nat
  BY <1>1, PublishedEntry
<1>4. \A k : k \in Handle' <=> k \in Handle
  BY DEF Handle
<1>5. /\ buf'[h].state = "DEQUE"
      /\ \A k \in Handle \ {h} : buf'[k].state = buf[k].state
  BY <1>1 DEF DeQue, PipeTypeOK, TBufType
<1>6. \A r \in Queue \ {q} : /\ Place(r)' = Place(r)
                             /\ Aligned(r)' <=> Aligned(r)
                             /\ Published(r)' = Published(r)
  BY <1>2 DEF Place, Aligned, Published
<1>7. \A r \in Queue : \A i \in Place(r) : Published(r)[i] = h => r = q /\ i = 1
  BY <1>2, <1>3 DEF RingInv, Place
\* Every entry was one before, further back if it is in the ring of q.
<1>8. ASSUME NEW r \in Queue, NEW i \in Place(r)'
      PROVE  LET k == IF r = q THEN i + 1 ELSE i
             IN  k \in Place(r) /\ Published(r)'[i] = Published(r)[k] /\ Published(r)[k] # h
  <2>1. CASE r = q
    <3>1. i \in 1 .. (n - 1) /\ i + 1 \in 1 .. n /\ i + 1 # 1
      BY <1>2, <1>3, <2>1 DEF Place
    <3> QED
      BY <1>2, <1>7, <2>1, <3>1 DEF Place
  <2>2. CASE r # q
    BY <1>6, <1>7, <2>2
  <2> QED
    BY <2>1, <2>2
<1>9. ASSUME NEW r \in Queue, NEW i \in Place(r)'
      PROVE  buf'[Published(r)'[i]].state = "ENQUE"
  <2>1. PICK k \in Place(r) : Published(r)'[i] = Published(r)[k] /\ Published(r)[k] # h
    BY <1>8
  <2>2. Published(r)[k] \in Handle /\ buf[Published(r)[k]].state = "ENQUE"
    BY <1>1, PublishedEntry DEF RingInv, Place
  <2> QED
    BY <1>5, <2>1, <2>2
<1>10. ASSUME NEW r \in Queue, NEW t \in Queue, NEW i \in Place(r)', NEW j \in Place(t)',
              Published(r)'[i] = Published(t)'[j]
       PROVE  r = t /\ i = j
  <2> DEFINE k == IF r = q THEN i + 1 ELSE i
             l == IF t = q THEN j + 1 ELSE j
  <2>1. k \in Place(r) /\ l \in Place(t) /\ Published(r)[k] = Published(t)[l]
    BY <1>8, <1>10
  <2>2. r = t /\ k = l
    BY <2>1 DEF RingInv
  <2>3. i \in Int /\ j \in Int
    BY DEF Place
  <2> QED
    BY <2>2, <2>3
<1>11. ASSUME NEW k \in Handle, buf'[k].state = "ENQUE"
       PROVE  \E r \in Queue : \E i \in Place(r)' : Published(r)'[i] = k
  <2>1. k # h
    BY <1>5, <1>11
  <2>2. buf[k].state = "ENQUE"
    BY <1>5, <1>11, <2>1
  <2>3. PICK r \in Queue : \E i \in Place(r) : Published(r)[i] = k
    BY <2>1, <2>2 DEF RingInv
  <2>4. PICK i \in Place(r) : Published(r)[i] = k
    BY <2>3
  <2>5. CASE r = q
    <3>1. i # 1 /\ i - 1 \in 1 .. (n - 1) /\ (i - 1) + 1 = i
      BY <1>2, <1>3, <2>1, <2>4, <2>5 DEF Place
    <3>2. Published(q)'[i - 1] = k /\ i - 1 \in Place(q)'
      BY <1>2, <2>4, <2>5, <3>1 DEF Place
    <3> QED
      BY <3>2
  <2>6. CASE r # q
    BY <1>6, <2>4, <2>6
  <2> QED
    BY <2>5, <2>6
<1>12. \A r \in Queue : Aligned(r)'
  BY <1>2, <1>6 DEF RingInv
<1> QED
  BY <1>4, <1>9, <1>10, <1>11, <1>12 DEF RingInv

\* New queues are aligned, and nothing is in them.
LEMMA DeclaredAligned ==
  ASSUME queue' = NewPipe.queue
  PROVE  \A q \in Queue : Aligned(q)' /\ Place(q)' = {}
<1> SUFFICES ASSUME NEW q \in Queue PROVE Aligned(q)' /\ Place(q)' = {}
  OBVIOUS
<1>1. queue'[q].used = 0 /\ queue'[q].head = 0 /\ queue'[q].tail = 0
  BY DeclaredEmpty
<1>2. Depth[q] \in Nat \ {0}
  BY TPipeAssumption
<1>3. 0 % Depth[q] = 0
  BY <1>2, ModOnce
<1> QED
  BY <1>1, <1>3 DEF Aligned, Place

\* The rings stand still, and no buffer is published or taken.
LEMMA RingUntouched ==
  ASSUME PipeTypeOK, RingInv, queue' = queue, robbed => robbed',
         ~ robbed' => \A h \in Handle : buf'[h].state = "ENQUE" <=> buf[h].state = "ENQUE"
  PROVE  RingInv'
<1>1. \A q \in Queue : /\ Aligned(q)' <=> Aligned(q)
                       /\ Published(q)' = Published(q)
  BY DEF Aligned, Published
<1>2. \A q \in Queue : Aligned(q)'
  BY <1>1 DEF RingInv
<1> QED
  BY <1>1, <1>2, RingQuiet

\* InitBuffer starts the ring of q, wherever it stood; nothing that was
\* published is lost unless it was q's, or in a descriptor carved anew.
LEMMA RingInitBuffer ==
  ASSUME BaseInv, RingInv, NEW q \in Queue, NEW num \in Nat, NEW len \in Nat,
         InitBuffer(q, num, len),
         robbed' = (\/ robbed \/ HasTensorInQue(q)
                    \/ \E h \in Handle \cap curBufSize .. (curBufSize + num - 1) : buf[h].state = "ENQUE")
  PROVE  RingInv'
<1>1. PipeTypeOK /\ BaseOK
  BY DEF BaseInv, BaseOK
<1>2. /\ queue'[q].used = 0 /\ queue'[q].head = 0 /\ queue'[q].tail = 0
      /\ \A r \in Queue \ {q} : queue'[r] = queue[r]
  BY <1>1, InitBufferPlaces
<1>3. Aligned(q)'
  <2>1. Depth[q] \in Nat \ {0}
    BY TPipeAssumption
  <2>2. 0 % Depth[q] = 0
    BY <2>1, ModOnce
  <2> QED
    BY <1>2, <2>2 DEF Aligned
<1>4. \A r \in Queue \ {q} : /\ Aligned(r)' <=> Aligned(r)
                             /\ Published(r)' = Published(r)
                             /\ queue'[r].used = queue[r].used
  BY <1>2 DEF Aligned, Published
<1>5. \A r \in Queue : Aligned(r)'
  BY <1>3, <1>4 DEF RingInv
<1>6. ASSUME ~ robbed'
      PROVE  \A r \in Queue : /\ queue'[r].used = queue[r].used
                             /\ \A i \in Place(r) : Published(r)'[i] = Published(r)[i]
  <2>1. ~ HasTensorInQue(q)
    BY <1>6
  <2>2. queue[q].used = 0 /\ Place(q) = {}
    <3>1. queue[q].used \in Nat
      BY <1>1, PublishedEntry
    <3> QED
      BY <2>1, <3>1 DEF HasTensorInQue, Place
  <2> QED
    BY <1>2, <1>4, <2>2
<1>7. ASSUME ~ robbed', NEW h \in Handle
      PROVE  buf'[h].state = "ENQUE" <=> buf[h].state = "ENQUE"
  <2>1. CarveBuffers(BufHardType[q], num, len)
    BY DEF InitBuffer
  <2>2. buf'[h] = IF h \in curBufSize .. (curBufSize + num - 1)
                    THEN [NewBuffer EXCEPT !.hard = BufHardType[q], !.dataLen = len,
                                           !.address = maxAddr[BufHardType[q]] + (h - curBufSize) * len]
                    ELSE buf[h]
    BY <2>1 DEF CarveBuffers
  <2>3. ASSUME NEW m, NEW l, NEW a
        PROVE  [NewBuffer EXCEPT !.hard = m, !.dataLen = l, !.address = a].state = "FREE"
    BY DEF NewBuffer
  <2>4. h \in curBufSize .. (curBufSize + num - 1) => buf[h].state # "ENQUE"
    BY <1>7
  <2> QED
    BY <2>2, <2>3, <2>4
<1> QED
  BY <1>1, <1>5, <1>6, <1>7, RingQuiet

LEMMA RingOutOfScope ==
  ASSUME BaseInv, RingInv, OutOfScope
  PROVE  RingInv'
<1>1. /\ queue' = NewPipe.queue /\ buf' = buf
      /\ robbed' = (robbed \/ \E q \in Queue : HasTensorInQue(q))
  BY DEF OutOfScope
<1>2. ASSUME ~ robbed', NEW q \in Queue
      PROVE  queue'[q].used = queue[q].used /\ Place(q) = {}
  <2>1. queue[q].used \in Nat
    BY PublishedEntry DEF BaseInv, BaseOK
  <2>4. ~ HasTensorInQue(q)
    BY <1>1, <1>2
  <2>2. queue[q].used = 0
    BY <2>1, <2>4 DEF HasTensorInQue
  <2>3. queue'[q].used = 0
    BY <1>1, DeclaredEmpty
  <2> QED
    BY <2>2, <2>3 DEF Place
<1> QED
  BY <1>1, <1>2, DeclaredAligned, RingQuiet DEF BaseInv, BaseOK

LEMMA RingStep == BaseInv /\ RingInv /\ [Next]_vars => RingInv'
<1> SUFFICES ASSUME BaseInv, RingInv, [Next]_vars PROVE RingInv'
  OBVIOUS
<1>1. PipeTypeOK /\ InTable
  BY DEF BaseInv, BaseOK
<1>2. CASE FillsQueue
  BY <1>2, RingInitBuffer DEF FillsQueue
<1>3. ASSUME NEW q \in Queue, AllocTensor(q), UNCHANGED robbed
      PROVE  RingInv'
  <2> DEFINE h == IdleSlot(q)
  <2>1. /\ buf[h].state = "FREE"
        /\ \A k \in Handle : IF k = h THEN buf'[k].state = "OCCUPIED" ELSE buf'[k] = buf[k]
    <3>3. buf[h].state = "FREE"
      BY <1>1, <1>3, IdleIsHandle DEF AllocTensor
    <3>4. buf' = [buf EXCEPT ![h].state = "OCCUPIED", ![h].freeBufEvtID = INVALID_TEVENTID]
      BY <1>3 DEF AllocTensor
    <3> HIDE DEF h
    <3>5. ASSUME NEW k \in Handle
          PROVE  IF k = h THEN buf'[k].state = "OCCUPIED" ELSE buf'[k] = buf[k]
      BY <1>1, <3>4 DEF PipeTypeOK, TBufType
    <3> QED
      BY <3>3, <3>5
  <2>2. \A k \in Handle : buf'[k].state = "ENQUE" <=> buf[k].state = "ENQUE"
    BY <2>1
  <2>4. \A r \in Queue : /\ queue'[r].used = queue[r].used /\ queue'[r].head = queue[r].head
                         /\ queue'[r].tail = queue[r].tail /\ queue'[r].ring = queue[r].ring
    <3>1. queue[q] \in TQueType(q)
      BY <1>1 DEF PipeTypeOK
    <3> QED
      BY <1>1, <1>3, <3>1 DEF AllocTensor, PipeTypeOK, TQueType
  <2>5. \A r \in Queue : /\ Aligned(r)' <=> Aligned(r)
                         /\ Published(r)' = Published(r)
    BY <2>4 DEF Aligned, Published
  <2>6. \A r \in Queue : Aligned(r)'
    BY <2>5 DEF RingInv
  <2> QED
    BY <1>1, <1>3, <2>2, <2>4, <2>5, <2>6, RingQuiet
<1>4. ASSUME NEW q \in Queue, DeQue(q) \/ DeQueWrongState(q), UNCHANGED robbed
      PROVE  RingInv'
  <2>1. CASE robbed
    <3>1. HasTensorInQue(q) /\ queue' = RingAfterDeQue(q)
      BY <1>4 DEF DeQue, DeQueWrongState
    <3>2. Aligned(q)' /\ \A r \in Queue \ {q} : queue'[r] = queue[r]
      BY <1>1, <3>1, RingAfterTake DEF RingInv
    <3>3. \A r \in Queue \ {q} : Aligned(r)' <=> Aligned(r)
      BY <3>2 DEF Aligned
    <3> QED
      BY <1>4, <2>1, <3>2, <3>3 DEF RingInv
  <2>2. CASE ~ robbed
    <3>1. HasTensorInQue(q)
      BY <1>4 DEF DeQue, DeQueWrongState
    <3>2. 1 \in Place(q) /\ Published(q)[1] = OldestSlot(q)
      <4>1. queue' = RingAfterDeQue(q) /\ Aligned(q)
        BY <1>4, <2>2 DEF DeQue, DeQueWrongState, RingInv
      <4>2. queue[q].used >= 1 /\ Published(q)[1] = OldestSlot(q)
        BY <1>1, <3>1, <4>1, RingAfterTake
      <4>3. queue[q].used \in Nat
        BY <1>1, PublishedEntry
      <4> QED
        BY <4>2, <4>3 DEF Place
    <3>3. buf[OldestSlot(q)].state = "ENQUE"
      BY <2>2, <3>2 DEF RingInv
    <3>4. DeQue(q)
      BY <1>4, <3>3 DEF DeQueWrongState
    <3> QED
      BY <1>4, <2>2, <3>4, RingDeQue
  <2> QED
    BY <2>1, <2>2
<1>5. ASSUME NEW q \in Queue, NEW h \in known, EnQue(q, h), UNCHANGED robbed
      PROVE  RingInv'
  BY <1>1, <1>5, RingEnQue DEF InTable
<1>6. ASSUME NEW q \in Queue, NEW h \in known, FreeTensor(q, h),
             robbed' = (robbed \/ buf[h].state = "ENQUE")
      PROVE  RingInv'
  <2>1. \A k \in Handle : IF k = h THEN buf'[k].state = "FREE" ELSE buf'[k] = buf[k]
    BY <1>1, <1>6 DEF FreeTensor, PipeTypeOK, TBufType
  <2>2. ~ robbed' => \A k \in Handle : buf'[k].state = "ENQUE" <=> buf[k].state = "ENQUE"
    BY <1>6, <2>1
  <2>3. queue' = queue
    BY <1>6 DEF FreeTensor
  <2> QED
    BY <1>1, <1>6, <2>2, <2>3, RingUntouched
<1>7. CASE Refuse(1) /\ UNCHANGED robbed
  BY <1>1, <1>7, RingUntouched DEF Refuse, pipeVars
<1>8. CASE OutOfScope
  BY <1>8, RingOutOfScope
<1>9. CASE Reset /\ UNCHANGED robbed
  BY <1>1, <1>9, RingUntouched DEF Reset
<1>10. CASE Destroy /\ UNCHANGED robbed
  <2>1. \A h \in Handle : buf'[h].state = buf[h].state
    BY <1>1, <1>10 DEF Destroy, PipeTypeOK, TBufType
  <2> QED
    BY <1>1, <1>10, <2>1, RingUntouched DEF Destroy
<1>11. CASE NextKernel
  <2>1. queue' = NewPipe.queue /\ buf' = NewPipe.buf
    BY <1>11 DEF NextKernel
  <2>2. \A q \in Queue : Aligned(q)' /\ Place(q)' = {}
    BY <2>1, DeclaredAligned
  <2>3. \A h \in Handle : buf'[h].state # "ENQUE"
    BY <2>1 DEF NewPipe, NewBuffer
  <2>4. \A h : h \in Handle' <=> h \in Handle
    BY DEF Handle
  <2> QED
    BY <2>2, <2>3, <2>4 DEF RingInv
<1>12. CASE UNCHANGED vars
  BY <1>1, <1>12, RingUntouched DEF vars, pipeVars
<1>13. CASE TakesTensor
  BY <1>3, <1>4, <1>13 DEF TakesTensor
<1>14. CASE GivesTensor
  BY <1>5, <1>6, <1>14 DEF GivesTensor
<1> QED
  BY <1>2, <1>7, <1>8, <1>9, <1>10, <1>11, <1>12, <1>13, <1>14, StepCases

\* Head, tail and count of a ring agree whatever is called; and no order of
\* calls puts a buffer into a ring twice, loses it from one, or leaves anything
\* else in it, short of freeing a published buffer, filling or dropping a queue
\* that holds some, and handing out the descriptor of one after a Reset.
THEOREM RingsSurvive == Spec => []RingSurvivesMisuse
<1>1. Init => RingInv
  <2> SUFFICES ASSUME Init PROVE RingInv
    OBVIOUS
  <2>1. queue = NewPipe.queue /\ buf = NewPipe.buf
    BY DEF Init, PipeInit
  <2>2. ASSUME NEW q \in Queue PROVE Aligned(q) /\ Place(q) = {}
    <3>1. Depth[q] \in Nat \ {0}
      BY TPipeAssumption
    <3>2. 0 % Depth[q] = 0
      BY <3>1, ModOnce
    <3>3. queue[q].used = 0 /\ queue[q].head = 0 /\ queue[q].tail = 0
      BY <2>1, DeclaredEmpty
    <3> QED
      BY <3>2, <3>3 DEF Aligned, Place
  <2>3. \A h \in Handle : buf[h].state # "ENQUE"
    BY <2>1 DEF NewPipe, NewBuffer
  <2> QED
    BY <2>2, <2>3 DEF RingInv
<1>2. RingInv => RingSurvivesMisuse
  BY RingInvSurvives
<1> QED
  BY <1>1, <1>2, RingStep, BaseInvAlways, PTL DEF Spec
=============================================================================
