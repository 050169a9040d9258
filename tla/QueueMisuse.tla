---------------------------- MODULE QueueMisuse -----------------------------
(***************************************************************************)
(* A kernel that calls its queues in any order and with any tensor it ever *)
(* got from any of them, that may need more event ids than there are, and  *)
(* that gives buffers to its queues anew, drops queues and calls Reset     *)
(* whenever it likes: every error path of TQueBind and TPipe.  Nothing is  *)
(* computed, so the clocks stand still.                                    *)
(***************************************************************************)
EXTENDS TPipe

CONSTANTS
  Num, BufLen,   \* the arguments the kernel may give InitBuffer
  MaxErrors      \* the report counter stops the kernel here

ASSUME QueueMisuseAssumption == Num \subseteq Nat /\ BufLen \subseteq Nat

VARIABLES
  known,   \* the handles of the tensors the kernel got from AllocTensor
  robbed   \* a published buffer was freed, or its queue or descriptor given away

vars == <<coreVars, pipeVars, known, robbed>>

TypeOK == CoreTypeOK /\ PipeTypeOK /\ known \subseteq Handle /\ robbed \in BOOLEAN

Init == CoreInit /\ PipeInit /\ known = {} /\ robbed = FALSE

\* InitBuffer looks neither at what the queue holds nor, after a Reset, at what
\* the descriptors were.
Setup(q) ==
  /\ \E num \in Num, len \in BufLen :
       \/ /\ InitBuffer(q, num, len)
          /\ robbed' = (\/ robbed \/ HasTensorInQue(q)
                        \/ \E h \in Handle \cap curBufSize .. (curBufSize + num - 1) : buf[h].state = "ENQUE")
       \/ InitBufferRefused(q, num, len) /\ UNCHANGED robbed
  /\ UNCHANGED known

Call(q) ==
  /\ \/ AllocTensor(q) /\ known' = known \cup {IdleSlot(q)}
     \/ /\ AllocTensorRefused(q) \/ DeQue(q) \/ DeQueWrongState(q) \/ DeQueEmpty(q)
        /\ UNCHANGED known
  /\ UNCHANGED robbed

CallWith(q, h) ==
  /\ \/ (EnQue(q, h) \/ EnQueRefused(q, h) \/ DoubleFree(q, h)) /\ UNCHANGED robbed
     \/ FreeTensor(q, h) /\ robbed' = (robbed \/ buf[h].state = "ENQUE")
  /\ UNCHANGED known

\* The object that holds the queues goes out of scope, whatever they hold, and
\* a new one is declared.
OutOfScope ==
  /\ queue' = NewPipe.queue
  /\ robbed' = (robbed \/ \E q \in Queue : HasTensorInQue(q))
  /\ UNCHANGED <<coreVars, buf, curBufSize, maxAddr, eventOccupy, destroyed, known>>

StartOver == Reset /\ UNCHANGED <<known, robbed>>

Finish == Destroy /\ UNCHANGED <<known, robbed>>

Restart == NextKernel /\ known' = {} /\ robbed' = FALSE

Next ==
  \/ /\ ~ destroyed /\ syncErrors < MaxErrors
     /\ \/ \E q \in Queue : Setup(q) \/ Call(q)
        \/ \E q \in Queue, h \in known : CallWith(q, h)
        \/ OutOfScope
        \/ StartOver
        \/ Finish
  \/ Restart

Spec == Init /\ [][Next]_vars

-----------------------------------------------------------------------------

\* Where handle h is in the rings.
Entries(h) ==
  UNION {{q} \X {i \in 1 .. queue[q].used : Published(q)[i] = h} : q \in Queue}

\* Whatever the kernel calls, and whichever queue it hands a buffer to, head,
\* tail and count of a ring agree; and unless a published buffer is freed, its
\* queue filled anew or dropped, or its descriptor handed out again after a
\* Reset, a published buffer is in one place of one ring and a ring holds
\* nothing else: no entry is overwritten before it is taken, none is taken
\* twice, and DeQue never reads a stale one.
RingSurvivesMisuse ==
  /\ \A q \in Queue : (queue[q].head + queue[q].used) % Depth[q] = queue[q].tail
  /\ ~ robbed => \A h \in Handle : Cardinality(Entries(h)) = OneIf(buf[h].state = "ENQUE")

\* A raised flag is always backed by an id taken from the pool, also when a
\* buffer was given back to a queue of another kind and waits for an event
\* that is not its own: the pool never hands out a register that is still up.
RaisedFlagsAreOccupied ==
  ~ destroyed => \A e \in Event, id \in EventId :
    flags[e][id].pending => id \in eventOccupy[e]

-----------------------------------------------------------------------------
\* "The lifecycle of one TQue buffer.  Every transition is checked": a buffer
\* changes state along the life cycle, or the call is reported, or InitBuffer
\* hands its descriptor out and a new life begins.  Freeing a buffer that was
\* allocated and never published is taken to be part of the cycle.
LifeCycle == {<<"FREE", "OCCUPIED">>, <<"OCCUPIED", "ENQUE">>, <<"ENQUE", "DEQUE">>,
              <<"DEQUE", "FREE">>, <<"OCCUPIED", "FREE">>}

EveryTransitionChecked ==
  [][\A h \in Handle :
       \/ buf'[h].state = buf[h].state
       \/ h \in curBufSize .. (curBufSize' - 1)
       \/ <<buf[h].state, buf'[h].state>> \in LifeCycle
       \/ syncErrors' > syncErrors
       \/ destroyed]_vars
=============================================================================
