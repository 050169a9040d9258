------------------------------ MODULE SlotFifo ------------------------------
(***************************************************************************)
(* What a set of queues promises its kernel: every slot belongs to one     *)
(* queue and is idle, being filled, published or in use; slots are         *)
(* consumed in the order they were published.                              *)
(***************************************************************************)
EXTENDS Sequences, FiniteSets

CONSTANTS Queue, Slot

VARIABLES idle, filling, fifo, using

vars == <<idle, filling, fifo, using>>

Nothing == [q \in Queue |-> {}]

Init ==
  /\ idle = Nothing
  /\ filling = Nothing
  /\ fifo = [q \in Queue |-> <<>>]
  /\ using = Nothing

Entries(q) == {fifo[q][i] : i \in DOMAIN fifo[q]}
Slots(q)   == idle[q] \cup filling[q] \cup Entries(q) \cup using[q]

\* Queue q gets slots that are in use nowhere else.
Provide(q) ==
  /\ Slots(q) = {}
  /\ \E S \in SUBSET (Slot \ UNION {Slots(r) : r \in Queue}) : idle' = [idle EXCEPT ![q] = S]
  /\ UNCHANGED <<filling, fifo, using>>

Take(q) == \E s \in idle[q] :
  /\ idle' = [idle EXCEPT ![q] = @ \ {s}]
  /\ filling' = [filling EXCEPT ![q] = @ \cup {s}]
  /\ UNCHANGED <<fifo, using>>

Put(q) == \E s \in filling[q] :
  /\ filling' = [filling EXCEPT ![q] = @ \ {s}]
  /\ fifo' = [fifo EXCEPT ![q] = Append(@, s)]
  /\ UNCHANGED <<idle, using>>

Get(q) ==
  /\ fifo[q] # <<>>
  /\ fifo' = [fifo EXCEPT ![q] = Tail(@)]
  /\ using' = [using EXCEPT ![q] = @ \cup {Head(fifo[q])}]
  /\ UNCHANGED <<idle, filling>>

GiveBack(q) == \E s \in using[q] :
  /\ using' = [using EXCEPT ![q] = @ \ {s}]
  /\ idle' = [idle EXCEPT ![q] = @ \cup {s}]
  /\ UNCHANGED <<filling, fifo>>

\* Everybody starts over, once no slot is in use.
StartOver ==
  /\ \A q \in Queue : Slots(q) = idle[q]
  /\ idle' = Nothing
  /\ UNCHANGED <<filling, fifo, using>>

Next ==
  \/ \E q \in Queue : Provide(q) \/ Take(q) \/ Put(q) \/ Get(q) \/ GiveBack(q)
  \/ StartOver

Spec == Init /\ [][Next]_vars
=============================================================================
