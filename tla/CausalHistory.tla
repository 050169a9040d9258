--------------------------- MODULE CausalHistory ----------------------------
(***************************************************************************)
(* What the vector clocks of SyncCore promise, said without clocks.  Every *)
(* pipe has a set of instructions that are certainly over when its next    *)
(* instruction starts: its own, and those that reached it through flags.   *)
(* Raising a flag publishes the source pipe's whole set; waiting adds the  *)
(* published set to the destination pipe's and lowers the flag.            *)
(***************************************************************************)
EXTENDS Integers

CONSTANTS Pipe, Event, EventSrcPipe, EventDstPipe, EVENT_ID_NUM

VARIABLES
  issued,   \* issued[p]: how many instructions pipe p has issued
  known,    \* known[p]: the instructions <<q, t>> ordered before p's next one
  carried   \* carried[e][id]: the set a raised flag carries, {} when lowered

vars == <<issued, known, carried>>

Register == 0 .. (EVENT_ID_NUM - 1)

Init ==
  /\ issued = [p \in Pipe |-> 0]
  /\ known = [p \in Pipe |-> {}]
  /\ carried = [e \in Event |-> [id \in Register |-> {}]]

Issue(p) ==
  /\ issued' = [issued EXCEPT ![p] = @ + 1]
  /\ known' = [known EXCEPT ![p] = @ \cup {<<p, issued[p] + 1>>}]
  /\ UNCHANGED carried

Publish(e, id) ==
  /\ carried' = [carried EXCEPT ![e][id] = known[EventSrcPipe[e]]]
  /\ UNCHANGED <<issued, known>>

Inherit(e, id) ==
  /\ known' = [known EXCEPT ![EventDstPipe[e]] = @ \cup carried[e][id]]
  /\ carried' = [carried EXCEPT ![e][id] = {}]
  /\ UNCHANGED issued

\* The next kernel starts from nothing.
Restart ==
  /\ issued' = [p \in Pipe |-> 0]
  /\ known' = [p \in Pipe |-> {}]
  /\ carried' = [e \in Event |-> [id \in Register |-> {}]]

Next ==
  \/ \E p \in Pipe : Issue(p)
  \/ \E e \in Event, id \in Register : Publish(e, id) \/ Inherit(e, id)
  \/ Restart

Spec == Init /\ [][Next]_vars
=============================================================================
