------------------------------ MODULE Machine ------------------------------
(***************************************************************************)
(* The static tables of the mini Ascend C machine (kernel_common.h): the   *)
(* logical positions a tensor may have, the physical memories they map to, *)
(* the asynchronous pipes of one core, the hardware events that order two  *)
(* pipes, and the event a queue between two memories uses.  Everything is  *)
(* a constant; the other modules pick their edges from these tables.       *)
(***************************************************************************)

TPosition == {"GM", "A1", "A2", "B1", "B2", "C1", "C2", "CO1", "CO2",
              "VECIN", "VECOUT", "VECCALC", "SPM", "TSCM", "MAX"}

Hardware == {"GM", "UB", "L1", "L0A", "L0B", "L0C"}

PipeId == {"S", "V", "M", "MTE1", "MTE2", "MTE3"}

\* Logical position -> the memory it sits in.
GetPhyType(pos) ==
  CASE pos = "GM"                           -> "GM"
    [] pos \in {"A1", "B1", "C1", "TSCM"}   -> "L1"
    [] pos = "A2"                           -> "L0A"
    [] pos = "B2"                           -> "L0B"
    [] pos = "CO1"                          -> "L0C"
    [] OTHER                                -> "UB"

\* A queue's position read as an edge <<source, destination>>; "MAX" is the
\* code's marker for a position that names no edge.
GetBufferLogicPos(pos) ==
  CASE pos \in {"A1", "B1", "C1", "VECIN"}  -> <<"GM", pos>>
    [] pos = "A2"                           -> <<"A1", "A2">>
    [] pos = "B2"                           -> <<"B1", "B2">>
    [] pos = "C2"                           -> <<"C1", "C2">>
    [] pos = "CO1"                          -> <<"CO1", "CO2">>
    [] pos \in {"CO2", "VECOUT"}            -> <<pos, "GM">>
    [] pos = "SPM"                          -> <<"VECOUT", "GM">>
    [] OTHER                                -> <<"MAX", "MAX">>

\* The end of an edge its buffers are carved from: the first one that is
\* not global memory.
GetPosition(src, dst) == IF src = "GM" THEN dst ELSE src

GetBufferPos(src, dst) == GetPhyType(GetPosition(src, dst))

-----------------------------------------------------------------------------
(* Events.  Each is named after the edge it guards, producer to consumer.  *)

EventEdge ==
  [MTE2_V    |-> <<"MTE2", "V">>,     V_MTE2    |-> <<"V", "MTE2">>,
   V_MTE3    |-> <<"V", "MTE3">>,     MTE3_V    |-> <<"MTE3", "V">>,
   MTE2_MTE1 |-> <<"MTE2", "MTE1">>,  MTE1_MTE2 |-> <<"MTE1", "MTE2">>,
   MTE1_M    |-> <<"MTE1", "M">>,     M_MTE1    |-> <<"M", "MTE1">>,
   MTE1_V    |-> <<"MTE1", "V">>,     V_MTE1    |-> <<"V", "MTE1">>,
   MTE2_M    |-> <<"MTE2", "M">>,     M_MTE2    |-> <<"M", "MTE2">>,
   M_V       |-> <<"M", "V">>,        V_M       |-> <<"V", "M">>,
   S_V       |-> <<"S", "V">>,        V_S       |-> <<"V", "S">>,
   S_MTE2    |-> <<"S", "MTE2">>,     MTE2_S    |-> <<"MTE2", "S">>,
   S_MTE3    |-> <<"S", "MTE3">>,     MTE3_S    |-> <<"MTE3", "S">>,
   MTE2_MTE3 |-> <<"MTE2", "MTE3">>,  MTE3_MTE2 |-> <<"MTE3", "MTE2">>,
   MTE3_MTE1 |-> <<"MTE3", "MTE1">>,  MTE1_MTE3 |-> <<"MTE1", "MTE3">>]

HardEvent == DOMAIN EventEdge

SrcPipeOf(e) == EventEdge[e][1]
DstPipeOf(e) == EventEdge[e][2]

\* The pair <<forward event, backward event>> of a queue from memory src to
\* memory dst: EnQue/DeQue use the first, FreeTensor/AllocTensor the second.
\* "MAX" when the hardware has no event for the pair, which the static
\* assertion of TQueBind rejects at compile time.
GetQueEvt(src, dst) ==
  CASE src = "GM"  /\ dst = "UB"              -> <<"MTE2_V", "V_MTE2">>
    [] src = "GM"  /\ dst = "L1"              -> <<"MTE2_MTE1", "MTE1_MTE2">>
    [] src = "GM"  /\ dst \in {"L0A", "L0B"}  -> <<"MTE2_M", "M_MTE2">>
    [] src = "UB"  /\ dst = "GM"              -> <<"V_MTE3", "MTE3_V">>
    [] src = "UB"  /\ dst = "L1"              -> <<"MTE3_MTE1", "MTE1_MTE3">>
    [] src = "UB"  /\ dst = "UB"              -> <<"MTE2_MTE3", "MTE3_MTE2">>
    [] src = "L1"  /\ dst \in {"L0A", "L0B"}  -> <<"MTE1_M", "M_MTE1">>
    [] src = "L1"  /\ dst = "UB"              -> <<"MTE1_V", "V_MTE1">>
    [] src = "L0C" /\ dst = "UB"              -> <<"M_V", "V_M">>
    [] OTHER                                  -> <<"MAX", "MAX">>

\* What TQue<pos, depth> computes at compile time from its position alone.
QueEvents(pos) ==
  LET edge == GetBufferLogicPos(pos)
  IN  GetQueEvt(GetPhyType(edge[1]), GetPhyType(edge[2]))

EnQueEvtOf(pos)   == QueEvents(pos)[1]
FreeBufEvtOf(pos) == QueEvents(pos)[2]

BufHardTypeOf(pos) ==
  LET edge == GetBufferLogicPos(pos) IN GetBufferPos(edge[1], edge[2])
=============================================================================
