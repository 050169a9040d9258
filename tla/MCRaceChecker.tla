--------------------------- MODULE MCRaceChecker ----------------------------
(***************************************************************************)
(* Instances of RaceChecker: the three pipes and four events of a vector   *)
(* kernel, with the scalar pipe in a run of its own.                       *)
(***************************************************************************)
EXTENDS RaceChecker

VectorPipes  == {"MTE2", "V", "MTE3"}
VectorEvents == {"MTE2_V", "V_MTE3", "MTE3_MTE2"}

ScalarPipes  == {"S", "V"}
ScalarEvents == {"S_V", "V_S"}

MCEventSrcPipe == [e \in Event |-> SrcPipeOf(e)]
MCEventDstPipe == [e \in Event |-> DstPipeOf(e)]
=============================================================================
