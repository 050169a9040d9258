----------------------------- MODULE AddKernels -----------------------------
(***************************************************************************)
(* The example kernels as the calls they make, in order: the tiled add of  *)
(* add_kernel.inc and add_simple.cpp, and the four ways sync_check.cpp     *)
(* writes it.  x, y and z name both a queue (or a TBuf) and the            *)
(* LocalTensor variable filled from it.  KernelRun says what a call does.  *)
(***************************************************************************)
EXTENDS Naturals, Sequences, SequencesExt

Call(op, on)        == [op |-> op, on |-> on, tile |-> 0]
CallOn(op, on, i)   == [op |-> op, on |-> on, tile |-> i]

Each(op, vars) == [i \in DOMAIN vars |-> Call(op, vars[i])]

-----------------------------------------------------------------------------
(* With queues.                                                            *)

InitQueues == Each("InitBuffer", <<"x", "y", "z">>)

CopyIn(i) == Each("AllocTensor", <<"x", "y">>)
             \o <<CallOn("CopyIn", "x", i), CallOn("CopyIn", "y", i)>>
             \o Each("EnQue", <<"x", "y">>)

\* Mutant: the inputs are given back before the Add has read them.
ComputeFreesEarly(i) ==
  Each("DeQue", <<"x", "y">>) \o Each("FreeTensor", <<"x", "y">>)
  \o <<Call("AllocTensor", "z"), CallOn("Add", "z", i), Call("EnQue", "z")>>

Compute(i) ==
  Each("DeQue", <<"x", "y">>)
  \o <<Call("AllocTensor", "z"), CallOn("Add", "z", i), Call("EnQue", "z")>>
  \o Each("FreeTensor", <<"x", "y">>)

CopyOut(i) == <<Call("DeQue", "z"), CallOn("CopyOut", "z", i), Call("FreeTensor", "z")>>

Process(tiles) ==
  FlattenSeq([i \in 1 .. tiles |-> CopyIn(i - 1) \o Compute(i - 1) \o CopyOut(i - 1)])

AddCustom(tiles) == InitQueues \o Process(tiles)

\* One tile per core, on queues of one buffer.
AddSimple == AddCustom(1)
AddQueued == AddCustom(1)

\* Correct synchronisation, but the output buffer is never given back.
AddLeaky == Front(AddQueued)

-----------------------------------------------------------------------------
(* With TBufs.                                                             *)

CopyInScratch == Each("InitTBuf", <<"x", "y", "z">>) \o Each("Get", <<"x", "y", "z">>)
                 \o Each("CopyIn", <<"x", "y">>)

AddUnsynced == CopyInScratch \o Each("Add", <<"z">>) \o Each("CopyOut", <<"z">>)

\* Mutant: the flag is raised and nobody waits for it.
HandOverUnawaited(e) ==
  <<Call("AllocEventID", e), Call("SetFlag", e), Call("ReleaseEventID", e)>>

\* Mutant: the flag is waited for and nobody raises it.
HandOverUnraised(e) ==
  <<Call("AllocEventID", e), Call("WaitFlag", e), Call("ReleaseEventID", e)>>

\* What a queue does at EnQue and DeQue, written out.
HandOver(e) == <<Call("AllocEventID", e), Call("SetFlag", e),
                 Call("WaitFlag", e), Call("ReleaseEventID", e)>>

AddManualFlags ==
  CopyInScratch
  \o HandOver("MTE2_V") \o Each("Add", <<"z">>)
  \o HandOver("V_MTE3") \o Each("CopyOut", <<"z">>)
=============================================================================
