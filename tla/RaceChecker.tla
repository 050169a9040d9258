---------------------------- MODULE RaceChecker -----------------------------
(***************************************************************************)
(* Any single-threaded kernel, correct or not, on the simulated core:      *)
(* every instruction of kernel_operator.h and kernel_tensor.h and every    *)
(* flag operation, in every order.  The history variable log is what the   *)
(* kernel really did; the granules are the little the checker remembers of *)
(* it.  The properties compare the two: whether the reports are right, and *)
(* which races go unreported.                                              *)
(***************************************************************************)
EXTENDS Machine, SyncCore, Sequences, FiniteSetsExt, Functions

CONSTANTS
  MaxIssued,   \* instructions per kernel
  MaxErrors,   \* the report counter stops the kernel here
  Modes,       \* the check modes the host switches between
  Refusals     \* how many operand checks an instruction may fail

ASSUME RaceCheckerAssumption ==
  /\ MaxIssued \in Nat
  /\ MaxErrors \in Nat
  /\ Refusals \subseteq Nat
  /\ Modes \subseteq {"Off", "Report"}

VARIABLE log   \* the touches of the running kernel, oldest first

vars == <<coreVars, log>>

\* One touch: who, at which tick, of what, the positions in the log of the
\* touches it races with, and whether the checker raised an alarm.
Touch == [pipe : Pipe, tick : Nat, at : SUBSET Granule, write : BOOLEAN,
          races : SUBSET Nat, alarm : BOOLEAN]

TypeOK == CoreTypeOK /\ log \in Seq(Touch)

-----------------------------------------------------------------------------
(* Instructions.  Touches of no granule, and those the checker is switched *)
(* off for, leave no trace in the log.                                     *)

Issued == FoldFunction(LAMBDA m, n : m + n, 0, clock)

\* The earlier touches that conflict with a touch of gs by p and that nothing
\* p has observed puts before it.
RacesWith(p, gs, write) ==
  {i \in DOMAIN log : /\ log[i].pipe # p
                      /\ log[i].at \cap gs # {}
                      /\ log[i].write \/ write
                      /\ view[p][log[i].pipe] < log[i].tick}

Logged(p, gs, write, errors) ==
  IF gs = {} \/ checkMode = "Off" THEN <<>>
  ELSE <<[pipe |-> p, tick |-> clock[p] + 1, at |-> gs, write |-> write,
          races |-> RacesWith(p, gs, write), alarm |-> errors > 0]>>

Issue(p, src0, src1, dst, refused) ==
  LET touch == TouchErrors(p, src0, src1, dst)
  IN  /\ Issued < MaxIssued
      /\ syncErrors + refused + touch[1] + touch[2] + touch[3] <= MaxErrors
      /\ Instruction(p, src0, src1, dst, refused)
      /\ log' = log \o Logged(p, src0, FALSE, touch[1])
                    \o Logged(p, src1, FALSE, touch[2])
                    \o Logged(p, dst, TRUE, touch[3])

Operand == SUBSET Granule

\* DataCopy into local memory, and out of it: the two MTE pipes.
DataCopyIn(dst, refused)  == "MTE2" \in Pipe /\ Issue("MTE2", {}, {}, dst, refused)
DataCopyOut(src, refused) == "MTE3" \in Pipe /\ Issue("MTE3", src, {}, {}, refused)

\* The vector pipe.
VecBinary(dst, src0, src1, refused) == "V" \in Pipe /\ Issue("V", src0, src1, dst, refused)
VecScalar(dst, src, refused)        == "V" \in Pipe /\ Issue("V", src, {}, dst, refused)
Duplicate(dst, refused)             == "V" \in Pipe /\ Issue("V", {}, {}, dst, refused)

\* The scalar pipe touches one granule, or global memory, which has none.
GetValue(g)       == "S" \in Pipe /\ Issue("S", {g}, {}, {}, 0)
SetValue(g)       == "S" \in Pipe /\ Issue("S", {}, {}, {g}, 0)
GlobalTensorValue == "S" \in Pipe /\ Issue("S", {}, {}, {}, 0)

KernelInstruction ==
  \/ \E gs \in Operand, n \in Refusals : DataCopyIn(gs, n) \/ DataCopyOut(gs, n)
  \/ \E dst, src0, src1 \in Operand, n \in Refusals :
       /\ Cardinality(dst) = Cardinality(src0) /\ Cardinality(dst) = Cardinality(src1)
       /\ VecBinary(dst, src0, src1, n)
  \/ \E dst, src \in Operand, n \in Refusals :
       /\ Cardinality(dst) = Cardinality(src)
       /\ VecScalar(dst, src, n)
  \/ \E dst \in Operand, n \in Refusals : Duplicate(dst, n)
  \/ \E g \in Granule : GetValue(g) \/ SetValue(g)
  \/ GlobalTensorValue

-----------------------------------------------------------------------------
(* Flags and the host.                                                     *)

AnyEventID == EventId \cup {INVALID_TEVENTID}

Signal(e, id) ==
  /\ syncErrors + SetFlagErrors(e, id) <= MaxErrors
  /\ SetFlag(e, id)
  /\ UNCHANGED log

Await(e, id) ==
  /\ syncErrors + WaitFlagErrors(e, id) <= MaxErrors
  /\ WaitFlag(e, id)
  /\ UNCHANGED log

Launch == KernelLaunch /\ log' = <<>>

Host ==
  \/ Launch
  \/ \E mode \in Modes : SetSyncCheck(mode) /\ UNCHANGED log
  \/ ClearSyncErrors /\ UNCHANGED log

Init == CoreInit /\ log = <<>>

Next ==
  \/ KernelInstruction
  \/ \E e \in Event, id \in AnyEventID : Signal(e, id) \/ Await(e, id)
  \/ Host

Spec == Init /\ [][Next]_vars

-----------------------------------------------------------------------------
(* The meaning of the clocks.                                              *)

\* A row of ticks, one per pipe, as the set of instructions it stands for.
UpTo(row) == UNION {{q} \X (1 .. row[q]) : q \in Pipe}

\* What p has observed.  p's own instructions are before its next one by
\* program order, whatever view[p][p] says.
ObservedRow(p) == [q \in Pipe |-> IF q = p THEN clock[q] ELSE view[p][q]]

Observed(p) == UpTo(ObservedRow(p))

InSnapshot(slot) == IF slot.pending THEN UpTo(slot.snapshot) ELSE {}

History == INSTANCE CausalHistory WITH
  issued  <- clock,
  known   <- [p \in Pipe |-> Observed(p)],
  carried <- [e \in Event |-> [id \in EventId |-> InSnapshot(flags[e][id])]]

\* A vector clock holds one number per pipe instead of a set of instructions,
\* SetFlag copies a row, WaitFlag takes a maximum.  Nothing is lost or
\* invented by that: the clocks implement the sets.
ClocksMeanHistory == History!Spec

\* Every tick a granule remembers was issued on the pipe it names.
TicksIssued(G, issued) ==
  \A g \in Granule :
    /\ G[g].writer # NoPipe => G[g].clock \in 1 .. issued[G[g].writer]
    /\ G[g].reader # NoPipe => G[g].readClock \in 1 .. issued[G[g].reader]

\* Nobody has observed, no flag carries and no granule names an instruction
\* that was not yet issued: nothing of an earlier block survives, whose clocks
\* ran further, and no merge of rows gets ahead of a clock.
NobodySeesTheFuture ==
  /\ \A p, q \in Pipe : view[p][q] <= clock[q]
  /\ \A e \in Event, id \in EventId, q \in Pipe : flags[e][id].snapshot[q] <= clock[q]
  /\ TicksIssued(gran, clock)

-----------------------------------------------------------------------------
(* The reports.                                                            *)

\* Touches i and j of the log race, and granule g is one they share.
Race(i, j, g) == i \in log[j].races /\ g \in log[i].at \cap log[j].at

Alarm(j) == log[j].alarm

\* Every alarm is about a race of this kernel: the granule a touch is checked
\* against is never left over from an earlier kernel, or overtaken by a
\* WaitFlag the checker failed to count.
NoFalseAlarm ==
  \A j \in DOMAIN log : Alarm(j) => \E i \in DOMAIN log, g \in Granule : Race(i, j, g)

\* Read-after-write and write-after-write: one remembered writer is enough.
\* If a touch races with an earlier write of a granule, an alarm was raised on
\* that granule by then.
RaceWithWriteReported ==
  \A i, j \in DOMAIN log, g \in Granule :
    Race(i, j, g) /\ log[i].write =>
      \E k \in 1 .. j : g \in log[k].at /\ Alarm(k)

\* Write-after-read: a racing write is reported when the read it races with is
\* the granule's most recent one.
RaceWithLastReadReported ==
  \A i, j \in DOMAIN log, g \in Granule :
    /\ Race(i, j, g)
    /\ \A k \in (i + 1) .. (j - 1) : g \notin log[k].at \/ log[k].write
    => \E k \in 1 .. j : g \in log[k].at /\ Alarm(k)

\* What the comment of the header promises of every race: "every access from a
\* different pipe must be covered by a WaitFlag that observed that clock".  A
\* second reader hides the first one from the write that follows.
EveryRaceReported ==
  \A i, j \in DOMAIN log, g \in Granule :
    Race(i, j, g) => \E k \in 1 .. j : g \in log[k].at /\ Alarm(k)
=============================================================================
