---------------------------- MODULE TensorWindow ----------------------------
(***************************************************************************)
(* What a LocalTensor says about where it points (kernel_tensor.h): an     *)
(* address and a length in bytes, both uint32_t, and the buffer they were  *)
(* taken from.  A slice moves both; nothing keeps them inside the buffer.  *)
(***************************************************************************)
EXTENDS Blocks

CONSTANT UINT32   \* 2^32: where uint32_t wraps around

ASSUME TensorAssumption == UINT32 \in Nat \ {0}

Word == 0 .. (UINT32 - 1)

\* Sums and differences of two words.
Plus(m, n)  == IF m + n < UINT32 THEN m + n ELSE m + n - UINT32
Minus(m, n) == IF n <= m THEN m - n ELSE m - n + UINT32

\* Mutant: the slice keeps the length of the whole.
SliceKeepsLength(t, offset) == [t EXCEPT !.address = Plus(@, offset)]

\* t[k], with the offset in bytes: the same buffer, a later start, and the
\* length that is left, if the offset is not past the end.
Slice(t, offset) == [t EXCEPT !.address = Plus(@, offset), !.dataLen = Minus(@, offset)]

\* CheckFits: the length is all it looks at.
Fits(t, bytes) == bytes <= t.dataLen

\* The granules an access to the first bytes of t is checked and recorded at,
\* before those past the end of the memory are skipped.  The end of the access
\* is a word too, and wraps around like the rest.
Reach(t, bytes) ==
  {t.hard} \X ((t.address \div ONE_BLK_SIZE)
                .. (Plus(Plus(t.address, bytes), ONE_BLK_SIZE - 1) \div ONE_BLK_SIZE) - 1)
=============================================================================
