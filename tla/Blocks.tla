------------------------------- MODULE Blocks -------------------------------
(***************************************************************************)
(* Local memory as 32-byte blocks: the unit of DMA transfers, of the race  *)
(* checker's granules and of the lengths InitBuffer accepts.               *)
(***************************************************************************)
EXTENDS Integers

ONE_BLK_SIZE == 32

\* The blocks that bytes at address lie in, rounded outwards.
BlocksOf(address, bytes) ==
  (address \div ONE_BLK_SIZE) .. ((address + bytes + ONE_BLK_SIZE - 1) \div ONE_BLK_SIZE) - 1
=============================================================================
