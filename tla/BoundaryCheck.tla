---------------------------- MODULE BoundaryCheck ----------------------------
(***************************************************************************)
(* is_within_smram (boundary_check.c): the test that keeps the plaintext   *)
(* buffers of the channel inside SMRAM.  addr is an unsigned and size a    *)
(* signed integer of W bits; the sum of both is taken modulo 2^W.          *)
(***************************************************************************)
EXTENDS Integers

CONSTANTS
  Half,         \* 2^(W-1); the code has W = 32
  SMRAM_START,
  SMRAM_SIZE

\* SMRAM is not empty and does not touch either end of the address space
\* (0x000a0000 .. 0x000affff in the code).
ASSUME SmramAssumption ==
  /\ Half \in Nat \ {0}
  /\ SMRAM_START \in Nat \ {0}
  /\ SMRAM_SIZE \in Nat \ {0}
  /\ SMRAM_START + SMRAM_SIZE < 2 * Half

VARIABLES addr, size   \* the arguments of a call

Address == 0 .. 2 * Half - 1
Size == -Half .. Half - 1
Arguments == addr \in Address /\ size \in Size

\* The sum as an unsigned integer: modulo 2^W, for a value within one period.
Wrap(n) ==
  IF n < 0 THEN n + 2 * Half ELSE IF n >= 2 * Half THEN n - 2 * Half ELSE n

\* Mutant: the test that the end did not wrap is dropped.
MutantNoWrapTest(start, end) ==
  SMRAM_START <= start /\ end <= SMRAM_START + SMRAM_SIZE - 1

InBounds(start, end) ==
  start <= end /\ SMRAM_START <= start /\ end <= SMRAM_START + SMRAM_SIZE - 1

is_within_smram(start, n) ==
  InBounds(start, IF n > 0 THEN Wrap(start + n - 1) ELSE start)

Smram == SMRAM_START .. SMRAM_START + SMRAM_SIZE - 1
\* The bytes of a buffer before any conversion; a size of 0 or less is the
\* single byte at start.
Bytes(start, n) == start .. (IF n > 0 THEN start + n - 1 ELSE start)

\* is_within_smram accepts exactly the buffers that lie in SMRAM, for every
\* address and every size: no sum that wraps around is taken for an end in SMRAM
\* and no buffer that fits is refused at either boundary.
AcceptsExactlySmram ==
  is_within_smram(addr, size) <=> Bytes(addr, size) \subseteq Smram
=============================================================================
