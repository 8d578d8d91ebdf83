---------------------------- MODULE RandomUniform ----------------------------
(***************************************************************************)
(* randombytes_uniform (randombytes.c): a number below upper_bound from a  *)
(* random word, drawn again while the word is below 2^32 mod upper_bound.  *)
(* This is the loop with draws that succeed: the result of rdrand_get_n_32 *)
(* is ignored, and after a failure r is 0 or what was on the stack.        *)
(***************************************************************************)
EXTENDS RdRand, FiniteSets

VARIABLE upper_bound     \* the argument of the call

\* Mutant: the two's complement is taken without adding one.
MutantComplement == (Modulus - 1 - upper_bound) % upper_bound

\* (1U + ~upper_bound) % upper_bound.
min == (Modulus - upper_bound) % upper_bound

\* The words that end the loop, and the result for one of them.
Accepted == min .. Modulus - 1

randombytes_uniform(r) == IF upper_bound < 2 THEN 0 ELSE r % upper_bound
-----------------------------------------------------------------------------
\* As long as the draws succeed, every value below the bound is returned for the
\* same number of words, the most that this is possible for: the loop throws away
\* fewer words than one full round of values, so the result has no modulo bias.
NoModuloBias ==
  \A v \in 0 .. upper_bound - 1 :
    Cardinality({r \in Accepted : randombytes_uniform(r) = v}) = Modulus \div upper_bound
=============================================================================
