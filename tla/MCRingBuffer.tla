----------------------------- MODULE MCRingBuffer -----------------------------
(* Small instances of RingBuffer for TLC. *)
EXTENDS RingBuffer, TLC

\* Message identities never order or select anything, so they are interchangeable.
MessageSymmetry == Permutations(Message)
=============================================================================
