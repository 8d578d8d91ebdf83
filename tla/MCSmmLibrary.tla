----------------------------- MODULE MCSmmLibrary -----------------------------
(* The functions that the supervisors call without sharing state: random    *)
(* bytes and numbers, the SMRAM check and MD5.  A behaviour tries one call   *)
(* of the last three, or any calls of the first.                             *)
EXTENDS RandomUniform, BoundaryCheck, Md5Hash

\* All lengths up to three blocks, that of ecall_test (4096 - 10), and one whose
\* length in bits needs a third byte.
Lengths == 0 .. 200 \cup {4086, 8200}

MCWeight == [k \in 0 .. LENGTH_SIZE - 1 |-> 256 ^ k]

arguments == <<addr, size, upper_bound>>

\* Arguments that stand for no call.
NoCheck == addr = SMRAM_START /\ size = 1
NoUniform == upper_bound = 2
NoHash == len = 0

MCInit ==
  /\ Init
  /\ off = 0 /\ compressed = <<>> /\ hashed = FALSE
  /\ \/ Arguments /\ NoUniform /\ NoHash
     \/ upper_bound \in 2 .. Modulus - 1 /\ NoCheck /\ NoHash
     \/ len \in Lengths /\ NoCheck /\ NoUniform

MCNext ==
  /\ NoCheck /\ NoUniform
  /\ \/ NoHash /\ Next /\ UNCHANGED hashVars
     \/ md5_hash /\ UNCHANGED vars
  /\ UNCHANGED arguments

MCSpec == MCInit /\ [][MCNext]_<<vars, arguments, hashVars>>
=============================================================================
