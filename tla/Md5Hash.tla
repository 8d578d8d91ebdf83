------------------------------- MODULE Md5Hash -------------------------------
(***************************************************************************)
(* md5_hash of the storage supervisor and of its enclave (md5.c,           *)
(* Enclave.cpp): which blocks it gives to md5_compress.  The compression   *)
(* is abstracted to the bytes it is given, in order: two calls agree when  *)
(* their streams do.                                                       *)
(***************************************************************************)
EXTENDS Integers, Sequences

CONSTANTS
  BLOCK_LEN, LENGTH_SIZE,
  Weight       \* Weight[i] is what byte i of a number counts, 256 ^ i

\* They are 64 and 8 in the code: the length has a place next to the mark.
ASSUME Md5Assumption ==
  /\ BLOCK_LEN \in Nat /\ LENGTH_SIZE \in 1 .. BLOCK_LEN - 1
  /\ Weight \in [0 .. LENGTH_SIZE - 1 -> Nat \ {0}] /\ Weight[0] = 1
  /\ \A i \in 1 .. LENGTH_SIZE - 1 : Weight[i] = 256 * Weight[i - 1]

MarkByte == 128                  \* 0x80
MessageByte(i) == 256 + i        \* byte i of the message, unlike any constant
Zeros == [i \in 1 .. BLOCK_LEN |-> 0]

VARIABLES
  len,         \* the length of the message
  off,         \* where the next block of it begins
  compressed,  \* all bytes that were compressed
  hashed       \* the call has returned

hashVars == <<len, off, compressed, hashed>>

\* Byte i of the length in bits: the first has five bits of len, the others
\* eight each.
LengthByte(i) ==
  IF i = 0 THEN (len % 32) * 8 ELSE (len \div (32 * Weight[i - 1])) % 256

\* The last block: block with the length at its end.
WithLength(block) ==
  [i \in 1 .. BLOCK_LEN |->
     IF i > BLOCK_LEN - LENGTH_SIZE
       THEN LengthByte(i - 1 - (BLOCK_LEN - LENGTH_SIZE)) ELSE block[i]]

\* The rest of the message and the mark; byte i of the block is at i + 1.
Marked ==
  [i \in 1 .. BLOCK_LEN |->
     CASE i <= len - off -> MessageByte(off + i - 1)
       [] i = len - off + 1 -> MarkByte
       [] OTHER -> 0]

\* Mutant: the mark is not counted.
MutantForgetMark(rem) == BLOCK_LEN - (rem - 1) < LENGTH_SIZE

NoRoom(rem) == BLOCK_LEN - rem < LENGTH_SIZE

\* Without room for the length, a block is compressed and cleared.
LastBlocks ==
  IF NoRoom(len - off + 1)
    THEN Marked \o WithLength(Zeros)
    ELSE WithLength(Marked)

HashInit == len \in Nat /\ off = 0 /\ compressed = <<>> /\ hashed = FALSE

md5_compress(bytes) == compressed' = compressed \o bytes

\* One round of the loop over the whole blocks of the message.
CompressBlock ==
  /\ ~hashed /\ len - off >= BLOCK_LEN
  /\ md5_compress([i \in 1 .. BLOCK_LEN |-> MessageByte(off + i - 1)])
  /\ off' = off + BLOCK_LEN
  /\ UNCHANGED <<len, hashed>>

\* What follows the loop.
CompressRest ==
  /\ ~hashed /\ len - off < BLOCK_LEN
  /\ md5_compress(LastBlocks)
  /\ hashed' = TRUE
  /\ UNCHANGED <<len, off>>

md5_hash == CompressBlock \/ CompressRest

HashSpec == HashInit /\ [][md5_hash]_hashVars
-----------------------------------------------------------------------------
(* The padding of MD5: the mark, zeros up to a whole number of blocks, and *)
(* the length in bits, least byte first.                                   *)

Total(n) == BLOCK_LEN * ((n + LENGTH_SIZE + BLOCK_LEN) \div BLOCK_LEN)

Padded(n) ==
  [j \in 1 .. Total(n) |->
     CASE j <= n -> MessageByte(j - 1)
       [] j = n + 1 -> MarkByte
       [] j > Total(n) - LENGTH_SIZE -> ((n * 8) \div Weight[j - 1 - (Total(n) - LENGTH_SIZE)]) % 256
       [] OTHER -> 0]

\* md5_hash compresses exactly the padded message, at every length around the
\* ends of a block: no byte twice, none past the message, one block more only
\* when mark and length do not fit.
CompressesPadding == hashed => compressed = Padded(len)
=============================================================================
